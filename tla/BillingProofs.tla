---------------------------- MODULE BillingProofs ----------------------------
(* Theorems about Billing, for every value of its constants.  Billing       *)
(* implements Finance, so what FinanceProofs shows of the ledger holds with  *)
(* billing.js posting to it; and three invariants of Billing's own.         *)
EXTENDS Billing, FinanceProofs, FiniteSetTheorems

bookVars == <<financeVars, billingVars>>

-----------------------------------------------------------------------------
(* What a step does to invoices and payments *)

\* The documents as far as the theorems below look at them.
InvoicesKnown ==
    /\ IsSequence(invoices)
    /\ invoiceOf \in [Intakes -> Nat]
    /\ \A i \in DOMAIN invoices :
          /\ invoices[i].intake \in Intakes
          /\ {"intake", "cancelled"} \subseteq DOMAIN invoices[i]

\* Every payment names an entry of the ledger, which is what its reversal looks up.
EntriesKnown ==
    /\ payments \in Seq(Payment)
    /\ \A k \in DOMAIN payments : payments[k].entry \in DOMAIN ledger

BillInv == MoneyInv /\ InvoicesKnown /\ EntriesKnown

\* Still the invoice of the same job, and cancelled only if it was.
SameJob(x, inv) ==
    DOMAIN x = DOMAIN inv /\ x.intake = inv.intake /\ x.cancelled = inv.cancelled

CreatesInvoice ==
    \E j \in Intakes :
        /\ invoiceOf[j] = 0
        /\ invoices' = Append(invoices, NewInvoice(j))
        /\ invoiceOf' = [invoiceOf EXCEPT ![j] = Len(invoices) + 1]
ChangesInvoice ==
    /\ UNCHANGED invoiceOf
    /\ \E i, x : /\ invoices' = [invoices EXCEPT ![i] = x]
                 /\ i \in DOMAIN invoices => SameJob(x, invoices[i])
CancelsInvoice ==
    \E i \in DOMAIN invoices :
        /\ ~invoices[i].cancelled
        /\ invoices' = [invoices EXCEPT ![i].cancelled = TRUE]
        /\ invoiceOf' = JobsWithout(i)

\* A step makes one invoice, changes one, cancels one, or leaves them all.
LEMMA InvoicesStep ==
    InvoicesKnown /\ [BillingNext]_bookVars =>
        \/ CreatesInvoice \/ ChangesInvoice \/ CancelsInvoice
        \/ UNCHANGED <<invoices, invoiceOf>>
<1> SUFFICES ASSUME InvoicesKnown, [BillingNext]_bookVars
             PROVE  \/ CreatesInvoice \/ ChangesInvoice \/ CancelsInvoice
                    \/ UNCHANGED <<invoices, invoiceOf>>
  OBVIOUS
<1>1. CASE UNCHANGED bookVars
  BY <1>1 DEF bookVars, billingVars
<1>2. CASE CorrectingPoints \/ Banking
  BY <1>2 DEF CorrectingPoints, AdjustLoyaltyPoints, ReverseLoyaltyTransaction, Banking,
              billingVars
<1>3. ASSUME NEW j \in Intakes, CreateInvoice(j) PROVE CreatesInvoice
  BY <1>3 DEF CreateInvoice, Invoicable, CreatesInvoice
<1>4. ASSUME NEW i \in DOMAIN invoices, CancelInvoice(i) PROVE CancelsInvoice
  BY <1>4 DEF CancelInvoice, Cancellable, CancelsInvoice
<1>5. ASSUME NEW i \in DOMAIN invoices, NEW amount, ApplyInvoiceDiscount(i, amount)
      PROVE  ChangesInvoice
  <2> DEFINE x == [invoices[i] EXCEPT !.discount = amount, !.source = "manual"]
  <2>1. invoices' = [invoices EXCEPT ![i] = x]
    BY <1>5 DEF ApplyInvoiceDiscount
  <2>2. SameJob(x, invoices[i])
    BY DEF SameJob, InvoicesKnown
  <2> QED
    BY <1>5, <2>1, <2>2 DEF ApplyInvoiceDiscount, ChangesInvoice
<1>6. ASSUME NEW i \in DOMAIN invoices, ApplyLoyaltyReward(i) PROVE ChangesInvoice
  <2> DEFINE amount == PercentOf(SubtotalOf(invoices[i]), RewardPercent)
  <2>1. PICK w : invoices' = [invoices EXCEPT
                     ![i].discount = amount, ![i].source = "loyalty_reward",
                     ![i].reward = w, ![i].redeemEntry = Len(loyalty.log) + 1]
    BY <1>6 DEF ApplyLoyaltyReward
  <2> DEFINE x == [invoices[i] EXCEPT
                     !.discount = amount, !.source = "loyalty_reward",
                     !.reward = w, !.redeemEntry = Len(loyalty.log) + 1]
  <2>2. invoices' = [invoices EXCEPT ![i] = x]
    BY <2>1
  <2>3. SameJob(x, invoices[i])
    BY DEF SameJob, InvoicesKnown
  <2> QED
    BY <1>6, <2>2, <2>3 DEF ApplyLoyaltyReward, ChangesInvoice
<1>7. ASSUME NEW i \in DOMAIN invoices, MarkInvoiceCredit(i) PROVE ChangesInvoice
  <2> DEFINE x == [invoices[i] EXCEPT !.onCredit = TRUE]
  <2>1. invoices' = [invoices EXCEPT ![i] = x]
    BY <1>7 DEF MarkInvoiceCredit
  <2>2. SameJob(x, invoices[i])
    BY DEF SameJob, InvoicesKnown
  <2> QED
    BY <1>7, <2>1, <2>2 DEF MarkInvoiceCredit, ChangesInvoice
<1>8. ASSUME NEW r, NEW i \in DOMAIN invoices, NEW method, NEW n, RecordPayment(r, i, method, None, n)
      PROVE  ChangesInvoice
  <2> DEFINE earns == Earns(invoices[i], n)
             x == [invoices[i] EXCEPT
               !.paid = @ + n,
               !.earned = @ \/ earns,
               !.earnEntry = IF earns THEN Len(loyalty.log) + 1 ELSE @]
  <2>1. invoices' = [invoices EXCEPT ![i] = x]
    BY <1>8 DEF RecordPayment
  <2>2. SameJob(x, invoices[i])
    BY DEF SameJob, InvoicesKnown
  <2> QED
    BY <1>8, <2>1, <2>2 DEF RecordPayment, ChangesInvoice
<1>9. ASSUME NEW k, ReversePayment(k) PROVE ChangesInvoice
  <2> DEFINE i == payments[k].invoice
             x == WithoutPayment(invoices[i], payments[k].amount)
  <2>1. invoices' = [invoices EXCEPT ![i] = x]
    BY <1>9 DEF ReversePayment
  <2>2. i \in DOMAIN invoices => SameJob(x, invoices[i])
    BY DEF SameJob, InvoicesKnown, WithoutPayment
  <2> QED
    BY <1>9, <2>1, <2>2 DEF ReversePayment, ChangesInvoice
<1> QED
  BY <1>1, <1>2, <1>3, <1>4, <1>5, <1>6, <1>7, <1>8, <1>9 DEF BillingNext, Invoicing, Paying

TakesPayment ==
    /\ Payments
    /\ \E r \in PaymentRequests, i \in DOMAIN invoices, n \in Amounts :
          /\ \E a \in AccountIds : Post(NewEntry("customer_payment", n, None, a))
          /\ paidBy[r] = 0
          /\ paidBy' = [paidBy EXCEPT ![r] = Len(payments) + 1]
          /\ payments' = Append(payments, [invoice |-> i, amount |-> n,
                                           entry |-> NextNumber, live |-> TRUE])
UndoesPayment ==
    \E k \in DOMAIN payments :
        /\ payments[k].live
        /\ ReverseCustomerPayment(payments[k].entry)
        /\ payments' = [payments EXCEPT ![k].live = FALSE]
        /\ UNCHANGED paidBy

\* Invoicing and corrections of points touch no document of finance.js.
LEMMA MoneyUntouched ==
    Invoicing \/ CorrectingPoints => UNCHANGED <<financeVars, payments, paidBy>>
<1>1. Invoicing => UNCHANGED <<financeVars, payments, paidBy>>
  BY DEF Invoicing, CreateInvoice, ApplyInvoiceDiscount, ApplyLoyaltyReward,
         MarkInvoiceCredit, CancelInvoice
<1>2. CorrectingPoints => UNCHANGED <<financeVars, payments, paidBy>>
  BY DEF CorrectingPoints, AdjustLoyaltyPoints, ReverseLoyaltyTransaction
<1> QED
  BY <1>1, <1>2

\* A step takes a payment, reverses one, takes cash to the bank, or touches
\* neither money nor payments.
LEMMA PaymentsStep ==
    [BillingNext]_bookVars =>
        \/ TakesPayment \/ UndoesPayment
        \/ Movements /\ UNCHANGED <<payments, paidBy>>
        \/ UNCHANGED <<financeVars, payments, paidBy>>
<1> SUFFICES ASSUME [BillingNext]_bookVars
             PROVE  \/ TakesPayment \/ UndoesPayment
                    \/ Movements /\ UNCHANGED <<payments, paidBy>>
                    \/ UNCHANGED <<financeVars, payments, paidBy>>
  OBVIOUS
<1>1. CASE UNCHANGED bookVars
  BY <1>1 DEF bookVars, billingVars
<1>2. CASE Invoicing \/ CorrectingPoints
  BY <1>2, MoneyUntouched
<1>3. CASE Banking
  <2>1. Cash \in AccountIds /\ Bank1 \in AccountIds
    BY DEF AccountIds, Defaults
  <2> QED
    BY <1>3, <2>1 DEF Banking, Movements, billingVars
<1>4. ASSUME NEW r \in PaymentRequests, NEW i \in DOMAIN invoices, NEW method \in Defaults,
             NEW n \in Amounts, RecordPayment(r, i, method, None, n)
      PROVE  TakesPayment
  <2>1. Payments /\ \E a \in AccountIds : Post(NewEntry("customer_payment", n, None, a))
    BY <1>4 DEF RecordPayment, Payments, PostCustomerPayment
  <2> QED
    BY <1>4, <2>1 DEF RecordPayment, FirstTime, TakesPayment
<1>5. ASSUME NEW k \in DOMAIN payments, ReversePayment(k) PROVE UndoesPayment
  BY <1>5 DEF ReversePayment, UndoesPayment
<1> QED
  BY <1>1, <1>2, <1>3, <1>4, <1>5 DEF BillingNext, Paying

-----------------------------------------------------------------------------
(* Billing implements Finance *)

\* Every step of Billing is a step of Finance or changes nothing of it.
LEMMA BillingSteps == BillInv /\ [BillingNext]_bookVars => [FinanceNext]_financeVars
<1>1. BillInv /\ UndoesPayment => Reversals
  BY DEF UndoesPayment, Reversals, BillInv, EntriesKnown
<1>2. TakesPayment => Payments
  BY DEF TakesPayment
<1> QED
  BY <1>1, <1>2, PaymentsStep DEF FinanceNext

\* What invoices look like is kept.
LEMMA InvoicesKept == InvoicesKnown /\ [BillingNext]_bookVars => InvoicesKnown'
<1> SUFFICES ASSUME InvoicesKnown, [BillingNext]_bookVars PROVE InvoicesKnown'
  OBVIOUS
<1>1. IsSequence(invoices) /\ Len(invoices) \in Nat /\ invoiceOf \in [Intakes -> Nat]
  BY AppendAny DEF InvoicesKnown
<1>2. CASE CreatesInvoice
  <2>1. PICK j \in Intakes :
           /\ invoices' = Append(invoices, NewInvoice(j))
           /\ invoiceOf' = [invoiceOf EXCEPT ![j] = Len(invoices) + 1]
    BY <1>2 DEF CreatesInvoice
  <2>2. NewInvoice(j).intake = j /\ {"intake", "cancelled"} \subseteq DOMAIN NewInvoice(j)
    BY DEF NewInvoice
  <2>3. invoiceOf' \in [Intakes -> Nat]
    BY <1>1, <2>1
  <2>4. IsSequence(invoices')
    BY <1>1, <2>1, AppendAny
  <2>5. ASSUME NEW i \in DOMAIN invoices'
        PROVE  invoices'[i].intake \in Intakes /\ {"intake", "cancelled"} \subseteq DOMAIN invoices'[i]
    <3>1. CASE i \in 1..Len(invoices)
      <4>1. i \in DOMAIN invoices /\ invoices'[i] = invoices[i]
        BY <1>1, <2>1, <3>1, AppendAny
      <4> QED
        BY <4>1 DEF InvoicesKnown
    <3>2. CASE i \notin 1..Len(invoices)
      <4>1. i = Len(invoices) + 1
        <5>1. DOMAIN invoices' = 1..(Len(invoices) + 1)
          BY <1>1, <2>1, AppendAny
        <5> QED
          BY <1>1, <3>2, <5>1
      <4>2. invoices'[i] = NewInvoice(j)
        BY <1>1, <2>1, <4>1, AppendAny
      <4> QED
        BY <2>2, <4>2
    <3> QED
      BY <3>1, <3>2
  <2> QED
    BY <2>3, <2>4, <2>5 DEF InvoicesKnown
<1>3. ASSUME NEW i, NEW x, invoices' = [invoices EXCEPT ![i] = x],
             i \in DOMAIN invoices => /\ DOMAIN x = DOMAIN invoices[i]
                                      /\ x.intake = invoices[i].intake
      PROVE  /\ IsSequence(invoices')
             /\ \A k \in DOMAIN invoices' :
                   /\ invoices'[k].intake \in Intakes
                   /\ {"intake", "cancelled"} \subseteq DOMAIN invoices'[k]
  <2>1. /\ IsSequence(invoices') /\ DOMAIN invoices' = DOMAIN invoices
        /\ \A k \in DOMAIN invoices : invoices'[k] = IF k = i THEN x ELSE invoices[k]
    BY <1>1, <1>3, ReplaceAny
  <2> QED
    BY <1>3, <2>1 DEF InvoicesKnown
<1>4. CASE ChangesInvoice
  BY <1>1, <1>3, <1>4 DEF ChangesInvoice, SameJob, InvoicesKnown
<1>5. CASE CancelsInvoice
  <2>1. PICK i \in DOMAIN invoices : /\ invoices' = [invoices EXCEPT ![i].cancelled = TRUE]
                                     /\ invoiceOf' = JobsWithout(i)
    BY <1>5 DEF CancelsInvoice
  <2> DEFINE x == [invoices[i] EXCEPT !.cancelled = TRUE]
  <2>2. invoices' = [invoices EXCEPT ![i] = x]
    BY <2>1
  <2>3. DOMAIN x = DOMAIN invoices[i] /\ x.intake = invoices[i].intake
    BY DEF InvoicesKnown
  <2>4. invoiceOf' \in [Intakes -> Nat]
    BY <1>1, <2>1 DEF JobsWithout
  <2> HIDE DEF x
  <2> QED
    BY <1>3, <2>2, <2>3, <2>4 DEF InvoicesKnown
<1>6. CASE UNCHANGED <<invoices, invoiceOf>>
  BY <1>6 DEF InvoicesKnown
<1> QED
  BY <1>2, <1>4, <1>5, <1>6, InvoicesStep

\* The entry a payment names stays in the ledger.
LEMMA EntriesKept == BillInv /\ [BillingNext]_bookVars => EntriesKnown'
<1> SUFFICES ASSUME BillInv, [BillingNext]_bookVars PROVE EntriesKnown'
  OBVIOUS
<1>1. MoneyInv /\ MoneyInv' /\ AppendOnlyStep
  BY BillingSteps, MoneyStep, AppendOnly DEF BillInv
<1>2. /\ DOMAIN ledger = 1..Len(ledger) /\ Len(ledger) \in Nat
      /\ DOMAIN ledger' = 1..Len(ledger') /\ Len(ledger') \in Nat
      /\ Len(ledger) <= Len(ledger')
  BY <1>1, LenProperties DEF MoneyInv, FinanceTypeOK, AppendOnlyStep
<1>3. payments \in Seq(Payment) /\ \A k \in DOMAIN payments : payments[k].entry \in 1..Len(ledger)
  BY <1>2 DEF BillInv, EntriesKnown
<1>4. CASE UNCHANGED payments
  BY <1>2, <1>3, <1>4 DEF EntriesKnown
<1>5. CASE UndoesPayment
  <2>1. PICK k \in DOMAIN payments : payments' = [payments EXCEPT ![k].live = FALSE]
    BY <1>5 DEF UndoesPayment
  <2>2. /\ [payments[k] EXCEPT !.live = FALSE] \in Payment
        /\ [payments[k] EXCEPT !.live = FALSE].entry = payments[k].entry
    <3>1. payments[k] \in Payment
      BY <1>3, ElementOfSeq
    <3>2. \A x \in Payment : /\ [x EXCEPT !.live = FALSE] \in Payment
                             /\ [x EXCEPT !.live = FALSE].entry = x.entry
      BY DEF Payment
    <3> QED
      BY <3>1, <3>2
  <2>3. payments' \in Seq(Payment)
    BY <1>3, <2>1, <2>2, ReplaceType
  <2>4. \A l \in DOMAIN payments' : l \in DOMAIN payments /\ payments'[l].entry = payments[l].entry
    BY <2>1, <2>2
  <2> QED
    BY <1>2, <1>3, <2>3, <2>4 DEF EntriesKnown
<1>6. CASE TakesPayment
  <2>1. PICK i \in DOMAIN invoices, n \in Amounts :
           payments' = Append(payments, [invoice |-> i, amount |-> n,
                                         entry |-> NextNumber, live |-> TRUE])
    BY <1>6 DEF TakesPayment
  <2> DEFINE p == [invoice |-> i, amount |-> n, entry |-> NextNumber, live |-> TRUE]
  <2>2. i \in Nat
    BY AppendAny DEF BillInv, InvoicesKnown
  <2>3. p \in Payment /\ p.entry = Len(ledger) + 1
    BY <1>2, <2>2, BoundAssumption DEF Payment, Amount, NextNumber
  <2>4. Len(ledger') = Len(ledger) + 1
    BY <1>1, <1>6, ShapePayments, LedgerAfterPosting DEF TakesPayment, MoneyInv
  <2>5. payments' = Append(payments, p)
    BY <2>1
  <2> HIDE DEF p
  <2>6. /\ payments' \in Seq(Payment) /\ Len(payments') = Len(payments) + 1
        /\ \A l \in 1..Len(payments) : payments'[l] = payments[l]
        /\ payments'[Len(payments) + 1] = p
    BY <1>3, <2>3, <2>5, AppendProperties
  <2>7. ASSUME NEW l \in DOMAIN payments' PROVE payments'[l].entry \in DOMAIN ledger'
    <3>1. /\ l \in 1..(Len(payments) + 1) /\ Len(payments) \in Nat
          /\ DOMAIN payments = 1..Len(payments)
      BY <1>3, <2>6, LenProperties
    <3> QED
      BY <1>2, <1>3, <2>3, <2>4, <2>6, <3>1
  <2> QED
    BY <2>6, <2>7 DEF EntriesKnown
<1> QED
  BY <1>4, <1>5, <1>6, PaymentsStep

\* Nothing is invoiced or paid at first.
LEMMA BillInit == BillingInit => BillInv
<1> SUFFICES ASSUME BillingInit PROVE BillInv
  OBVIOUS
<1>1. MoneyInv
  BY MoneyInit DEF BillingInit
<1>2. InvoicesKnown
  <2>1. invoices = << >> /\ << >> \in Seq({}) /\ invoiceOf \in [Intakes -> Nat]
    BY DEF BillingInit
  <2>2. IsSequence(invoices)
    BY <2>1, Zenon DEF IsSequence
  <2> QED
    BY <2>1, <2>2 DEF InvoicesKnown
<1>3. EntriesKnown
  BY DEF BillingInit, EntriesKnown
<1> QED
  BY <1>1, <1>2, <1>3 DEF BillInv

\* Every step keeps the invariant.
LEMMA BillStep == BillInv /\ [BillingNext]_bookVars => BillInv'
BY BillingSteps, MoneyStep, InvoicesKept, EntriesKept DEF BillInv

\* The invariant the theorems below start from.
LEMMA BillInvariant == BillingSpec => []BillInv
BY BillInit, BillStep, PTL DEF BillingSpec, bookVars

\* Whatever billing.js does to accounts and ledger, finance.js could have done: a
\* payment and its reversal are a payment and a reversal of Finance, in the same
\* transaction, and nothing else of billing.js touches the money.
THEOREM BillingImplementsFinance == BillingSpec => FinanceSpec
<1>1. BillingInit => FinanceInit
  BY DEF BillingInit
<1> QED
  BY <1>1, BillInvariant, BillingSteps, PTL DEF BillingSpec, FinanceSpec, bookVars

\* So the reconciliation guarantee of docs/FINANCE.md holds with invoices being
\* paid: no money moves without its entry, no entry without its money.
THEOREM BillingKeepsJournal == BillingSpec => ImplementsJournal
BY BillingImplementsFinance, JournalCorrect, PTL

-----------------------------------------------------------------------------
(* A job has one invoice that stands *)

\* The invoices of job j that are not cancelled.
Standing(j) == {i \in DOMAIN invoices : invoices[i].intake = j /\ ~invoices[i].cancelled}

\* A job without an invoice gets one; no other job gets or loses any.
LEMMA OneInvoiceCreating ==
    InvoicesKnown /\ OneInvoicePerJob /\ CreatesInvoice => OneInvoicePerJob'
<1> SUFFICES ASSUME InvoicesKnown, OneInvoicePerJob,
                    NEW j \in Intakes, invoiceOf[j] = 0,
                    invoices' = Append(invoices, NewInvoice(j)),
                    invoiceOf' = [invoiceOf EXCEPT ![j] = Len(invoices) + 1],
                    NEW k \in Intakes
             PROVE  Standing(k)' = {invoiceOf'[k]} \ {0}
  BY DEF CreatesInvoice, OneInvoicePerJob, Standing
<1> DEFINE n == Len(invoices)
           new == NewInvoice(j)
<1>1. /\ n \in Nat /\ DOMAIN invoices = 1..n /\ DOMAIN invoices' = 1..(n + 1)
      /\ \A i \in 1..n : invoices'[i] = invoices[i]
      /\ invoices'[n + 1] = new
  BY AppendAny DEF InvoicesKnown
<1>2. new.intake = j /\ ~new.cancelled
  BY DEF NewInvoice
<1>3. Standing(k) = {invoiceOf[k]} \ {0} /\ invoiceOf \in [Intakes -> Nat]
  BY DEF OneInvoicePerJob, Standing, InvoicesKnown
<1> HIDE DEF n, new
<1>4. CASE k = j
  <2>1. Standing(k) = {}
    BY <1>3, <1>4
  <2>2. \A i \in 1..n : ~(invoices'[i].intake = k /\ ~invoices'[i].cancelled)
    BY <1>1, <2>1 DEF Standing
  <2>3. Standing(k)' = {n + 1}
    BY <1>1, <1>2, <1>4, <2>2 DEF Standing
  <2> QED
    BY <1>1, <1>3, <1>4, <2>3 DEF n
<1>5. CASE k # j
  <2>1. Standing(k)' = Standing(k)
    BY <1>1, <1>2, <1>5 DEF Standing
  <2> QED
    BY <1>3, <1>5, <2>1
<1> QED
  BY <1>4, <1>5

\* Discounts, credit and payments leave an invoice with its job.
LEMMA OneInvoiceChanging ==
    InvoicesKnown /\ OneInvoicePerJob /\ ChangesInvoice => OneInvoicePerJob'
<1> SUFFICES ASSUME InvoicesKnown, OneInvoicePerJob, UNCHANGED invoiceOf,
                    NEW i, NEW x, invoices' = [invoices EXCEPT ![i] = x],
                    i \in DOMAIN invoices => SameJob(x, invoices[i]),
                    NEW k \in Intakes
             PROVE  Standing(k)' = Standing(k)
  BY DEF ChangesInvoice, OneInvoicePerJob, Standing
<1>1. /\ DOMAIN invoices' = DOMAIN invoices
      /\ \A h \in DOMAIN invoices : invoices'[h] = IF h = i THEN x ELSE invoices[h]
  BY ReplaceAny DEF InvoicesKnown
<1> QED
  BY <1>1 DEF Standing, SameJob

\* The job of the cancelled invoice has none; it was this one that the job named.
LEMMA OneInvoiceCancelling ==
    InvoicesKnown /\ OneInvoicePerJob /\ CancelsInvoice => OneInvoicePerJob'
<1> SUFFICES ASSUME InvoicesKnown, OneInvoicePerJob,
                    NEW i \in DOMAIN invoices, ~invoices[i].cancelled,
                    invoices' = [invoices EXCEPT ![i].cancelled = TRUE],
                    invoiceOf' = JobsWithout(i),
                    NEW k \in Intakes
             PROVE  Standing(k)' = {invoiceOf'[k]} \ {0}
  BY DEF CancelsInvoice, OneInvoicePerJob, Standing
<1> DEFINE x == [invoices[i] EXCEPT !.cancelled = TRUE]
<1>1. /\ DOMAIN invoices' = DOMAIN invoices
      /\ \A h \in DOMAIN invoices : invoices'[h] = IF h = i THEN x ELSE invoices[h]
  <2>1. invoices' = [invoices EXCEPT ![i] = x]
    OBVIOUS
  <2> HIDE DEF x
  <2> QED
    BY <2>1, ReplaceAny DEF InvoicesKnown
<1>2. x.cancelled
  BY DEF InvoicesKnown
<1>3. Standing(k)' = Standing(k) \ {i}
  BY <1>1, <1>2 DEF Standing
<1>4. i \in Standing(k) <=> invoices[i].intake = k
  BY DEF Standing
<1>5. Standing(k) = {invoiceOf[k]} \ {0} /\ i # 0
  BY AppendAny DEF OneInvoicePerJob, Standing, InvoicesKnown
<1>6. invoiceOf'[k] = IF invoiceOf[k] = i THEN 0 ELSE invoiceOf[k]
  BY DEF JobsWithout
<1> QED
  BY <1>3, <1>5, <1>6

\* However jobs are invoiced, cancelled and invoiced again, a job has at most one
\* invoice that stands, and names that one.
THEOREM OneInvoiceCorrect == BillingSpec => []OneInvoicePerJob
<1>1. BillingInit => OneInvoicePerJob
  BY DEF BillingInit, OneInvoicePerJob
<1>2. OneInvoicePerJob /\ UNCHANGED <<invoices, invoiceOf>> => OneInvoicePerJob'
  BY DEF OneInvoicePerJob
<1>3. BillInv /\ OneInvoicePerJob /\ [BillingNext]_bookVars => OneInvoicePerJob'
  BY <1>2, InvoicesStep, OneInvoiceCreating, OneInvoiceChanging, OneInvoiceCancelling
     DEF BillInv
<1> QED
  BY <1>1, <1>3, BillInvariant, PTL DEF BillingSpec, bookVars

-----------------------------------------------------------------------------
(* A retried payment pays once *)

\* The inductive invariant: no request names a payment that is still to come, so
\* the next payment is named by its own request only.
RetryInv ==
    /\ paidBy \in [PaymentRequests -> 0..Len(payments)]
    /\ \A k \in DOMAIN payments :
          \E r \in PaymentRequests : {q \in PaymentRequests : paidBy[q] = k} = {r}

\* The request of a new payment names it, and no other payment.
LEMMA RetryTaking == BillInv /\ RetryInv /\ TakesPayment => RetryInv'
<1> SUFFICES ASSUME BillInv, RetryInv, TakesPayment PROVE RetryInv'
  OBVIOUS
<1> DEFINE n == Len(payments)
<1>1. PICK r \in PaymentRequests, i \in DOMAIN invoices, m \in Amounts :
         /\ paidBy[r] = 0
         /\ paidBy' = [paidBy EXCEPT ![r] = n + 1]
         /\ payments' = Append(payments, [invoice |-> i, amount |-> m,
                                          entry |-> NextNumber, live |-> TRUE])
  BY DEF TakesPayment
<1>2. IsSequence(payments)
  BY Zenon DEF IsSequence, BillInv, EntriesKnown
<1>3. /\ n \in Nat /\ DOMAIN payments = 1..n
      /\ IsSequence(payments') /\ DOMAIN payments' = 1..(n + 1)
  BY <1>1, <1>2, AppendAny
<1>4. Len(payments') \in Nat /\ DOMAIN payments' = 1..Len(payments')
  BY <1>3, AppendAny
<1>5. Len(payments') = n + 1
  BY <1>3, <1>4
<1> HIDE DEF n
<1>6. paidBy \in [PaymentRequests -> 0..n]
  BY DEF RetryInv, n
<1>7. paidBy' \in [PaymentRequests -> 0..(n + 1)]
  BY <1>1, <1>3, <1>6
<1>8. {q \in PaymentRequests : paidBy'[q] = n + 1} = {r}
  BY <1>1, <1>3, <1>6
<1>9. ASSUME NEW k \in 1..n
      PROVE  {q \in PaymentRequests : paidBy'[q] = k} = {q \in PaymentRequests : paidBy[q] = k}
  BY <1>1, <1>3, <1>6
<1>10. ASSUME NEW k \in DOMAIN payments'
       PROVE  \E s \in PaymentRequests : {q \in PaymentRequests : paidBy'[q] = k} = {s}
  <2>1. CASE k = n + 1
    BY <1>8, <2>1
  <2>2. CASE k # n + 1
    <3>1. k \in 1..n
      BY <1>3, <2>2
    <3> QED
      BY <1>3, <1>9, <3>1 DEF RetryInv
  <2> QED
    BY <2>1, <2>2
<1> QED
  BY <1>5, <1>7, <1>10 DEF RetryInv

\* Reversing a payment leaves its request served.
LEMMA RetryUndoing == BillInv /\ RetryInv /\ UndoesPayment => RetryInv'
<1> SUFFICES ASSUME BillInv, RetryInv, UndoesPayment PROVE RetryInv'
  OBVIOUS
<1>1. PICK k \in DOMAIN payments : payments' = [payments EXCEPT ![k].live = FALSE]
  BY DEF UndoesPayment
<1>2. paidBy' = paidBy
  BY DEF UndoesPayment
<1>3. IsSequence(payments)
  BY Zenon DEF IsSequence, BillInv, EntriesKnown
<1>4. IsSequence(payments') /\ DOMAIN payments' = DOMAIN payments
  <2>1. payments' = [payments EXCEPT ![k] = [payments[k] EXCEPT !.live = FALSE]]
    BY <1>1
  <2> QED
    BY <1>3, <2>1, ReplaceAny
<1>5. Len(payments') = Len(payments)
  <2>1. /\ Len(payments) \in Nat /\ DOMAIN payments = 1..Len(payments)
        /\ Len(payments') \in Nat /\ DOMAIN payments' = 1..Len(payments')
    BY <1>3, <1>4, AppendAny
  <2> QED
    BY <1>4, <2>1
<1> QED
  BY <1>2, <1>4, <1>5 DEF RetryInv

LEMMA RetryInvariant == BillingSpec => []RetryInv
<1>1. BillingInit => RetryInv
  BY DEF BillingInit, RetryInv
<1>2. RetryInv /\ UNCHANGED <<payments, paidBy>> => RetryInv'
  BY DEF RetryInv
<1>3. BillInv /\ RetryInv /\ [BillingNext]_bookVars => RetryInv'
  BY <1>2, PaymentsStep, RetryTaking, RetryUndoing
<1> QED
  BY <1>1, <1>3, BillInvariant, PTL DEF BillingSpec, bookVars

\* However often a client repeats a payment it got no answer to, and whatever is
\* paid and reversed meanwhile: each payment is the stored result of one request.
THEOREM RetriesCorrect == BillingSpec => []RetriesPayOnce
<1>1. RetryInv => RetriesPayOnce
  BY FS_Singleton DEF RetryInv, RetriesPayOnce
<1> QED
  BY <1>1, RetryInvariant, PTL

-----------------------------------------------------------------------------
(* A payment and its ledger entry stand and fall together *)

\* A payment and the entry posted with it are both new, so they match each other
\* and disturb no other pair.
LEMMA MatchTaking == BillInv /\ PaymentsMatchLedger /\ TakesPayment => PaymentsMatchLedger'
<1> SUFFICES ASSUME BillInv, PaymentsMatchLedger, TakesPayment PROVE PaymentsMatchLedger'
  OBVIOUS
<1> DEFINE n == Len(ledger)
           m == Len(payments)
<1>1. PICK i \in DOMAIN invoices, u \in Amounts, a \in AccountIds :
         /\ Post(NewEntry("customer_payment", u, None, a))
         /\ payments' = Append(payments, [invoice |-> i, amount |-> u,
                                          entry |-> NextNumber, live |-> TRUE])
  BY DEF TakesPayment
<1> DEFINE e == NewEntry("customer_payment", u, None, a)
           p == [invoice |-> i, amount |-> u, entry |-> NextNumber, live |-> TRUE]
<1>2. /\ FinanceTypeOK /\ ledger \in Seq(Entry)
      /\ n \in Nat /\ DOMAIN ledger = 1..n
  BY LenProperties DEF BillInv, MoneyInv, FinanceTypeOK
<1>3. e \in Entry
  BY NewEntryType, BoundAssumption DEF PostingTypes
<1>4. e.type = "customer_payment" /\ e.amount = u /\ e.posted
  BY DEF NewEntry
<1>5. p.entry = n + 1 /\ p.amount = u /\ p.live
  BY DEF NextNumber
<1>6. /\ DOMAIN ledger' = 1..(n + 1)
      /\ \A h \in 1..n : ledger'[h] = ledger[h]
      /\ ledger'[n + 1] = [e EXCEPT !.day = day]
  BY <1>1, <1>2, <1>3, LedgerAfterCommit, LenProperties DEF Post
<1>7. /\ m \in Nat /\ DOMAIN payments = 1..m /\ DOMAIN payments' = 1..(m + 1)
      /\ \A k \in 1..m : payments'[k] = payments[k]
      /\ payments'[m + 1] = p
  <2>1. IsSequence(payments)
    BY Zenon DEF IsSequence, BillInv, EntriesKnown
  <2> QED
    BY <1>1, <2>1, AppendAny
<1> HIDE DEF n, m, e, p
<1>8. /\ ledger'[n + 1].type = "customer_payment" /\ ledger'[n + 1].amount = u
      /\ ledger'[n + 1].posted
  BY <1>3, <1>4, <1>6, Dated
<1>9. ASSUME NEW k \in 1..m
      PROVE  /\ payments[k].entry \in 1..n
             /\ ledger[payments[k].entry].type = "customer_payment"
             /\ ledger[payments[k].entry].amount = payments[k].amount
             /\ ledger[payments[k].entry].posted <=> payments[k].live
  BY <1>2, <1>7 DEF PaymentsMatchLedger, EntryNumbers
<1>10. ASSUME NEW k \in 1..(m + 1)
       PROVE  /\ payments'[k].entry \in 1..(n + 1)
              /\ ledger'[payments'[k].entry].type = "customer_payment"
              /\ ledger'[payments'[k].entry].amount = payments'[k].amount
              /\ ledger'[payments'[k].entry].posted <=> payments'[k].live
  <2>1. CASE k = m + 1
    BY <1>2, <1>5, <1>7, <1>8, <2>1
  <2>2. CASE k # m + 1
    <3>1. k \in 1..m /\ payments'[k] = payments[k]
      BY <1>7, <2>2
    <3>2. ledger'[payments[k].entry] = ledger[payments[k].entry]
      BY <1>6, <1>9, <3>1
    <3> QED
      BY <1>2, <1>9, <3>1, <3>2
  <2> QED
    BY <2>1, <2>2
<1>11. ASSUME NEW k \in 1..(m + 1), NEW l \in 1..(m + 1), payments'[k].entry = payments'[l].entry
       PROVE  k = l
  <2>1. \A h \in 1..m : payments'[h].entry \in 1..n
    BY <1>7, <1>9
  <2>2. payments'[m + 1].entry \notin 1..n
    BY <1>2, <1>5, <1>7
  <2>3. CASE k \in 1..m /\ l \in 1..m
    BY <1>7, <1>11, <2>3 DEF PaymentsMatchLedger
  <2> QED
    BY <1>7, <1>11, <2>1, <2>2, <2>3
<1> QED
  BY <1>6, <1>7, <1>10, <1>11 DEF PaymentsMatchLedger, EntryNumbers

\* The reversal marks the entry of this payment, which is no other payment's.
LEMMA MatchUndoing == BillInv /\ PaymentsMatchLedger /\ UndoesPayment => PaymentsMatchLedger'
<1> SUFFICES ASSUME BillInv, PaymentsMatchLedger, UndoesPayment PROVE PaymentsMatchLedger'
  OBVIOUS
<1> DEFINE n == Len(ledger)
<1>1. PICK k \in DOMAIN payments :
         /\ ReverseCustomerPayment(payments[k].entry)
         /\ payments' = [payments EXCEPT ![k].live = FALSE]
  BY DEF UndoesPayment
<1> DEFINE i == payments[k].entry
           entries == [ledger EXCEPT ![i] = MarkReversed(@, NextNumber)]
           p == [payments[k] EXCEPT !.live = FALSE]
<1>2. /\ FinanceTypeOK /\ ledger \in Seq(Entry)
      /\ n \in Nat /\ DOMAIN ledger = 1..n
  BY LenProperties DEF BillInv, MoneyInv, FinanceTypeOK
<1>3. i \in 1..n /\ ledger[i] \in Entry
  BY <1>2 DEF PaymentsMatchLedger, EntryNumbers
<1>4. CanReverse(ledger[i]) /\ Commit(accounts, entries, MirrorOf(ledger[i], i))
  BY <1>1 DEF ReverseCustomerPayment, PostReversal
<1>5. MirrorOf(ledger[i], i) \in Entry
  BY <1>3, <1>4, MirrorType
<1>6. /\ entries \in Seq(Entry) /\ Len(entries) = n
      /\ entries[i] = MarkReversed(ledger[i], n + 1)
      /\ \A h \in 1..n : h # i => entries[h] = ledger[h]
  BY <1>2, <1>3, EntriesMarked DEF NextNumber
<1>7. payments \in Seq(Payment) /\ payments[k] \in Payment
  BY ElementOfSeq DEF BillInv, EntriesKnown
<1>8. p.entry = i /\ p.amount = payments[k].amount /\ ~p.live
  <2>1. \A x \in Payment : /\ [x EXCEPT !.live = FALSE].entry = x.entry
                           /\ [x EXCEPT !.live = FALSE].amount = x.amount
                           /\ ~[x EXCEPT !.live = FALSE].live
    BY DEF Payment
  <2> QED
    BY <1>7, <2>1
<1>9. /\ DOMAIN payments' = DOMAIN payments
      /\ \A l \in DOMAIN payments : payments'[l] = IF l = k THEN p ELSE payments[l]
  <2>1. payments' = [payments EXCEPT ![k] = p]
    BY <1>1
  <2>2. IsSequence(payments)
    BY <1>7, Zenon DEF IsSequence
  <2> HIDE DEF p
  <2> QED
    BY <2>1, <2>2, ReplaceAny
<1> HIDE DEF entries, p, n
<1>10. /\ DOMAIN ledger' = 1..(n + 1)
       /\ \A h \in 1..n : ledger'[h] = entries[h]
  BY <1>2, <1>4, <1>5, <1>6, LedgerAfterCommit, LenProperties
<1>11. /\ ledger'[i].type = ledger[i].type /\ ledger'[i].amount = ledger[i].amount
       /\ ~ledger'[i].posted
  <2> DEFINE x == MarkReversed(ledger[i], n + 1)
  <2>1. x.type = ledger[i].type /\ x.amount = ledger[i].amount /\ ~x.posted
    BY <1>2, <1>3, Marked
  <2>2. ledger'[i] = x
    BY <1>3, <1>6, <1>10
  <2> HIDE DEF x
  <2> QED
    BY <2>1, <2>2
<1>12. ASSUME NEW l \in DOMAIN payments
       PROVE  /\ payments[l].entry \in 1..n
              /\ ledger[payments[l].entry].type = "customer_payment"
              /\ ledger[payments[l].entry].amount = payments[l].amount
              /\ ledger[payments[l].entry].posted <=> payments[l].live
              /\ l # k => payments[l].entry # i
  BY <1>2 DEF PaymentsMatchLedger, EntryNumbers
<1>13. ASSUME NEW l \in DOMAIN payments
       PROVE  /\ payments'[l].entry = payments[l].entry
              /\ payments'[l].entry \in 1..(n + 1)
              /\ ledger'[payments'[l].entry].type = "customer_payment"
              /\ ledger'[payments'[l].entry].amount = payments'[l].amount
              /\ ledger'[payments'[l].entry].posted <=> payments'[l].live
  <2>1. CASE l = k
    BY <1>2, <1>3, <1>8, <1>9, <1>11, <1>12, <2>1
  <2>2. CASE l # k
    <3>1. payments'[l] = payments[l]
      BY <1>9, <2>2
    <3>2. ledger'[payments[l].entry] = ledger[payments[l].entry]
      BY <1>6, <1>10, <1>12, <2>2
    <3> QED
      BY <1>2, <1>12, <3>1, <3>2
  <2> QED
    BY <2>1, <2>2
<1>14. \A l, h \in DOMAIN payments : payments[l].entry = payments[h].entry => l = h
  BY DEF PaymentsMatchLedger
<1> QED
  BY <1>9, <1>10, <1>13, <1>14 DEF PaymentsMatchLedger, EntryNumbers

\* Taking cash to the bank adds an entry that is no payment's.
LEMMA MatchMoving ==
    BillInv /\ PaymentsMatchLedger /\ Movements /\ UNCHANGED payments => PaymentsMatchLedger'
<1> SUFFICES ASSUME BillInv, PaymentsMatchLedger, Movements, UNCHANGED payments
             PROVE  PaymentsMatchLedger'
  OBVIOUS
<1>1. FinanceTypeOK /\ PostsEntry
  BY ShapeMovements DEF BillInv, MoneyInv
<1>2. /\ DOMAIN ledger = 1..Len(ledger) /\ Len(ledger) \in Nat
      /\ DOMAIN ledger' = 1..(Len(ledger) + 1)
      /\ \A h \in 1..Len(ledger) : ledger'[h] = ledger[h]
  BY <1>1, LedgerAfterPosting, LenProperties DEF FinanceTypeOK
<1> QED
  BY <1>2 DEF PaymentsMatchLedger, EntryNumbers

\* Whatever is paid, banked and reversed in between, a payment stands exactly
\* while its own ledger entry does, and reversing it undoes its own money only.
THEOREM PaymentsMatchLedgerCorrect == BillingSpec => []PaymentsMatchLedger
<1>1. BillingInit => PaymentsMatchLedger
  BY DEF BillingInit, PaymentsMatchLedger
<1>2. PaymentsMatchLedger /\ UNCHANGED <<financeVars, payments>> => PaymentsMatchLedger'
  BY DEF PaymentsMatchLedger, EntryNumbers, financeVars
<1>3. BillInv /\ PaymentsMatchLedger /\ [BillingNext]_bookVars => PaymentsMatchLedger'
  BY <1>2, PaymentsStep, MatchTaking, MatchUndoing, MatchMoving
<1> QED
  BY <1>1, <1>3, BillInvariant, PTL DEF BillingSpec, bookVars

-----------------------------------------------------------------------------
(* Rewards as a balance changes *)

\* v has at most one reward to use, has one from the threshold on, and can pay for
\* the one it has.
FollowsAt(rewards, v, balance) ==
    /\ \A w, x \in Available(rewards, v) : w = x
    /\ balance >= RewardThreshold => Available(rewards, v) # {}
    /\ \A w \in Available(rewards, v) : balance >= rewards[w].cost

\* At the threshold the first reward of v is unlocked.
Unlocks(before, after, v, balance) ==
    /\ Available(before, v) = {} /\ balance >= RewardThreshold
    /\ Len(after) = Len(before) + 1
    /\ \A w \in 1..Len(before) : after[w] = before[w]
    /\ after[Len(before) + 1] = NewReward(v)

\* Otherwise those of v the balance does not cover any more are revoked.
Revokes(before, after, v, balance) ==
    /\ ~(Available(before, v) = {} /\ balance >= RewardThreshold)
    /\ Len(after) = Len(before)
    /\ \A w \in 1..Len(before) :
          after[w] = IF w \in Available(before, v) /\ balance < before[w].cost
                     THEN [before[w] EXCEPT !.status = "revoked"] ELSE before[w]

\* What Reward says of each of a sequence of rewards.
LEMMA RewardFields ==
    ASSUME NEW rewards \in Seq(Reward)
    PROVE  /\ Len(rewards) \in Nat /\ DOMAIN rewards = 1..Len(rewards)
           /\ \A w \in 1..Len(rewards) : rewards[w] \in Reward /\ rewards[w].cost \in Nat
           /\ \A v : \A w : w \in Available(rewards, v) <=>
                 /\ w \in 1..Len(rewards)
                 /\ rewards[w].vehicle = v /\ rewards[w].status = "available"
<1>1. /\ Len(rewards) \in Nat /\ DOMAIN rewards = 1..Len(rewards)
      /\ \A w \in 1..Len(rewards) : rewards[w] \in Reward
  BY LenProperties
<1>2. \A w \in 1..Len(rewards) : rewards[w].cost \in Nat
  BY <1>1 DEF Reward
<1> QED
  BY <1>1, <1>2 DEF Available

LEMMA RewardsAtShape ==
    ASSUME NEW rewards \in Seq(Reward), NEW v \in Vehicles, NEW balance \in Nat
    PROVE  LET after == RewardsAt(rewards, v, balance)
           IN  /\ after \in Seq(Reward)
               /\ Unlocks(rewards, after, v, balance) \/ Revokes(rewards, after, v, balance)
<1> DEFINE open == Available(rewards, v)
           after == RewardsAt(rewards, v, balance)
<1>1. CASE open = {} /\ balance >= RewardThreshold
  <2>1. after = Append(rewards, NewReward(v))
    BY <1>1 DEF RewardsAt
  <2>2. NewReward(v) \in Reward
    BY LoyaltyConfig DEF NewReward, Reward
  <2> QED
    BY <1>1, <2>1, <2>2, AppendProperties DEF Unlocks
<1>2. CASE ~(open = {} /\ balance >= RewardThreshold)
  <2> DEFINE new(w) == IF w \in open /\ balance < rewards[w].cost
                       THEN [rewards[w] EXCEPT !.status = "revoked"] ELSE rewards[w]
  <2>1. after = [w \in 1..Len(rewards) |-> new(w)]
    BY <1>2, RewardFields DEF RewardsAt
  <2>2. \A w \in 1..Len(rewards) : new(w) \in Reward
    <3>1. \A r \in Reward : [r EXCEPT !.status = "revoked"] \in Reward
      BY DEF Reward
    <3> QED
      BY <3>1, RewardFields
  <2>3. after \in [1..Len(rewards) -> Reward] /\ Len(rewards) \in Nat
    BY <2>1, <2>2, RewardFields
  <2>4. after \in Seq(Reward) /\ Len(after) = Len(rewards)
    BY <2>3, SeqDef, LenProperties
  <2>5. \A w \in 1..Len(rewards) : after[w] = new(w)
    BY <2>1
  <2> QED
    BY <1>2, <2>4, <2>5 DEF Revokes
<1> QED
  BY <1>1, <1>2

\* After that, the rewards of v follow its points, if a reward costs no more than
\* the threshold that unlocks it.
LEMMA RewardsAtFollow ==
    ASSUME NEW rewards \in Seq(Reward), NEW v \in Vehicles, NEW balance \in Nat,
           RewardCost <= RewardThreshold, \A w, x \in Available(rewards, v) : w = x,
           \A w \in 1..Len(rewards) : rewards[w].cost = RewardCost
    PROVE  FollowsAt(RewardsAt(rewards, v, balance), v, balance)
<1> DEFINE after == RewardsAt(rewards, v, balance)
<1>1. /\ after \in Seq(Reward)
      /\ Unlocks(rewards, after, v, balance) \/ Revokes(rewards, after, v, balance)
  BY RewardsAtShape
<1>2. RewardCost \in Nat /\ RewardThreshold \in Nat
  BY LoyaltyConfig
<1> HIDE DEF after
<1>3. CASE Unlocks(rewards, after, v, balance)
  <2>1. /\ NewReward(v).vehicle = v /\ NewReward(v).status = "available"
        /\ NewReward(v).cost = RewardCost
    BY DEF NewReward
  <2> DEFINE n == Len(rewards) + 1
  <2>2. /\ Len(rewards) \in Nat /\ DOMAIN after = 1..n /\ after[n] = NewReward(v)
        /\ \A w \in 1..Len(rewards) : after[w] = rewards[w]
        /\ balance >= RewardThreshold
    BY <1>1, <1>3, RewardFields DEF Unlocks
  <2>3. \A w \in 1..Len(rewards) : ~(rewards[w].vehicle = v /\ rewards[w].status = "available")
    BY <1>3, RewardFields DEF Unlocks
  <2>4. n \in Available(after, v)
    BY <2>1, <2>2 DEF Available
  <2>5. \A w \in Available(after, v) : w = n
    <3> SUFFICES ASSUME NEW w \in 1..n, after[w].vehicle = v, after[w].status = "available"
                 PROVE  w = n
      BY <2>2 DEF Available
    <3> QED
      BY <2>2, <2>3
  <2>6. after[n].cost <= balance
    BY <1>2, <2>1, <2>2
  <2> HIDE DEF n
  <2> QED
    BY <2>4, <2>5, <2>6 DEF FollowsAt, after
<1>4. CASE Revokes(rewards, after, v, balance)
  <2> DEFINE gone(w) == w \in Available(rewards, v) /\ balance < rewards[w].cost
  <2>1. \A w \in 1..Len(rewards) :
            /\ gone(w) => after[w].status = "revoked"
            /\ ~gone(w) => after[w] = rewards[w]
    <3> SUFFICES ASSUME NEW w \in 1..Len(rewards)
                 PROVE  /\ gone(w) => after[w].status = "revoked"
                        /\ ~gone(w) => after[w] = rewards[w]
      OBVIOUS
    <3>1. after[w] = IF gone(w) THEN [rewards[w] EXCEPT !.status = "revoked"] ELSE rewards[w]
      BY <1>4 DEF Revokes
    <3>2. [rewards[w] EXCEPT !.status = "revoked"].status = "revoked"
      BY RewardFields DEF Reward
    <3> HIDE DEF gone
    <3> QED
      BY <3>1, <3>2
  <2>2. DOMAIN after = 1..Len(rewards)
    BY <1>1, <1>4, RewardFields DEF Revokes
  <2>3. \A w \in Available(after, v) : /\ w \in 1..Len(rewards) /\ after[w] = rewards[w]
                                       /\ w \in Available(rewards, v)
                                       /\ balance >= rewards[w].cost
    <3> SUFFICES ASSUME NEW w \in Available(after, v)
                 PROVE  /\ w \in 1..Len(rewards) /\ after[w] = rewards[w]
                        /\ w \in Available(rewards, v)
                        /\ balance >= rewards[w].cost
      OBVIOUS
    <3>1. w \in 1..Len(rewards) /\ after[w].vehicle = v /\ after[w].status = "available"
      BY <2>2 DEF Available
    <3>2. ~gone(w) /\ after[w] = rewards[w]
      BY <2>1, <3>1
    <3>3. w \in Available(rewards, v)
      BY <3>1, <3>2, RewardFields
    <3> QED
      BY <3>1, <3>2, <3>3, RewardFields
  <2>4. balance >= RewardThreshold => Available(after, v) # {}
    <3> SUFFICES ASSUME balance >= RewardThreshold PROVE Available(after, v) # {}
      OBVIOUS
    <3>1. PICK w : w \in Available(rewards, v)
      BY <1>4 DEF Revokes
    <3>2. /\ w \in 1..Len(rewards) /\ rewards[w].cost = RewardCost
          /\ rewards[w].vehicle = v /\ rewards[w].status = "available"
      BY <3>1, RewardFields
    <3>3. after[w] = rewards[w]
      BY <1>2, <2>1, <3>2
    <3> QED
      BY <2>2, <3>2, <3>3 DEF Available
  <2> QED
    BY <2>3, <2>4 DEF FollowsAt, after
<1> QED
  BY <1>1, <1>3, <1>4

-----------------------------------------------------------------------------
(* One entry in the log of points *)

LogTypes == {"earned", "redeemed", "adjustment", "reversal"}
LogLine(v, type, p, o) == [vehicle |-> v, type |-> type, points |-> p, of |-> o]

\* What LoyaltyState says of each part.
LEMMA LoyaltyFields ==
    ASSUME NEW l \in LoyaltyState
    PROVE  /\ l.points \in [Vehicles -> Nat]
           /\ l.log \in Seq(LoyaltyEntry) /\ Len(l.log) \in Nat
           /\ DOMAIN l.log = 1..Len(l.log)
           /\ \A e \in 1..Len(l.log) : l.log[e] \in LoyaltyEntry
           /\ l.rewards \in Seq(Reward)
           /\ l.undone \in SUBSET Nat
BY LenProperties DEF LoyaltyState

\* Applied writes one entry and moves the balance by its points.
LEMMA AppliedShape ==
    ASSUME NEW l \in LoyaltyState, NEW v \in Vehicles, NEW type \in LogTypes,
           NEW p \in Int \ {0}, NEW o \in Nat, l.points[v] + p >= 0
    PROVE  LET m == Applied(l, v, type, p, o)
           IN  /\ m \in LoyaltyState
               /\ m.log = Append(l.log, LogLine(v, type, p, o))
               /\ m.points = [l.points EXCEPT ![v] = l.points[v] + p]
               /\ m.undone = l.undone
               /\ m.rewards = RewardsAt(l.rewards, v, l.points[v] + p)
<1> DEFINE balance == l.points[v] + p
           line == LogLine(v, type, p, o)
           rewards == RewardsAt(l.rewards, v, balance)
           m == Applied(l, v, type, p, o)
<1>1. balance \in Nat
  BY LoyaltyFields
<1>2. line \in LoyaltyEntry
  BY DEF LogLine, LoyaltyEntry, LogTypes
<1>3. rewards \in Seq(Reward)
  BY <1>1, LoyaltyFields, RewardsAtShape
<1>4. Append(l.log, line) \in Seq(LoyaltyEntry)
  BY <1>2, LoyaltyFields, AppendProperties
<1>5. [l.points EXCEPT ![v] = balance] \in [Vehicles -> Nat]
  BY <1>1, LoyaltyFields
<1>6. m = [l EXCEPT !.points = [l.points EXCEPT ![v] = balance],
                    !.log = Append(l.log, line), !.rewards = rewards]
  BY DEF Applied, LogLine
<1> HIDE DEF balance, line, rewards, m
<1>7. /\ m \in LoyaltyState
      /\ m.log = Append(l.log, line) /\ m.points = [l.points EXCEPT ![v] = balance]
      /\ m.undone = l.undone /\ m.rewards = rewards
  BY <1>3, <1>4, <1>5, <1>6 DEF LoyaltyState
<1> QED
  BY <1>7 DEF balance, line, rewards, m

\* m is l with one line for v more, of the kind and points given, undoing entry o if
\* o is one; the rewards follow the new balance.
Logs(l, m, v, type, p, o) ==
    /\ l.points[v] + p >= 0
    /\ m.log = Append(l.log, LogLine(v, type, p, o))
    /\ m.points = [l.points EXCEPT ![v] = l.points[v] + p]
    /\ m.undone = IF o = 0 THEN l.undone ELSE l.undone \cup {o}
    /\ o # 0 => o \in 1..Len(l.log) /\ o \notin l.undone /\ l.log[o].vehicle = v

\* Undoing entry o with p points.
LEMMA UndoingShape ==
    ASSUME NEW l \in LoyaltyState, NEW o \in 1..Len(l.log), o \notin l.undone,
           NEW p \in Int \ {0}, l.points[l.log[o].vehicle] + p >= 0
    PROVE  LET v == l.log[o].vehicle
               m == [Applied(l, v, "reversal", p, o) EXCEPT !.undone = @ \cup {o}]
           IN  /\ m \in LoyaltyState
               /\ Logs(l, m, v, "reversal", p, o)
               /\ m.rewards = RewardsAt(l.rewards, v, l.points[v] + p)
<1> DEFINE v == l.log[o].vehicle
           a == Applied(l, v, "reversal", p, o)
           m == [a EXCEPT !.undone = @ \cup {o}]
<1>1. v \in Vehicles /\ o \in Nat /\ o # 0
  BY LoyaltyFields DEF LoyaltyEntry
<1>2. /\ a \in LoyaltyState
      /\ a.log = Append(l.log, LogLine(v, "reversal", p, o))
      /\ a.points = [l.points EXCEPT ![v] = l.points[v] + p]
      /\ a.undone = l.undone
      /\ a.rewards = RewardsAt(l.rewards, v, l.points[v] + p)
  BY <1>1, AppliedShape DEF LogTypes
<1> HIDE DEF a
<1>3. /\ m \in LoyaltyState
      /\ m.log = a.log /\ m.points = a.points /\ m.rewards = a.rewards
      /\ m.undone = l.undone \cup {o}
  BY <1>1, <1>2 DEF LoyaltyState
<1> HIDE DEF v, m
<1>4. Logs(l, m, v, "reversal", p, o)
  BY <1>1, <1>2, <1>3 DEF Logs, v
<1> QED
  BY <1>2, <1>3, <1>4 DEF v, m, a

\* Taking earned points back: nothing when that was done before, a note that it was
\* done when no point is left, else as many points as there are.
LEMMA TakenBackShape ==
    ASSUME NEW l \in LoyaltyState, NEW e \in 1..Len(l.log), l.log[e].points > 0
    PROVE  LET v == l.log[e].vehicle
               m == TakenBack(l, e)
           IN  \/ m = l
               \/ e \notin l.undone /\ m = [l EXCEPT !.undone = @ \cup {e}]
               \/ \E p \in Int \ {0} :
                     /\ e \notin l.undone /\ l.points[v] + p >= 0
                     /\ m = [Applied(l, v, "reversal", p, e) EXCEPT !.undone = @ \cup {e}]
<1> DEFINE v == l.log[e].vehicle
           points == IF l.points[v] < l.log[e].points THEN l.points[v] ELSE l.log[e].points
           m == TakenBack(l, e)
<1>1. l.log[e].points \in Int /\ l.points[v] \in Nat
  BY LoyaltyFields DEF LoyaltyEntry
<1>2. points \in Nat /\ l.points[v] + (-points) >= 0
  BY <1>1
<1>3. CASE e \in l.undone
  BY <1>3 DEF TakenBack
<1>4. CASE e \notin l.undone /\ points = 0
  BY <1>4 DEF TakenBack
<1>5. CASE e \notin l.undone /\ points # 0
  <2>1. m = [Applied(l, v, "reversal", -points, e) EXCEPT !.undone = @ \cup {e}]
    BY <1>5 DEF TakenBack
  <2>2. -points \in Int \ {0}
    BY <1>2, <1>5
  <2> HIDE DEF points, m, v
  <2> QED
    BY <1>2, <1>5, <2>1, <2>2 DEF m, v
<1> QED
  BY <1>3, <1>4, <1>5

-----------------------------------------------------------------------------
(* The documents, and the nine things a step may do to them *)

\* An invoice, before it is known that what was paid is never negative.
InvoiceShape == [intake: Intakes, discount: Nat, source: {"none", "manual", "loyalty_reward"},
                 paid: Int, cancelled: BOOLEAN, onCredit: BOOLEAN,
                 earned: BOOLEAN, earnEntry: Nat, reward: Nat, redeemEntry: Nat]

BooksTyped ==
    /\ invoices \in Seq(InvoiceShape)
    /\ payments \in Seq(Payment)
    /\ \A k \in DOMAIN payments : payments[k].invoice \in 1..Len(invoices)
    /\ loyalty \in LoyaltyState

PutInvoice(i, x) == invoices' = [invoices EXCEPT ![i] = x]

Adds ==
    /\ \E j \in Intakes : invoices' = Append(invoices, NewInvoice(j))
    /\ UNCHANGED <<payments, loyalty>>

\* x is inv with another discount or on credit: its points, its reward and what was
\* paid are the same, and its discount too if anything was paid.
Alters(inv, x) ==
    /\ x \in InvoiceShape
    /\ x.intake = inv.intake /\ x.cancelled = inv.cancelled
    /\ x.earned = inv.earned /\ x.earnEntry = inv.earnEntry
    /\ x.reward = inv.reward /\ x.redeemEntry = inv.redeemEntry
    /\ x.source = "loyalty_reward" <=> inv.source = "loyalty_reward"
    /\ x.paid = inv.paid
    /\ x.discount = inv.discount \/ (inv.paid = 0 /\ x.discount <= SubtotalOf(inv))
Edits ==
    /\ \E i \in 1..Len(invoices), x \in InvoiceShape :
          ~invoices[i].cancelled /\ Alters(invoices[i], x) /\ PutInvoice(i, x)
    /\ UNCHANGED <<payments, loyalty>>

AfterPaying(inv, n, earns, e) ==
    [inv EXCEPT !.paid = inv.paid + n, !.earned = inv.earned \/ earns,
                !.earnEntry = IF earns THEN e ELSE inv.earnEntry]
Pays ==
    \E i \in 1..Len(invoices), n \in Amount, e \in Nat :
        LET inv == invoices[i]
            earns == Earns(inv, n)
        IN  /\ Collectable(inv, n)
            /\ PutInvoice(i, AfterPaying(inv, n, earns, Len(loyalty.log) + 1))
            /\ payments' = Append(payments, [invoice |-> i, amount |-> n, entry |-> e,
                                             live |-> TRUE])
            /\ loyalty' = IF earns THEN Applied(loyalty, Vehicle(inv), "earned", PointsFor(inv), 0)
                          ELSE loyalty
Unpays ==
    \E k \in 1..Len(payments) :
        LET p == payments[k]
            inv == invoices[p.invoice]
        IN  /\ p.live
            /\ PutInvoice(p.invoice, WithoutPayment(inv, p.amount))
            /\ payments' = [payments EXCEPT ![k].live = FALSE]
            /\ loyalty' = LoyaltyWithout(inv)

WithReward(inv, amount, w, e) ==
    [inv EXCEPT !.discount = amount, !.source = "loyalty_reward", !.reward = w,
                !.redeemEntry = e]
Spends ==
    /\ \E i \in 1..Len(invoices), w \in 1..Len(loyalty.rewards) :
          LET inv == invoices[i]
              amount == PercentOf(SubtotalOf(inv), RewardPercent)
          IN  /\ Discountable(inv)
              /\ w \in Available(loyalty.rewards, Vehicle(inv))
              /\ loyalty.points[Vehicle(inv)] >= loyalty.rewards[w].cost
              /\ PutInvoice(i, WithReward(inv, amount, w, Len(loyalty.log) + 1))
              /\ loyalty' = Redeemed(loyalty, w, i)
    /\ UNCHANGED payments

Cancelled(inv) == [inv EXCEPT !.cancelled = TRUE]
Voids ==
    /\ \E i \in 1..Len(invoices) :
          /\ Cancellable(invoices[i])
          /\ PutInvoice(i, Cancelled(invoices[i]))
          /\ loyalty' = LoyaltyCancelling(invoices[i])
    /\ UNCHANGED payments

Corrects ==
    /\ \E v \in Vehicles, p \in Int \ {0} :
          /\ loyalty.points[v] + p >= 0
          /\ loyalty' = Applied(loyalty, v, "adjustment", p, 0)
    /\ UNCHANGED <<invoices, payments>>
Undoes ==
    /\ \E e \in 1..Len(loyalty.log) :
          /\ ReversibleByHand(e)
          /\ loyalty.points[loyalty.log[e].vehicle] + (-loyalty.log[e].points) >= 0
          /\ loyalty' = Undone(loyalty, e)
    /\ UNCHANGED <<invoices, payments>>
Rests == UNCHANGED <<invoices, payments, loyalty>>

\* What BooksTyped says of each document.
LEMMA Books ==
    ASSUME BooksTyped
    PROVE  /\ Len(invoices) \in Nat /\ DOMAIN invoices = 1..Len(invoices)
           /\ Len(payments) \in Nat /\ DOMAIN payments = 1..Len(payments)
           /\ \A i \in 1..Len(invoices) : invoices[i] \in InvoiceShape
           /\ \A k \in 1..Len(payments) : payments[k] \in Payment
           /\ loyalty \in LoyaltyState
BY LenProperties DEF BooksTyped

\* Half up never exceeds the amount, as the percentage is at most 100.
LEMMA PercentBounds ==
    ASSUME NEW a \in Nat
    PROVE  PercentOf(a, RewardPercent) \in Nat /\ PercentOf(a, RewardPercent) <= a
<1>1. RewardPercent \in 1..100
  BY LoyaltyConfig
<1>2. a * RewardPercent \in Nat /\ a * RewardPercent <= a * 100
  BY <1>1, SMT
<1> DEFINE b == a * RewardPercent
<1>3. b \in Nat /\ b <= a * 100
  BY <1>2
<1> HIDE DEF b
<1>4. (b + 50) \div 100 \in Nat /\ (b + 50) \div 100 <= a
  BY <1>3, SMT
<1> QED
  BY <1>4 DEF PercentOf, b

LEMMA EditsStep ==
    ASSUME BooksTyped, NEW i \in 1..Len(invoices),
           \/ \E amount \in Discounts : ApplyInvoiceDiscount(i, amount)
           \/ MarkInvoiceCredit(i)
    PROVE  Edits
<1>1. invoices[i] \in InvoiceShape
  BY Books
<1>2. ASSUME NEW amount \in Discounts, ApplyInvoiceDiscount(i, amount)
      PROVE  Edits
  <2> DEFINE x == [invoices[i] EXCEPT !.discount = amount, !.source = "manual"]
  <2>1. amount \in Nat
    BY BillingAssumption
  <2>2. x \in InvoiceShape
    BY <1>1, <2>1 DEF InvoiceShape
  <2>3. ~invoices[i].cancelled /\ Alters(invoices[i], x)
    BY <1>1, <1>2, <2>2 DEF Alters, ApplyInvoiceDiscount, Discountable, InvoiceShape
  <2>4. PutInvoice(i, x) /\ UNCHANGED <<payments, loyalty>>
    BY <1>2 DEF ApplyInvoiceDiscount, PutInvoice
  <2> HIDE DEF x
  <2> QED
    BY <2>2, <2>3, <2>4 DEF Edits
<1>3. CASE MarkInvoiceCredit(i)
  <2> DEFINE x == [invoices[i] EXCEPT !.onCredit = TRUE]
  <2>1. x \in InvoiceShape
    BY <1>1 DEF InvoiceShape
  <2>2. ~invoices[i].cancelled /\ Alters(invoices[i], x)
    BY <1>1, <1>3, <2>1 DEF Alters, MarkInvoiceCredit, InvoiceShape
  <2>3. PutInvoice(i, x) /\ UNCHANGED <<payments, loyalty>>
    BY <1>3 DEF MarkInvoiceCredit, PutInvoice
  <2> HIDE DEF x
  <2> QED
    BY <2>1, <2>2, <2>3 DEF Edits
<1> QED
  BY <1>2, <1>3

LEMMA PaysStep ==
    ASSUME BooksTyped, FinanceTypeOK, NEW i \in 1..Len(invoices), NEW r, NEW method,
           NEW n \in Amounts, RecordPayment(r, i, method, None, n)
    PROVE  Pays
<1> DEFINE inv == invoices[i]
           earns == Earns(inv, n)
<1>1. n \in Amount /\ NextNumber \in Nat
  BY BoundAssumption DEF NextNumber, FinanceTypeOK
<1>2. PutInvoice(i, AfterPaying(inv, n, earns, Len(loyalty.log) + 1))
  BY DEF RecordPayment, PutInvoice, AfterPaying
<1>3. /\ Collectable(inv, n)
      /\ payments' = Append(payments, [invoice |-> i, amount |-> n, entry |-> NextNumber,
                                       live |-> TRUE])
      /\ loyalty' = IF earns THEN Applied(loyalty, Vehicle(inv), "earned", PointsFor(inv), 0)
                    ELSE loyalty
  BY DEF RecordPayment
<1> QED
  BY <1>1, <1>2, <1>3 DEF Pays

LEMMA SpendsStep ==
    ASSUME BooksTyped, NEW i \in 1..Len(invoices), ApplyLoyaltyReward(i)
    PROVE  Spends
<1> DEFINE inv == invoices[i]
           amount == PercentOf(SubtotalOf(inv), RewardPercent)
<1>1. PICK w \in Available(loyalty.rewards, Vehicle(inv)) :
         /\ loyalty.points[Vehicle(inv)] >= loyalty.rewards[w].cost
         /\ loyalty' = Redeemed(loyalty, w, i)
         /\ invoices' = [invoices EXCEPT
                ![i].discount = amount, ![i].source = "loyalty_reward",
                ![i].reward = w, ![i].redeemEntry = Len(loyalty.log) + 1]
  BY DEF ApplyLoyaltyReward
<1>2. w \in 1..Len(loyalty.rewards)
  BY <1>1, Books, LoyaltyFields, RewardFields DEF Available
<1>3. PutInvoice(i, WithReward(inv, amount, w, Len(loyalty.log) + 1))
  BY <1>1 DEF PutInvoice, WithReward
<1>4. Discountable(inv) /\ UNCHANGED payments
  BY DEF ApplyLoyaltyReward
<1> HIDE DEF amount
<1> QED
  BY <1>1, <1>2, <1>3, <1>4 DEF Spends, amount

\* Every step does one of the nine.
LEMMA BooksStep ==
    BooksTyped /\ FinanceTypeOK /\ [BillingNext]_bookVars =>
        Adds \/ Edits \/ Pays \/ Unpays \/ Spends \/ Voids \/ Corrects \/ Undoes \/ Rests
<1> SUFFICES ASSUME BooksTyped, FinanceTypeOK, [BillingNext]_bookVars
             PROVE  \/ Adds \/ Edits \/ Pays \/ Unpays \/ Spends \/ Voids \/ Corrects
                    \/ Undoes \/ Rests
  OBVIOUS
<1>1. CASE UNCHANGED bookVars \/ Banking
  BY <1>1 DEF bookVars, billingVars, Banking, Rests
<1>2. CASE Invoicing
  <2>1. ASSUME NEW j \in Intakes, CreateInvoice(j) PROVE Adds
    BY <2>1 DEF CreateInvoice, Adds
  <2>2. ASSUME NEW i \in 1..Len(invoices), CancelInvoice(i) PROVE Voids
    BY <2>2 DEF CancelInvoice, Voids, PutInvoice, Cancelled
  <2> QED
    BY <1>2, <2>1, <2>2, Books, EditsStep, SpendsStep DEF Invoicing
<1>3. CASE Paying
  <2>1. ASSUME NEW k \in 1..Len(payments), ReversePayment(k) PROVE Unpays
    BY <2>1 DEF ReversePayment, Unpays, PutInvoice
  <2> QED
    BY <1>3, <2>1, Books, PaysStep DEF Paying
<1>4. CASE CorrectingPoints
  <2>1. ASSUME NEW v \in Vehicles, NEW p \in Adjustments, AdjustLoyaltyPoints(v, p)
        PROVE  Corrects
    BY <2>1, BillingAssumption DEF AdjustLoyaltyPoints, CanApply, Corrects
  <2>2. ASSUME NEW e \in 1..Len(loyalty.log), ReverseLoyaltyTransaction(e) PROVE Undoes
    BY <2>2 DEF ReverseLoyaltyTransaction, CanApply, Undoes
  <2> QED
    BY <1>4, <2>1, <2>2, Books, LoyaltyFields DEF CorrectingPoints
<1> QED
  BY <1>1, <1>2, <1>3, <1>4 DEF BillingNext

-----------------------------------------------------------------------------
(* What was paid, payment by payment *)

\* What payment p adds to what invoice i says was paid.
Share(p, i) == IF p.live /\ p.invoice = i THEN p.amount ELSE 0

\* The live payments on invoice i, and what they amount to.
PaymentsOf(pays, i) == {k \in DOMAIN pays : pays[k].invoice = i /\ pays[k].live}
PaidOf(pays, i) == AmountsOf(pays, PaymentsOf(pays, i))

\* What an invoice says was paid is what its live payments amount to.
TotalsInv == \A i \in 1..Len(invoices) : invoices[i].paid = PaidOf(payments, i)

LEMMA ShareNat ==
    ASSUME NEW p \in Payment, NEW i
    PROVE  Share(p, i) \in Nat
BY DEF Share, Payment, Amount

\* The payments on an invoice are finitely many, with numbers for amounts.
LEMMA PaymentsFinite ==
    ASSUME NEW pays \in Seq(Payment), NEW i
    PROVE  /\ Len(pays) \in Nat /\ DOMAIN pays = 1..Len(pays)
           /\ \A k \in 1..Len(pays) : pays[k] \in Payment /\ pays[k].amount \in Nat
           /\ PaymentsOf(pays, i) \in SUBSET (1..Len(pays))
           /\ IsFiniteSet(PaymentsOf(pays, i))
<1>1. Len(pays) \in Nat /\ DOMAIN pays = 1..Len(pays)
  BY LenProperties
<1>2. \A k \in 1..Len(pays) : pays[k] \in Payment /\ pays[k].amount \in Nat
  <2>1. \A k \in 1..Len(pays) : pays[k] \in Payment
    BY ElementOfSeq
  <2> QED
    BY <2>1 DEF Payment, Amount
<1>3. PaymentsOf(pays, i) \in SUBSET (1..Len(pays))
  BY <1>1 DEF PaymentsOf
<1>4. IsFiniteSet(PaymentsOf(pays, i))
  <2>1. IsFiniteSet(1..Len(pays))
    BY <1>1, FS_Interval
  <2> QED
    BY <1>3, <2>1, FS_Subset
<1> QED
  BY <1>1, <1>2, <1>3, <1>4

LEMMA PaidExtended ==
    ASSUME NEW pays \in Seq(Payment), NEW p \in Payment, NEW i
    PROVE  PaidOf(Append(pays, p), i) = PaidOf(pays, i) + Share(p, i)
<1> DEFINE n == Len(pays)
           after == Append(pays, p)
           S == PaymentsOf(pays, i)
<1>1. /\ n \in Nat /\ Len(after) = n + 1 /\ after[n + 1] = p /\ after \in Seq(Payment)
      /\ \A k \in 1..n : after[k] = pays[k]
  BY AppendProperties, LenProperties
<1>2. DOMAIN after = 1..(n + 1)
  BY <1>1, LenProperties
<1>3. /\ DOMAIN pays = 1..n /\ S \in SUBSET (1..n)
      /\ \A k \in 1..n : pays[k].amount \in Nat
  BY PaymentsFinite
<1>4. p.amount \in Nat /\ p.live \in BOOLEAN
  BY DEF Payment, Amount
<1> HIDE DEF n, after
<1>5. PaymentsOf(after, i) = IF p.live /\ p.invoice = i THEN S \cup {n + 1} ELSE S
  <2>1. \A k : k \in 1..(n + 1) <=> k \in 1..n \/ k = n + 1
    BY <1>1
  <2> QED
    BY <1>1, <1>2, <1>3, <2>1 DEF PaymentsOf
<1> HIDE DEF S
<1>6. /\ AmountsOf(after, S) = AmountsOf(pays, S)
      /\ AmountsOf(after, S \cup {n + 1}) = AmountsOf(pays, S) + after[n + 1].amount
      /\ AmountsOf(pays, S) \in Nat
  <2>1. \A k \in 1..n : after[k].amount = pays[k].amount
    BY <1>1
  <2>2. after[n + 1].amount \in Nat
    BY <1>1, <1>4
  <2>3. n \in Nat /\ S \in SUBSET (1..n) /\ \A k \in 1..n : pays[k].amount \in Nat
    BY <1>1, <1>3
  <2> QED
    BY <2>1, <2>2, <2>3, AmountsExtended
<1>7. PaidOf(after, i) = AmountsOf(pays, S) + Share(p, i)
  BY <1>1, <1>5, <1>6 DEF PaidOf, Share
<1> QED
  BY <1>7 DEF PaidOf, S, after

LEMMA PaidReduced ==
    ASSUME NEW pays \in Seq(Payment), NEW k \in 1..Len(pays), pays[k].live, NEW i
    PROVE  /\ PaidOf(pays, i) \in Nat
           /\ PaidOf([pays EXCEPT ![k].live = FALSE], i) \in Nat
           /\ PaidOf(pays, i)
                = PaidOf([pays EXCEPT ![k].live = FALSE], i) + Share(pays[k], i)
<1> DEFINE n == Len(pays)
           q == [pays[k] EXCEPT !.live = FALSE]
           after == [pays EXCEPT ![k] = q]
<1>1. n \in Nat /\ DOMAIN pays = 1..n /\ pays[k] \in Payment
  BY LenProperties
<1>2. q \in Payment /\ ~q.live /\ q.amount = pays[k].amount /\ q.invoice = pays[k].invoice
  BY <1>1 DEF Payment
<1>3. after = [pays EXCEPT ![k].live = FALSE]
  OBVIOUS
<1> HIDE DEF q
<1>4. /\ after \in Seq(Payment) /\ DOMAIN after = 1..n
      /\ \A h \in 1..n : after[h] = IF h = k THEN q ELSE pays[h]
  BY <1>1, <1>2, ReplaceType
<1> HIDE DEF after
<1>5. /\ \A h \in 1..n : after[h].amount = pays[h].amount /\ pays[h].amount \in Nat
      /\ PaymentsOf(pays, i) \in SUBSET (1..n) /\ IsFiniteSet(PaymentsOf(pays, i))
      /\ PaymentsOf(after, i) \in SUBSET (1..n) /\ IsFiniteSet(PaymentsOf(after, i))
  <2>1. PaymentsOf(after, i) \in SUBSET (1..n)
    BY <1>4 DEF PaymentsOf
  <2> QED
    BY <1>2, <1>4, <2>1, PaymentsFinite
<1>6. PaymentsOf(after, i) = PaymentsOf(pays, i) \ {k}
  BY <1>1, <1>2, <1>4 DEF PaymentsOf
<1>7. PaidOf(pays, i) \in Nat /\ PaidOf(after, i) \in Nat
  <2>1. \A h \in PaymentsOf(pays, i) : pays[h].amount \in Nat
    BY <1>5
  <2>2. \A h \in PaymentsOf(after, i) : after[h].amount \in Nat
    BY <1>5
  <2> QED
    BY <1>5, <2>1, <2>2, AmountsType DEF PaidOf
<1>8. k \in PaymentsOf(pays, i) <=> pays[k].invoice = i
  BY <1>1 DEF PaymentsOf
<1>9. CASE pays[k].invoice = i
  <2> DEFINE S == PaymentsOf(after, i)
  <2>1. PaymentsOf(pays, i) = S \cup {k}
    BY <1>6, <1>8, <1>9
  <2>2. Growing(after, pays, S, k)
    BY <1>1, <1>5, <1>6 DEF Growing
  <2> HIDE DEF S
  <2>3. AmountsOf(pays, S \cup {k}) = AmountsOf(after, S) + pays[k].amount
    BY <2>2, AmountsGrow
  <2> QED
    BY <1>3, <1>7, <1>9, <2>1, <2>3 DEF PaidOf, Share, S
<1>10. CASE pays[k].invoice # i
  <2> DEFINE S == PaymentsOf(pays, i)
  <2>1. PaymentsOf(after, i) = S
    BY <1>6, <1>8, <1>10
  <2>2. IsFiniteSet(S) /\ \A h \in S : after[h].amount = pays[h].amount
    BY <1>5
  <2> HIDE DEF S
  <2>3. AmountsOf(after, S) = AmountsOf(pays, S)
    BY <2>2, AmountsSame
  <2> QED
    BY <1>3, <1>7, <1>10, <2>1, <2>3 DEF PaidOf, Share, S
<1> QED
  BY <1>9, <1>10

\* An invoice no payment names has been paid nothing.
LEMMA PaidNothing ==
    ASSUME NEW pays \in Seq(Payment), NEW i,
           \A k \in 1..Len(pays) : pays[k].invoice # i
    PROVE  PaidOf(pays, i) = 0
<1>1. PaymentsOf(pays, i) = {}
  BY LenProperties DEF PaymentsOf
<1> QED
  BY <1>1, AmountsEmpty DEF PaidOf

LEMMA PaidNat ==
    ASSUME NEW pays \in Seq(Payment), NEW i
    PROVE  PaidOf(pays, i) \in Nat
<1>1. IsFiniteSet(PaymentsOf(pays, i)) /\ \A k \in PaymentsOf(pays, i) : pays[k].amount \in Nat
  BY PaymentsFinite
<1> QED
  BY <1>1, AmountsType DEF PaidOf

-----------------------------------------------------------------------------
(* Invoices after a step *)

LEMMA PutShape ==
    ASSUME BooksTyped, NEW i \in 1..Len(invoices), NEW x \in InvoiceShape, PutInvoice(i, x)
    PROVE  /\ invoices' \in Seq(InvoiceShape) /\ Len(invoices') = Len(invoices)
           /\ \A h \in 1..Len(invoices) : invoices'[h] = IF h = i THEN x ELSE invoices[h]
<1>1. invoices' \in Seq(InvoiceShape)
  BY ReplaceType DEF BooksTyped, PutInvoice
<1>2. DOMAIN invoices' = 1..Len(invoices) /\ Len(invoices) \in Nat
  BY Books DEF PutInvoice
<1>3. DOMAIN invoices' = 1..Len(invoices') /\ Len(invoices') \in Nat
  BY <1>1, LenProperties
<1>4. \A h \in 1..Len(invoices) : invoices'[h] = IF h = i THEN x ELSE invoices[h]
  BY Books DEF PutInvoice
<1> QED
  BY <1>1, <1>2, <1>3, <1>4

LEMMA NewShape ==
    ASSUME NEW j \in Intakes
    PROVE  /\ NewInvoice(j) \in InvoiceShape
           /\ NewInvoice(j).intake = j /\ NewInvoice(j).paid = 0 /\ NewInvoice(j).discount = 0
           /\ ~NewInvoice(j).cancelled /\ ~NewInvoice(j).earned /\ NewInvoice(j).earnEntry = 0
           /\ NewInvoice(j).reward = 0 /\ NewInvoice(j).redeemEntry = 0
           /\ NewInvoice(j).source = "none"
BY DEF NewInvoice, InvoiceShape

LEMMA AddShape ==
    ASSUME BooksTyped, NEW j \in Intakes, invoices' = Append(invoices, NewInvoice(j))
    PROVE  /\ invoices' \in Seq(InvoiceShape) /\ Len(invoices') = Len(invoices) + 1
           /\ \A h \in 1..Len(invoices) : invoices'[h] = invoices[h]
           /\ invoices'[Len(invoices) + 1] = NewInvoice(j)
BY NewShape, AppendProperties DEF BooksTyped

\* x stands for the same job as inv does.
LEMMA PayingShape ==
    ASSUME NEW inv \in InvoiceShape, NEW n \in Amount, NEW earns \in BOOLEAN, NEW e \in Nat
    PROVE  LET x == AfterPaying(inv, n, earns, e)
           IN  /\ x \in InvoiceShape
               /\ x.intake = inv.intake /\ x.paid = inv.paid + n /\ x.discount = inv.discount
               /\ x.cancelled = inv.cancelled /\ x.source = inv.source
               /\ x.earned = (inv.earned \/ earns)
               /\ x.earnEntry = (IF earns THEN e ELSE inv.earnEntry)
               /\ x.reward = inv.reward /\ x.redeemEntry = inv.redeemEntry
<1> DEFINE total == inv.paid + n
           had == inv.earned \/ earns
           entry == IF earns THEN e ELSE inv.earnEntry
           x == [inv EXCEPT !.paid = total, !.earned = had, !.earnEntry = entry]
<1>1. total \in Int
  BY DEF InvoiceShape, Amount
<1>2. had \in BOOLEAN
  BY Zenon
<1>3. entry \in Nat
  BY DEF InvoiceShape
<1>4. x = AfterPaying(inv, n, earns, e)
  BY DEF AfterPaying
<1> HIDE DEF total, had, entry
<1>5. x \in InvoiceShape
  BY <1>1, <1>2, <1>3 DEF InvoiceShape
<1>6. /\ x.intake = inv.intake /\ x.paid = total /\ x.discount = inv.discount
      /\ x.cancelled = inv.cancelled /\ x.source = inv.source
      /\ x.earned = had /\ x.earnEntry = entry
      /\ x.reward = inv.reward /\ x.redeemEntry = inv.redeemEntry
  BY DEF InvoiceShape
<1> HIDE DEF x
<1> QED
  BY <1>4, <1>5, <1>6, Zenon DEF total, had, entry

LEMMA UnpayingShape ==
    ASSUME NEW inv \in InvoiceShape, NEW n \in Amount
    PROVE  LET x == WithoutPayment(inv, n)
           IN  /\ x \in InvoiceShape
               /\ x.intake = inv.intake /\ x.paid = inv.paid - n /\ x.discount = inv.discount
               /\ x.cancelled = inv.cancelled /\ x.source = inv.source
               /\ x.earned = FALSE /\ x.earnEntry = 0
               /\ x.reward = inv.reward /\ x.redeemEntry = inv.redeemEntry
<1> DEFINE total == inv.paid - n
           x == [inv EXCEPT !.paid = total, !.earned = FALSE, !.earnEntry = 0]
<1>1. total \in Int
  BY DEF InvoiceShape, Amount
<1>2. x = WithoutPayment(inv, n)
  BY DEF WithoutPayment
<1> HIDE DEF total
<1>3. x \in InvoiceShape
  BY <1>1 DEF InvoiceShape
<1>4. /\ x.intake = inv.intake /\ x.paid = total /\ x.discount = inv.discount
      /\ x.cancelled = inv.cancelled /\ x.source = inv.source
      /\ x.earned = FALSE /\ x.earnEntry = 0
      /\ x.reward = inv.reward /\ x.redeemEntry = inv.redeemEntry
  BY DEF InvoiceShape
<1> HIDE DEF x
<1> QED
  BY <1>2, <1>3, <1>4, Zenon DEF total

LEMMA SpendingShape ==
    ASSUME NEW inv \in InvoiceShape, NEW amount \in Nat, NEW w \in Nat, NEW e \in Nat
    PROVE  LET x == WithReward(inv, amount, w, e)
           IN  /\ x \in InvoiceShape
               /\ x.intake = inv.intake /\ x.paid = inv.paid /\ x.discount = amount
               /\ x.cancelled = inv.cancelled /\ x.source = "loyalty_reward"
               /\ x.earned = inv.earned /\ x.earnEntry = inv.earnEntry
               /\ x.reward = w /\ x.redeemEntry = e
BY DEF WithReward, InvoiceShape

LEMMA VoidingShape ==
    ASSUME NEW inv \in InvoiceShape
    PROVE  LET x == Cancelled(inv)
           IN  /\ x \in InvoiceShape
               /\ x.intake = inv.intake /\ x.paid = inv.paid /\ x.discount = inv.discount
               /\ x.cancelled = TRUE /\ x.source = inv.source
               /\ x.earned = inv.earned /\ x.earnEntry = inv.earnEntry
               /\ x.reward = inv.reward /\ x.redeemEntry = inv.redeemEntry
BY DEF Cancelled, InvoiceShape

LEMMA SubtotalNat ==
    ASSUME NEW inv \in InvoiceShape
    PROVE  /\ SubtotalOf(inv) \in Nat /\ Vehicle(inv) \in Vehicles
           /\ PointsFor(inv) \in Nat
<1>1. inv.intake \in Intakes
  BY DEF InvoiceShape
<1>2. PriceOf[inv.intake] \in Nat /\ VehicleOf[inv.intake] \in Vehicles
      /\ QualifyingOf[inv.intake] \in Nat
  BY <1>1, BillingAssumption
<1>3. PointsPerService \in Nat
  BY LoyaltyConfig
<1>4. \A a, b \in Nat : a * b \in Nat
  BY SMT
<1> QED
  BY <1>2, <1>3, <1>4 DEF SubtotalOf, Vehicle, PointsFor

-----------------------------------------------------------------------------
(* What is owed and paid *)

PaperTyped ==
    /\ invoices \in Seq(InvoiceShape)
    /\ payments \in Seq(Payment)
    /\ \A k \in 1..Len(payments) : payments[k].invoice \in 1..Len(invoices)

\* No more is taken off a total or paid of it than there is, and what was cancelled
\* is not paid.
AmountsHold(inv) ==
    /\ inv.paid \in Nat /\ inv.discount <= SubtotalOf(inv)
    /\ inv.paid <= SubtotalOf(inv) - inv.discount
    /\ inv.cancelled => inv.paid = 0
AmountsInv == \A i \in 1..Len(invoices) : AmountsHold(invoices[i])

\* What a step may make of an invoice.
Settled(inv, x) ==
    /\ inv.paid > 0 => TotalOf(x) = TotalOf(inv)
    /\ inv.cancelled => x = inv
AllSettled == \A i \in 1..Len(invoices) : Settled(invoices[i], invoices'[i])

PaperInv == BooksTyped /\ TotalsInv /\ AmountsInv
PaperKept == PaperTyped' /\ TotalsInv' /\ AmountsInv' /\ AllSettled

\* Where the payments stay and one invoice changes but for what was paid.
LEMMA PaperPut ==
    ASSUME PaperInv, NEW i \in 1..Len(invoices), NEW x \in InvoiceShape, PutInvoice(i, x),
           UNCHANGED payments, x.paid = invoices[i].paid, AmountsHold(x), Settled(invoices[i], x)
    PROVE  PaperKept
<1>1. /\ invoices' \in Seq(InvoiceShape) /\ Len(invoices') = Len(invoices)
      /\ \A h \in 1..Len(invoices) : invoices'[h] = IF h = i THEN x ELSE invoices[h]
  BY PutShape DEF PaperInv
<1>2. PaperTyped'
  BY <1>1, Books DEF PaperTyped, PaperInv, BooksTyped
<1>3. TotalsInv'
  BY <1>1 DEF PaperInv, TotalsInv
<1>4. AmountsInv'
  BY <1>1 DEF PaperInv, AmountsInv
<1>5. \A h \in 1..Len(invoices) : Settled(invoices[h], invoices[h])
  BY DEF Settled
<1>6. AllSettled
  BY <1>1, <1>5 DEF AllSettled
<1> QED
  BY <1>2, <1>3, <1>4, <1>6 DEF PaperKept

LEMMA PaperUnchanged == PaperInv /\ UNCHANGED <<invoices, payments>> => PaperKept
<1> SUFFICES ASSUME PaperInv, UNCHANGED <<invoices, payments>> PROVE PaperKept
  OBVIOUS
<1>1. PaperTyped' /\ TotalsInv' /\ AmountsInv'
  BY Books DEF PaperInv, PaperTyped, BooksTyped, TotalsInv, AmountsInv
<1>2. AllSettled
  BY DEF AllSettled, Settled
<1> QED
  BY <1>1, <1>2 DEF PaperKept

LEMMA PaperAdds == PaperInv /\ Adds => PaperKept
<1> SUFFICES ASSUME PaperInv, Adds PROVE PaperKept
  OBVIOUS
<1>1. PICK j \in Intakes : invoices' = Append(invoices, NewInvoice(j))
  BY DEF Adds
<1> DEFINE n == Len(invoices)
           x == NewInvoice(j)
<1>2. /\ invoices' \in Seq(InvoiceShape) /\ Len(invoices') = n + 1
      /\ \A h \in 1..n : invoices'[h] = invoices[h]
      /\ invoices'[n + 1] = x
  BY <1>1, AddShape DEF PaperInv
<1>3. n \in Nat /\ payments' = payments /\ payments \in Seq(Payment)
      /\ \A k \in 1..Len(payments) : payments[k].invoice \in 1..n
  BY Books DEF PaperInv, BooksTyped, Adds
<1>4. x \in InvoiceShape /\ x.paid = 0 /\ x.discount = 0 /\ ~x.cancelled
  BY NewShape
<1> HIDE DEF n, x
<1>5. PaperTyped'
  BY <1>2, <1>3 DEF PaperTyped
<1>6. TotalsInv'
  <2>1. \A h \in 1..n : invoices[h].paid = PaidOf(payments, h)
    BY DEF PaperInv, TotalsInv, n
  <2>2. \A k \in 1..Len(payments) : payments[k].invoice # n + 1
    BY <1>3
  <2>3. PaidOf(payments, n + 1) = 0
    BY <1>3, <2>2, PaidNothing
  <2>4. \A h \in 1..(n + 1) : h = n + 1 \/ h \in 1..n
    BY <1>3
  <2> QED
    BY <1>2, <1>3, <1>4, <2>1, <2>3, <2>4 DEF TotalsInv
<1>7. AmountsInv'
  <2>1. AmountsHold(x)
    BY <1>4, SubtotalNat DEF AmountsHold
  <2>2. \A h \in 1..n : AmountsHold(invoices[h])
    BY DEF PaperInv, AmountsInv, n
  <2> QED
    BY <1>2, <1>3, <2>1, <2>2 DEF AmountsInv
<1>8. AllSettled
  BY <1>2 DEF AllSettled, Settled, n
<1> QED
  BY <1>5, <1>6, <1>7, <1>8 DEF PaperKept

LEMMA PaperEdits == PaperInv /\ Edits => PaperKept
<1> SUFFICES ASSUME PaperInv, Edits PROVE PaperKept
  OBVIOUS
<1>1. PICK i \in 1..Len(invoices), x \in InvoiceShape :
         ~invoices[i].cancelled /\ Alters(invoices[i], x) /\ PutInvoice(i, x)
  BY DEF Edits
<1> DEFINE inv == invoices[i]
<1>2. inv \in InvoiceShape /\ AmountsHold(inv)
  BY Books DEF PaperInv, AmountsInv
<1>3. /\ x.paid = inv.paid /\ x.cancelled = inv.cancelled
      /\ x.discount = inv.discount \/ (inv.paid = 0 /\ x.discount <= SubtotalOf(inv))
      /\ SubtotalOf(x) = SubtotalOf(inv)
  BY <1>1 DEF Alters, SubtotalOf
<1>4. SubtotalOf(inv) \in Nat /\ x.discount \in Nat /\ inv.paid \in Nat
  BY <1>2, SubtotalNat DEF InvoiceShape, AmountsHold
<1>5. ~inv.cancelled /\ ~x.cancelled
  BY <1>1, <1>3
<1> HIDE DEF inv
<1>6. AmountsHold(x)
  BY <1>2, <1>3, <1>4, <1>5 DEF AmountsHold
<1>7. Settled(inv, x)
  BY <1>3, <1>4, <1>5 DEF Settled, TotalOf
<1> QED
  BY <1>1, <1>3, <1>6, <1>7, PaperPut DEF Edits, inv

LEMMA PaperSpends == PaperInv /\ Spends => PaperKept
<1> SUFFICES ASSUME PaperInv, Spends PROVE PaperKept
  OBVIOUS
<1>1. PICK i \in 1..Len(invoices), w \in 1..Len(loyalty.rewards) :
         /\ Discountable(invoices[i])
         /\ PutInvoice(i, WithReward(invoices[i],
                              PercentOf(SubtotalOf(invoices[i]), RewardPercent),
                              w, Len(loyalty.log) + 1))
  BY DEF Spends
<1> DEFINE inv == invoices[i]
           amount == PercentOf(SubtotalOf(inv), RewardPercent)
           e == Len(loyalty.log) + 1
           x == WithReward(inv, amount, w, e)
<1>2. inv \in InvoiceShape
  BY Books DEF PaperInv
<1>3. SubtotalOf(inv) \in Nat /\ amount \in Nat /\ amount <= SubtotalOf(inv)
  BY <1>2, SubtotalNat, PercentBounds
<1>4. w \in Nat /\ e \in Nat
  BY Books, LoyaltyFields DEF PaperInv
<1>5. PutInvoice(i, x) /\ ~inv.cancelled /\ inv.paid = 0
  BY <1>1 DEF Discountable
<1> HIDE DEF amount, e, inv
<1>6. /\ x \in InvoiceShape /\ x.intake = inv.intake /\ x.paid = inv.paid
      /\ x.discount = amount /\ x.cancelled = inv.cancelled
  <2>1. inv \in InvoiceShape
    BY <1>2
  <2>2. amount \in Nat
    BY <1>3
  <2>3. w \in Nat
    BY <1>4
  <2>4. e \in Nat
    BY <1>4
  <2>5. x.intake = inv.intake
    BY <2>1, <2>2, <2>3, <2>4, SpendingShape
  <2>6. x.paid = inv.paid
    BY <2>1, <2>2, <2>3, <2>4, SpendingShape
  <2>7. x.discount = amount
    BY <2>1, <2>2, <2>3, <2>4, SpendingShape
  <2>8. x.cancelled = inv.cancelled
    BY <2>1, <2>2, <2>3, <2>4, SpendingShape
  <2> QED
    BY <2>1, <2>2, <2>3, <2>4, SpendingShape, <2>5, <2>6, <2>7, <2>8
<1> HIDE DEF x, inv
<1>7. SubtotalOf(x) = SubtotalOf(inv)
  BY <1>6 DEF SubtotalOf
<1>8. AmountsHold(x)
  BY <1>3, <1>5, <1>6, <1>7 DEF AmountsHold
<1>9. Settled(inv, x)
  BY <1>5, <1>6 DEF Settled
<1> QED
  BY <1>5, <1>6, <1>8, <1>9, PaperPut DEF Spends, inv

LEMMA PaperVoids == PaperInv /\ Voids => PaperKept
<1> SUFFICES ASSUME PaperInv, Voids PROVE PaperKept
  OBVIOUS
<1>1. PICK i \in 1..Len(invoices) :
         Cancellable(invoices[i]) /\ PutInvoice(i, Cancelled(invoices[i]))
  BY DEF Voids
<1> DEFINE inv == invoices[i]
           x == Cancelled(inv)
<1>2. inv \in InvoiceShape /\ AmountsHold(inv)
  BY Books DEF PaperInv, AmountsInv
<1>3. /\ x \in InvoiceShape /\ x.intake = inv.intake /\ x.paid = inv.paid
      /\ x.discount = inv.discount
  BY <1>2, VoidingShape
<1>4. PutInvoice(i, x) /\ ~inv.cancelled /\ inv.paid = 0
  BY <1>1 DEF Cancellable
<1> HIDE DEF x, inv
<1>5. SubtotalOf(x) = SubtotalOf(inv)
  BY <1>3 DEF SubtotalOf
<1>6. AmountsHold(x) /\ Settled(inv, x)
  BY <1>2, <1>3, <1>4, <1>5 DEF AmountsHold, Settled
<1> QED
  BY <1>3, <1>4, <1>6, PaperPut DEF Voids, inv

LEMMA PaperPays == PaperInv /\ Pays => PaperKept
<1> SUFFICES ASSUME PaperInv, Pays PROVE PaperKept
  OBVIOUS
<1>1. PICK i \in 1..Len(invoices), n \in Amount, entry \in Nat :
         /\ Collectable(invoices[i], n)
         /\ PutInvoice(i, AfterPaying(invoices[i], n, Earns(invoices[i], n),
                                      Len(loyalty.log) + 1))
         /\ payments' = Append(payments, [invoice |-> i, amount |-> n, entry |-> entry,
                                          live |-> TRUE])
  BY DEF Pays
<1> DEFINE inv == invoices[i]
           earns == Earns(inv, n)
           e == Len(loyalty.log) + 1
           x == AfterPaying(inv, n, earns, e)
           p == [invoice |-> i, amount |-> n, entry |-> entry, live |-> TRUE]
           m == Len(payments)
<1>2. inv \in InvoiceShape /\ AmountsHold(inv)
  BY Books DEF PaperInv, AmountsInv
<1>3. earns \in BOOLEAN /\ e \in Nat
  BY Books, LoyaltyFields DEF PaperInv, Earns
<1>4. PutInvoice(i, x) /\ payments' = Append(payments, p)
  BY <1>1
<1>5. ~inv.cancelled /\ n <= Outstanding(inv)
  BY <1>1 DEF Collectable
<1> HIDE DEF earns, e, inv
<1>6. /\ x \in InvoiceShape /\ x.intake = inv.intake /\ x.paid = inv.paid + n
      /\ x.discount = inv.discount /\ x.cancelled = inv.cancelled
  BY <1>2, <1>3, PayingShape
<1> HIDE DEF x
<1>7. /\ invoices' \in Seq(InvoiceShape) /\ Len(invoices') = Len(invoices)
      /\ \A h \in 1..Len(invoices) : invoices'[h] = IF h = i THEN x ELSE invoices[h]
  BY <1>4, <1>6, PutShape DEF PaperInv
<1>8. p \in Payment /\ p.invoice = i /\ \A h : Share(p, h) = IF h = i THEN n ELSE 0
  <2>1. i \in Nat
    BY Books DEF PaperInv
  <2> QED
    BY <2>1 DEF Payment, Share
<1> HIDE DEF p
<1>9. /\ m \in Nat /\ payments \in Seq(Payment)
      /\ \A k \in 1..m : payments[k].invoice \in 1..Len(invoices)
  BY Books DEF PaperInv, BooksTyped
<1>10. /\ payments' \in Seq(Payment) /\ Len(payments') = m + 1 /\ payments'[m + 1] = p
       /\ \A k \in 1..m : payments'[k] = payments[k]
  BY <1>4, <1>8, <1>9, AppendProperties
<1> HIDE DEF m
<1>11. PaperTyped'
  <2>1. ASSUME NEW k \in 1..(m + 1) PROVE payments'[k].invoice \in 1..Len(invoices)
    BY <1>8, <1>9, <1>10
  <2> QED
    BY <1>7, <1>10, <2>1 DEF PaperTyped
<1>12. TotalsInv'
  <2>1. ASSUME NEW h \in 1..Len(invoices) PROVE invoices'[h].paid = PaidOf(payments', h)
    <3>1. invoices[h].paid = PaidOf(payments, h)
      BY DEF PaperInv, TotalsInv
    <3>2. PaidOf(payments', h) = PaidOf(payments, h) + Share(p, h)
      BY <1>4, <1>8, <1>9, PaidExtended
    <3>3. PaidOf(payments, h) \in Nat
      BY <1>9, PaidNat
    <3>4. CASE h = i
      BY <1>6, <1>7, <1>8, <3>1, <3>2, <3>4 DEF inv
    <3>5. CASE h # i
      BY <1>7, <1>8, <3>1, <3>2, <3>3, <3>5
    <3> QED
      BY <3>4, <3>5
  <2> QED
    BY <1>7, <2>1 DEF TotalsInv
<1>13. /\ SubtotalOf(x) = SubtotalOf(inv) /\ SubtotalOf(inv) \in Nat /\ inv.discount \in Nat
       /\ n \in Nat
  BY <1>2, <1>6, SubtotalNat DEF SubtotalOf, InvoiceShape, Amount
<1>14. AmountsHold(x)
  BY <1>2, <1>5, <1>6, <1>13 DEF AmountsHold, Outstanding, TotalOf
<1>15. AmountsInv'
  BY <1>7, <1>14 DEF AmountsInv, PaperInv
<1>16. Settled(inv, x)
  BY <1>5, <1>6, <1>13 DEF Settled, TotalOf
<1>17. AllSettled
  <2>1. \A h \in 1..Len(invoices) : Settled(invoices[h], invoices[h])
    BY DEF Settled
  <2> QED
    BY <1>7, <1>16, <2>1 DEF AllSettled, inv
<1> QED
  BY <1>11, <1>12, <1>15, <1>17 DEF PaperKept

LEMMA PaperUnpays == PaperInv /\ Unpays => PaperKept
<1> SUFFICES ASSUME PaperInv, Unpays PROVE PaperKept
  OBVIOUS
<1>1. PICK k \in 1..Len(payments) :
         /\ payments[k].live
         /\ PutInvoice(payments[k].invoice,
                       WithoutPayment(invoices[payments[k].invoice], payments[k].amount))
         /\ payments' = [payments EXCEPT ![k].live = FALSE]
  BY DEF Unpays
<1> DEFINE i == payments[k].invoice
           n == payments[k].amount
           inv == invoices[i]
           x == WithoutPayment(inv, n)
           m == Len(payments)
<1>2. /\ m \in Nat /\ payments \in Seq(Payment) /\ payments[k] \in Payment
      /\ \A h \in 1..m : payments[h].invoice \in 1..Len(invoices)
  BY Books DEF PaperInv, BooksTyped
<1>3. i \in 1..Len(invoices) /\ n \in Amount
  BY <1>2 DEF Payment
<1>4. inv \in InvoiceShape /\ AmountsHold(inv)
  BY <1>3, Books DEF PaperInv, AmountsInv
<1>5. PutInvoice(i, x)
  BY <1>1
<1>6. \A h : Share(payments[k], h) = IF h = i THEN n ELSE 0
  BY <1>1 DEF Share
<1> HIDE DEF i, n, inv
<1>7. /\ x \in InvoiceShape /\ x.intake = inv.intake /\ x.paid = inv.paid - n
      /\ x.discount = inv.discount /\ x.cancelled = inv.cancelled
  BY <1>3, <1>4, UnpayingShape
<1> HIDE DEF x
<1>8. /\ invoices' \in Seq(InvoiceShape) /\ Len(invoices') = Len(invoices)
      /\ \A h \in 1..Len(invoices) : invoices'[h] = IF h = i THEN x ELSE invoices[h]
  BY <1>3, <1>5, <1>7, PutShape DEF PaperInv
<1>9. /\ payments' \in Seq(Payment) /\ Len(payments') = m
      /\ \A h \in 1..m : payments'[h].invoice = payments[h].invoice
  <2> DEFINE q == [payments[k] EXCEPT !.live = FALSE]
  <2>1. q \in Payment /\ q.invoice = payments[k].invoice
    BY <1>2 DEF Payment
  <2>2. payments' = [payments EXCEPT ![k] = q]
    BY <1>1
  <2> HIDE DEF q
  <2>3. payments' \in Seq(Payment)
    BY <1>2, <2>1, <2>2, ReplaceType
  <2>4. DOMAIN payments = 1..m /\ DOMAIN payments' = 1..m
    BY <2>2, Books DEF PaperInv
  <2>5. DOMAIN payments' = 1..Len(payments') /\ Len(payments') \in Nat
    BY <2>3, LenProperties
  <2>6. Len(payments') = m
    BY <1>2, <2>4, <2>5
  <2> QED
    BY <2>1, <2>2, <2>3, <2>4, <2>6
<1>10. ASSUME NEW h \in 1..Len(invoices)
       PROVE  /\ invoices[h].paid = PaidOf(payments', h) + Share(payments[k], h)
              /\ PaidOf(payments', h) \in Nat /\ Share(payments[k], h) \in Nat
  <2>1. invoices[h].paid = PaidOf(payments, h)
    BY DEF PaperInv, TotalsInv
  <2> QED
    BY <1>1, <1>2, <2>1, PaidReduced, ShareNat
<1> HIDE DEF m
<1>11. PaperTyped'
  BY <1>2, <1>8, <1>9 DEF PaperTyped
<1>12. ASSUME NEW h \in 1..Len(invoices) PROVE invoices'[h].paid = PaidOf(payments', h)
  <2>1. CASE h = i
    BY <1>6, <1>7, <1>8, <1>10, <2>1 DEF inv
  <2>2. CASE h # i
    BY <1>6, <1>8, <1>10, <2>2
  <2> QED
    BY <2>1, <2>2
<1>13. TotalsInv'
  BY <1>8, <1>12 DEF TotalsInv
<1>14. inv.paid \in Nat /\ n <= inv.paid /\ n \in Nat /\ n > 0
  BY <1>3, <1>6, <1>10 DEF inv, Amount
<1>15. /\ SubtotalOf(x) = SubtotalOf(inv) /\ SubtotalOf(inv) \in Nat /\ inv.discount \in Nat
       /\ ~inv.cancelled
  BY <1>4, <1>7, <1>14, SubtotalNat DEF SubtotalOf, InvoiceShape, AmountsHold
<1>16. AmountsHold(x)
  BY <1>4, <1>7, <1>14, <1>15 DEF AmountsHold
<1>17. AmountsInv'
  BY <1>8, <1>16 DEF AmountsInv, PaperInv
<1>18. Settled(inv, x)
  BY <1>7, <1>15 DEF Settled, TotalOf
<1>19. AllSettled
  <2>1. \A h \in 1..Len(invoices) : Settled(invoices[h], invoices[h])
    BY DEF Settled
  <2> QED
    BY <1>8, <1>18, <2>1 DEF AllSettled, inv
<1> QED
  BY <1>11, <1>13, <1>17, <1>19 DEF PaperKept

-----------------------------------------------------------------------------
(* The log of points and the rewards after a step *)

\* Nothing is undone but entries of the log, each by one later line for its vehicle.
LogInv ==
    /\ loyalty.undone \subseteq 1..Len(loyalty.log)
    /\ \A u \in 1..Len(loyalty.log) : loyalty.log[u].of # 0 =>
          /\ loyalty.log[u].of \in 1..(u - 1) /\ loyalty.log[u].of \in loyalty.undone
          /\ loyalty.log[loyalty.log[u].of].vehicle = loyalty.log[u].vehicle
    /\ \A u, w \in 1..Len(loyalty.log) :
          loyalty.log[u].of = loyalty.log[w].of /\ loyalty.log[u].of # 0 => u = w

LogGrows ==
    /\ Len(loyalty.log) <= Len(loyalty'.log)
    /\ \A e \in 1..Len(loyalty.log) : loyalty'.log[e] = loyalty.log[e]

\* Entries in S are marked as undone, and the log is as it should be.
LogKept(S) ==
    /\ loyalty' \in LoyaltyState /\ LogGrows /\ LogInv'
    /\ loyalty'.undone = loyalty.undone \cup S

LEMMA SameLength == ASSUME NEW a \in Nat, NEW b \in Nat, 1..a = 1..b PROVE a = b
OBVIOUS

LEMMA LogUnchanged == loyalty \in LoyaltyState /\ LogInv /\ UNCHANGED loyalty => LogKept({})
<1> SUFFICES ASSUME loyalty \in LoyaltyState, LogInv, UNCHANGED loyalty PROVE LogKept({})
  OBVIOUS
<1>1. Len(loyalty.log) \in Nat
  BY LoyaltyFields
<1> QED
  BY <1>1 DEF LogKept, LogInv, LogGrows

LEMMA LogMarked ==
    ASSUME loyalty \in LoyaltyState, LogInv, NEW e \in 1..Len(loyalty.log),
           loyalty' = [loyalty EXCEPT !.undone = @ \cup {e}]
    PROVE  LogKept({e}) /\ loyalty'.points = loyalty.points /\ loyalty'.rewards = loyalty.rewards
<1>1. Len(loyalty.log) \in Nat /\ loyalty.undone \in SUBSET Nat
  BY LoyaltyFields
<1> DEFINE marked == loyalty.undone \cup {e}
<1>2. marked \in SUBSET Nat /\ marked \subseteq 1..Len(loyalty.log)
  BY <1>1 DEF LogInv
<1> HIDE DEF marked
<1>3. /\ loyalty' \in LoyaltyState /\ loyalty'.log = loyalty.log /\ loyalty'.undone = marked
      /\ loyalty'.points = loyalty.points /\ loyalty'.rewards = loyalty.rewards
  <2>1. loyalty' = [loyalty EXCEPT !.undone = marked]
    BY DEF marked
  <2> QED
    BY <1>2, <2>1 DEF LoyaltyState
<1>4. LogGrows
  BY <1>1, <1>3 DEF LogGrows
<1>5. LogInv'
  BY <1>2, <1>3 DEF LogInv, marked
<1> QED
  BY <1>3, <1>4, <1>5 DEF LogKept, marked

LEMMA LogWritten ==
    ASSUME loyalty \in LoyaltyState, LogInv, loyalty' \in LoyaltyState,
           NEW v, NEW type, NEW p, NEW o, Logs(loyalty, loyalty', v, type, p, o)
    PROVE  /\ LogKept(IF o = 0 THEN {} ELSE {o})
           /\ Len(loyalty'.log) = Len(loyalty.log) + 1
           /\ loyalty'.log[Len(loyalty.log) + 1] = LogLine(v, type, p, o)
<1> DEFINE log == loyalty.log
           n == Len(log)
           line == LogLine(v, type, p, o)
           after == loyalty'.log
<1>1. log \in Seq(LoyaltyEntry) /\ n \in Nat /\ loyalty.undone \in SUBSET Nat
  BY LoyaltyFields
<1>2. after = Append(log, line)
  BY DEF Logs
<1>3. /\ Len(after) = n + 1 /\ after[n + 1] = line
      /\ \A e \in 1..n : after[e] = log[e]
  <2>1. IsSequence(log)
    BY <1>1, Zenon DEF IsSequence
  <2>2. /\ Len(after) \in Nat /\ DOMAIN after = 1..Len(after)
    BY LoyaltyFields
  <2>3. /\ DOMAIN after = 1..(n + 1) /\ after[n + 1] = line
        /\ \A e \in 1..n : after[e] = log[e]
    BY <1>2, <2>1, AppendAny
  <2>4. Len(after) = n + 1
    <3>1. 1..Len(after) = 1..(n + 1) /\ n + 1 \in Nat
      BY <1>1, <2>2, <2>3
    <3> QED
      BY <2>2, <3>1, SameLength
  <2> QED
    BY <2>3, <2>4
<1>4. line.of = o /\ line.vehicle = v
  BY DEF LogLine
<1>5. /\ loyalty'.undone = IF o = 0 THEN loyalty.undone ELSE loyalty.undone \cup {o}
      /\ o # 0 => o \in 1..n /\ o \notin loyalty.undone /\ log[o].vehicle = v
  BY DEF Logs
<1>6. /\ loyalty.undone \subseteq 1..n
      /\ \A u \in 1..n : log[u].of # 0 =>
            /\ log[u].of \in 1..(u - 1) /\ log[u].of \in loyalty.undone
            /\ log[log[u].of].vehicle = log[u].vehicle
      /\ \A u, w \in 1..n : log[u].of = log[w].of /\ log[u].of # 0 => u = w
  BY DEF LogInv
<1> HIDE DEF log, n, line, after
<1>7. ASSUME NEW u \in 1..(n + 1), after[u].of # 0
      PROVE  /\ after[u].of \in 1..(u - 1) /\ after[u].of \in loyalty'.undone
             /\ after[after[u].of].vehicle = after[u].vehicle
  <2>1. CASE u = n + 1
    BY <1>1, <1>3, <1>4, <1>5, <1>7, <2>1
  <2>2. CASE u # n + 1
    <3>1. u \in 1..n /\ after[u] = log[u]
      BY <1>1, <1>3, <2>2
    <3>2. /\ log[u].of \in 1..(u - 1) /\ log[u].of \in loyalty.undone
          /\ log[log[u].of].vehicle = log[u].vehicle
      BY <1>6, <1>7, <3>1
    <3>3. log[u].of \in 1..n
      BY <1>1, <3>1, <3>2
    <3> QED
      BY <1>3, <1>5, <3>1, <3>2, <3>3
  <2> QED
    BY <2>1, <2>2
<1>8. ASSUME NEW u \in 1..(n + 1), NEW w \in 1..(n + 1), after[u].of = after[w].of,
             after[u].of # 0
      PROVE  u = w
  <2>1. \A x \in 1..n : after[x].of = log[x].of /\ (log[x].of # 0 => log[x].of # o)
    BY <1>3, <1>5, <1>6
  <2>2. CASE u \in 1..n /\ w \in 1..n
    BY <1>6, <1>8, <2>1, <2>2
  <2>3. CASE u \notin 1..n \/ w \notin 1..n
    <3>1. \A x \in 1..(n + 1) : x \notin 1..n => x = n + 1 /\ after[x].of = o
      BY <1>1, <1>3, <1>4
    <3> QED
      BY <1>8, <2>1, <2>3, <3>1
  <2> QED
    BY <2>2, <2>3
<1>9. loyalty'.undone \subseteq 1..(n + 1)
  BY <1>1, <1>5, <1>6
<1>10. LogInv'
  BY <1>3, <1>7, <1>8, <1>9 DEF LogInv, after
<1>11. LogGrows
  BY <1>1, <1>3 DEF LogGrows, log, n, after
<1> QED
  BY <1>3, <1>5, <1>10, <1>11 DEF LogKept, log, n, line, after

\* Rewards of v are unlocked or revoked; what was used stays as it was.
RewardsGrow(before, after, v) ==
    /\ Len(before) <= Len(after)
    /\ \A w \in 1..Len(before) :
          /\ after[w].vehicle = before[w].vehicle /\ after[w].cost = before[w].cost
          /\ before[w].vehicle # v => after[w] = before[w]
          /\ before[w].status # "available" => after[w] = before[w]
          /\ before[w].status = "available" => after[w].status \in {"available", "revoked"}
    /\ \A w \in (Len(before) + 1)..Len(after) : after[w] = NewReward(v)

LEMMA RewardsAtGrow ==
    ASSUME NEW rewards \in Seq(Reward), NEW v \in Vehicles, NEW balance \in Nat
    PROVE  RewardsGrow(rewards, RewardsAt(rewards, v, balance), v)
<1> DEFINE after == RewardsAt(rewards, v, balance)
           n == Len(rewards)
<1>1. Unlocks(rewards, after, v, balance) \/ Revokes(rewards, after, v, balance)
  BY RewardsAtShape
<1>2. n \in Nat /\ \A w \in 1..n : rewards[w] \in Reward
  BY RewardFields
<1>3. \A w : w \in Available(rewards, v) <=>
         w \in 1..n /\ rewards[w].vehicle = v /\ rewards[w].status = "available"
  BY RewardFields
<1> HIDE DEF after, n
<1>4. CASE Unlocks(rewards, after, v, balance)
  <2>1. /\ Len(after) = n + 1 /\ after[n + 1] = NewReward(v)
        /\ \A w \in 1..n : after[w] = rewards[w]
    BY <1>4 DEF Unlocks, n
  <2> QED
    BY <1>2, <2>1 DEF RewardsGrow, n, after
<1>5. CASE Revokes(rewards, after, v, balance)
  <2>1. /\ Len(after) = n
        /\ \A w \in 1..n : \/ after[w] = rewards[w]
                           \/ /\ w \in Available(rewards, v)
                              /\ after[w] = [rewards[w] EXCEPT !.status = "revoked"]
    BY <1>5 DEF Revokes, n
  <2>2. \A r \in Reward : LET x == [r EXCEPT !.status = "revoked"]
                          IN  x.vehicle = r.vehicle /\ x.cost = r.cost /\ x.status = "revoked"
    BY DEF Reward
  <2>3. ASSUME NEW w \in 1..n
        PROVE  /\ after[w].vehicle = rewards[w].vehicle /\ after[w].cost = rewards[w].cost
               /\ rewards[w].vehicle # v => after[w] = rewards[w]
               /\ rewards[w].status # "available" => after[w] = rewards[w]
               /\ rewards[w].status = "available" => after[w].status \in {"available", "revoked"}
    <3>1. CASE after[w] = rewards[w]
      BY <3>1
    <3>2. CASE /\ w \in Available(rewards, v)
               /\ after[w] = [rewards[w] EXCEPT !.status = "revoked"]
      <4>1. rewards[w] \in Reward
        BY <1>2
      <4>2. rewards[w].vehicle = v /\ rewards[w].status = "available"
        BY <1>3, <3>2
      <4>3. /\ after[w].vehicle = rewards[w].vehicle /\ after[w].cost = rewards[w].cost
            /\ after[w].status = "revoked"
        BY <2>2, <3>2, <4>1
      <4> QED
        BY <4>2, <4>3
    <3> QED
      BY <2>1, <3>1, <3>2
  <2>4. \A w : w \notin (n + 1)..n
    BY <1>2
  <2> QED
    BY <1>2, <2>1, <2>3, <2>4 DEF RewardsGrow, n, after
<1> QED
  BY <1>1, <1>4, <1>5 DEF after

-----------------------------------------------------------------------------
(* Rewards follow the points *)

Priced(rewards) == \A w \in 1..Len(rewards) : rewards[w].cost = RewardCost
Followed(rewards, points) ==
    /\ Priced(rewards)
    /\ RewardCost <= RewardThreshold => \A v \in Vehicles : FollowsAt(rewards, v, points[v])
FollowInv == Followed(loyalty.rewards, loyalty.points)

\* A vehicle's rewards stay as they are while another's grow.
LEMMA FollowsOther ==
    ASSUME NEW before \in Seq(Reward), NEW after \in Seq(Reward), NEW v, NEW u, u # v,
           RewardsGrow(before, after, v), NEW b, FollowsAt(before, u, b)
    PROVE  FollowsAt(after, u, b)
<1>1. \A w : w \in Available(before, u) <=>
         w \in 1..Len(before) /\ before[w].vehicle = u /\ before[w].status = "available"
  BY RewardFields
<1>2. \A w : w \in Available(after, u) <=>
         w \in 1..Len(after) /\ after[w].vehicle = u /\ after[w].status = "available"
  BY RewardFields
<1>3. Len(before) \in Nat /\ Len(after) \in Nat
  BY RewardFields
<1>4. \A w \in 1..Len(after) : \/ w \in 1..Len(before)
                               \/ after[w].vehicle = v
  BY <1>3 DEF RewardsGrow, NewReward
<1>5. \A w \in 1..Len(before) : /\ w \in 1..Len(after) /\ after[w].vehicle = before[w].vehicle
                                /\ before[w].vehicle # v => after[w] = before[w]
  BY <1>3 DEF RewardsGrow
<1>6. Available(after, u) = Available(before, u)
  <2>1. ASSUME NEW w \in Available(after, u) PROVE w \in Available(before, u)
    BY <1>1, <1>2, <1>4, <1>5, <2>1
  <2>2. ASSUME NEW w \in Available(before, u) PROVE w \in Available(after, u)
    BY <1>1, <1>2, <1>5, <2>2
  <2> QED
    BY <2>1, <2>2
<1>7. \A w \in Available(after, u) : after[w] = before[w]
  BY <1>1, <1>5, <1>6
<1> QED
  BY <1>6, <1>7 DEF FollowsAt

\* Once the balance of v is what the rewards were brought in line with, all follow.
LEMMA FollowApplied ==
    ASSUME NEW rewards \in Seq(Reward), NEW points \in [Vehicles -> Nat],
           NEW v \in Vehicles, NEW balance \in Nat, Priced(rewards),
           RewardCost <= RewardThreshold =>
               /\ \A w, x \in Available(rewards, v) : w = x
               /\ \A u \in Vehicles \ {v} : FollowsAt(rewards, u, points[u])
    PROVE  Followed(RewardsAt(rewards, v, balance), [points EXCEPT ![v] = balance])
<1> DEFINE after == RewardsAt(rewards, v, balance)
           now == [points EXCEPT ![v] = balance]
<1>1. after \in Seq(Reward) /\ RewardsGrow(rewards, after, v)
  BY RewardsAtShape, RewardsAtGrow
<1>2. now[v] = balance /\ \A u \in Vehicles \ {v} : now[u] = points[u]
  OBVIOUS
<1>3. RewardCost <= RewardThreshold => FollowsAt(after, v, balance)
  BY RewardsAtFollow DEF Priced
<1> HIDE DEF after, now
<1>4. Priced(after)
  <2>1. Len(rewards) \in Nat /\ Len(after) \in Nat
    BY <1>1, RewardFields
  <2>2. \A w \in 1..Len(after) : w \in 1..Len(rewards) \/ w \in (Len(rewards) + 1)..Len(after)
    BY <2>1
  <2>3. \A w \in 1..Len(rewards) : after[w].cost = rewards[w].cost
    BY <1>1 DEF RewardsGrow
  <2>4. \A w \in (Len(rewards) + 1)..Len(after) : after[w].cost = RewardCost
    BY <1>1 DEF RewardsGrow, NewReward
  <2> QED
    BY <2>2, <2>3, <2>4 DEF Priced
<1>5. ASSUME RewardCost <= RewardThreshold, NEW u \in Vehicles
      PROVE  FollowsAt(after, u, now[u])
  <2>1. CASE u = v
    BY <1>2, <1>3, <1>5, <2>1
  <2>2. CASE u # v
    BY <1>1, <1>2, <1>5, <2>2, FollowsOther
  <2> QED
    BY <2>1, <2>2
<1>6. Followed(after, now)
  BY <1>4, <1>5 DEF Followed
<1> QED
  BY <1>6 DEF after, now

\* A reward that is not to be used any more, whatever else is written on it.
LEMMA RewardMarked ==
    ASSUME NEW rewards \in Seq(Reward), NEW w \in 1..Len(rewards), NEW r \in Reward,
           r.vehicle = rewards[w].vehicle, r.cost = rewards[w].cost, r.status # "available"
    PROVE  LET after == [rewards EXCEPT ![w] = r]
           IN  /\ after \in Seq(Reward) /\ Len(after) = Len(rewards)
               /\ \A x \in 1..Len(rewards) : after[x] = IF x = w THEN r ELSE rewards[x]
               /\ Priced(rewards) => Priced(after)
               /\ \A v : Available(after, v) = Available(rewards, v) \ {w}
               /\ \A v, b : w \notin Available(rewards, v) /\ FollowsAt(rewards, v, b)
                               => FollowsAt(after, v, b)
<1> DEFINE after == [rewards EXCEPT ![w] = r]
           n == Len(rewards)
<1>1. n \in Nat /\ DOMAIN rewards = 1..n
  BY RewardFields
<1>2. after \in Seq(Reward) /\ DOMAIN after = 1..n
  BY <1>1, ReplaceType
<1>3. \A x \in 1..n : after[x] = IF x = w THEN r ELSE rewards[x]
  BY <1>1
<1> HIDE DEF after
<1>4. Len(after) = n
  <2>1. Len(after) \in Nat /\ DOMAIN after = 1..Len(after)
    BY <1>2, LenProperties
  <2> HIDE DEF n
  <2> QED
    BY <1>1, <1>2, <2>1, SameLength
<1>5. Priced(rewards) => Priced(after)
  BY <1>3, <1>4 DEF Priced
<1>6. ASSUME NEW v PROVE Available(after, v) = Available(rewards, v) \ {w}
  BY <1>1, <1>2, <1>3 DEF Available
<1>7. ASSUME NEW v, NEW b, w \notin Available(rewards, v), FollowsAt(rewards, v, b)
      PROVE  FollowsAt(after, v, b)
  <2>1. Available(after, v) = Available(rewards, v)
    BY <1>6, <1>7
  <2>2. \A x \in Available(after, v) : after[x] = rewards[x]
    BY <1>1, <1>3, <1>7, <2>1 DEF Available
  <2> QED
    BY <1>7, <2>1, <2>2 DEF FollowsAt
<1> QED
  BY <1>2, <1>3, <1>4, <1>5, <1>6, <1>7 DEF after

-----------------------------------------------------------------------------
(* Steps that leave the rewards in use alone *)

\* The log is kept, and no redemption is marked as undone; rewards of one vehicle are
\* unlocked or revoked.
Quiet ==
    \E v, S : /\ LogKept(S)
              /\ \A e \in S : e \in 1..Len(loyalty.log) /\ loyalty.log[e].type # "redeemed"
              /\ RewardsGrow(loyalty.rewards, loyalty'.rewards, v)

LEMMA GrowNothing == ASSUME NEW rewards \in Seq(Reward), NEW v PROVE RewardsGrow(rewards, rewards, v)
<1>1. Len(rewards) \in Nat
  BY RewardFields
<1> QED
  BY <1>1 DEF RewardsGrow

LEMMA LoyaltyUnchanged ==
    ASSUME loyalty \in LoyaltyState, LogInv, FollowInv, UNCHANGED loyalty
    PROVE  Quiet /\ FollowInv'
<1>1. LogKept({})
  BY LogUnchanged
<1>2. RewardsGrow(loyalty.rewards, loyalty'.rewards, 0)
  BY LoyaltyFields, GrowNothing
<1> QED
  BY <1>1, <1>2 DEF Quiet, FollowInv

LEMMA LoyaltyMarked ==
    ASSUME loyalty \in LoyaltyState, LogInv, FollowInv, NEW e \in 1..Len(loyalty.log),
           loyalty.log[e].type # "redeemed", loyalty' = [loyalty EXCEPT !.undone = @ \cup {e}]
    PROVE  Quiet /\ FollowInv'
<1>1. LogKept({e}) /\ loyalty'.points = loyalty.points /\ loyalty'.rewards = loyalty.rewards
  BY LogMarked
<1>2. RewardsGrow(loyalty.rewards, loyalty'.rewards, 0)
  BY <1>1, LoyaltyFields, GrowNothing
<1> QED
  BY <1>1, <1>2 DEF Quiet, FollowInv

LEMMA LoyaltyWritten ==
    ASSUME loyalty \in LoyaltyState, LogInv, FollowInv, loyalty' \in LoyaltyState,
           NEW v \in Vehicles, NEW type, NEW p \in Int, NEW o \in Nat,
           Logs(loyalty, loyalty', v, type, p, o), o # 0 => loyalty.log[o].type # "redeemed",
           loyalty'.rewards = RewardsAt(loyalty.rewards, v, loyalty.points[v] + p)
    PROVE  /\ Quiet /\ FollowInv'
           /\ Len(loyalty'.log) = Len(loyalty.log) + 1
           /\ loyalty'.log[Len(loyalty.log) + 1] = LogLine(v, type, p, o)
<1> DEFINE S == IF o = 0 THEN {} ELSE {o}
           balance == loyalty.points[v] + p
<1>1. /\ LogKept(S)
      /\ Len(loyalty'.log) = Len(loyalty.log) + 1
      /\ loyalty'.log[Len(loyalty.log) + 1] = LogLine(v, type, p, o)
  BY LogWritten
<1>2. \A e \in S : e \in 1..Len(loyalty.log) /\ loyalty.log[e].type # "redeemed"
  BY DEF Logs
<1>3. /\ balance \in Nat /\ loyalty.points \in [Vehicles -> Nat]
      /\ loyalty.rewards \in Seq(Reward)
      /\ loyalty'.points = [loyalty.points EXCEPT ![v] = balance]
      /\ loyalty'.rewards = RewardsAt(loyalty.rewards, v, balance)
  BY LoyaltyFields DEF Logs
<1> HIDE DEF S, balance
<1>4. Quiet
  BY <1>1, <1>2, <1>3, RewardsAtGrow DEF Quiet
<1>5. FollowInv'
  <2>1. Priced(loyalty.rewards)
    BY DEF FollowInv, Followed
  <2>2. RewardCost <= RewardThreshold =>
          /\ \A w, x \in Available(loyalty.rewards, v) : w = x
          /\ \A u \in Vehicles \ {v} : FollowsAt(loyalty.rewards, u, loyalty.points[u])
    BY DEF FollowInv, Followed, FollowsAt
  <2> QED
    BY <1>3, <2>1, <2>2, FollowApplied DEF FollowInv
<1> QED
  BY <1>1, <1>4, <1>5

-----------------------------------------------------------------------------
(* Points that are held for an invoice *)

\* inv counts on an entry of l exactly while it is paid in full: one that earned its
\* vehicle the points of its job.
EarnHolds(inv, l) ==
    /\ inv.earnEntry \in 0..Len(l.log)
    /\ inv.earned <=> inv.earnEntry # 0
    /\ inv.earned =>
          /\ Outstanding(inv) = 0 /\ inv.paid > 0 /\ PointsFor(inv) > 0
          /\ l.log[inv.earnEntry].type = "earned"
          /\ l.log[inv.earnEntry].vehicle = Vehicle(inv)
          /\ l.log[inv.earnEntry].points = PointsFor(inv)
EarnInv ==
    /\ \A i \in 1..Len(invoices) : EarnHolds(invoices[i], loyalty)
    /\ \A h, i \in 1..Len(invoices) :
          invoices[h].earnEntry = invoices[i].earnEntry /\ invoices[i].earnEntry # 0 => h = i

\* What an entry says stays true of it.
LEMMA EarnGrows ==
    ASSUME loyalty \in LoyaltyState, loyalty' \in LoyaltyState, LogGrows,
           NEW inv, EarnHolds(inv, loyalty)
    PROVE  EarnHolds(inv, loyalty')
<1>1. Len(loyalty.log) \in Nat /\ Len(loyalty'.log) \in Nat
  BY LoyaltyFields
<1>2. inv.earnEntry \in 0..Len(loyalty.log)
  BY DEF EarnHolds
<1>3. inv.earned => inv.earnEntry \in 1..Len(loyalty.log)
  BY <1>1, <1>2 DEF EarnHolds
<1> QED
  BY <1>1, <1>2, <1>3 DEF EarnHolds, LogGrows

\* x counts on the same entry as inv, or on none.
LEMMA EarnSame ==
    ASSUME NEW inv, NEW x, NEW l, EarnHolds(inv, l), x.intake = inv.intake,
           x.earned = inv.earned, x.earnEntry = inv.earnEntry,
           inv.earned => x.paid = inv.paid /\ x.discount = inv.discount
    PROVE  EarnHolds(x, l)
BY DEF EarnHolds, Outstanding, TotalOf, SubtotalOf, PointsFor, Vehicle

\* One invoice changes: what it counts on is what it did, nothing, or a new entry.
LEMMA EarnPut ==
    ASSUME BooksTyped, EarnInv, loyalty' \in LoyaltyState, LogGrows,
           NEW i \in 1..Len(invoices), NEW x \in InvoiceShape, PutInvoice(i, x),
           EarnHolds(x, loyalty'),
           \/ x.earnEntry \in {0, invoices[i].earnEntry}
           \/ x.earnEntry > Len(loyalty.log)
    PROVE  EarnInv'
<1>1. /\ Len(invoices') = Len(invoices)
      /\ \A h \in 1..Len(invoices) : invoices'[h] = IF h = i THEN x ELSE invoices[h]
  BY PutShape
<1>2. loyalty \in LoyaltyState
  BY DEF BooksTyped
<1>3. \A h \in 1..Len(invoices) : EarnHolds(invoices'[h], loyalty')
  BY <1>1, <1>2, EarnGrows DEF EarnInv
<1>4. Len(loyalty.log) \in Nat
  BY <1>2, LoyaltyFields
<1>5. \A h \in 1..Len(invoices) : invoices[h].earnEntry \in 0..Len(loyalty.log)
  BY DEF EarnInv, EarnHolds
<1>6. ASSUME NEW h \in 1..Len(invoices), NEW j \in 1..Len(invoices),
             invoices'[h].earnEntry = invoices'[j].earnEntry, invoices'[j].earnEntry # 0
      PROVE  h = j
  <2>1. CASE h # i /\ j # i
    BY <1>1, <1>6, <2>1 DEF EarnInv
  <2>2. CASE h = i \/ j = i
    <3>1. ASSUME NEW g \in 1..Len(invoices), g # i, invoices[g].earnEntry = x.earnEntry,
                 x.earnEntry # 0
          PROVE  FALSE
      <4>1. x.earnEntry \in 0..Len(loyalty.log)
        BY <1>5, <3>1
      <4>2. x.earnEntry = invoices[i].earnEntry
        BY <1>4, <3>1, <4>1
      <4> QED
        BY <3>1, <4>2 DEF EarnInv
    <3> QED
      BY <1>1, <1>6, <2>2, <3>1
  <2> QED
    BY <2>1, <2>2
<1> QED
  BY <1>1, <1>3, <1>6 DEF EarnInv

\* No invoice changes.
LEMMA EarnKept ==
    ASSUME BooksTyped, EarnInv, loyalty' \in LoyaltyState, LogGrows, UNCHANGED invoices
    PROVE  EarnInv'
<1>1. loyalty \in LoyaltyState
  BY DEF BooksTyped
<1>2. \A h \in 1..Len(invoices) : EarnHolds(invoices[h], loyalty')
  BY <1>1, EarnGrows DEF EarnInv
<1> QED
  BY <1>2 DEF EarnInv

LEMMA EarnAdds ==
    ASSUME BooksTyped, EarnInv, Adds
    PROVE  EarnInv'
<1>1. PICK j \in Intakes : invoices' = Append(invoices, NewInvoice(j))
  BY DEF Adds
<1> DEFINE n == Len(invoices)
<1>2. /\ Len(invoices') = n + 1 /\ n \in Nat
      /\ \A h \in 1..n : invoices'[h] = invoices[h]
      /\ invoices'[n + 1] = NewInvoice(j)
  BY <1>1, AddShape, Books
<1>3. /\ \A h \in 1..n : EarnHolds(invoices[h], loyalty)
      /\ \A h, i \in 1..n :
          invoices[h].earnEntry = invoices[i].earnEntry /\ invoices[i].earnEntry # 0 => h = i
  BY DEF EarnInv
<1>4. NewInvoice(j).earned = FALSE /\ NewInvoice(j).earnEntry = 0
  BY NewShape
<1>5. EarnHolds(NewInvoice(j), loyalty)
  <2>1. Len(loyalty.log) \in Nat
    BY Books, LoyaltyFields
  <2> QED
    BY <1>4, <2>1 DEF EarnHolds
<1> HIDE DEF n
<1>6. \A h \in 1..(n + 1) : h \in 1..n \/ h = n + 1
  BY <1>2
<1>7. \A h \in 1..(n + 1) : EarnHolds(invoices'[h], loyalty)
  BY <1>2, <1>3, <1>5, <1>6
<1>8. \A h, i \in 1..(n + 1) :
          invoices'[h].earnEntry = invoices'[i].earnEntry /\ invoices'[i].earnEntry # 0 => h = i
  BY <1>2, <1>3, <1>4, <1>6
<1>9. loyalty' = loyalty
  BY DEF Adds
<1> QED
  BY <1>2, <1>7, <1>8, <1>9 DEF EarnInv

\* An edit leaves the discount of a paid invoice alone.
LEMMA EarnEdits ==
    ASSUME BooksTyped, EarnInv, Edits
    PROVE  EarnInv'
<1>1. PICK i \in 1..Len(invoices), x \in InvoiceShape :
         Alters(invoices[i], x) /\ PutInvoice(i, x)
  BY DEF Edits
<1>2. loyalty' \in LoyaltyState /\ LogGrows
  <2>1. loyalty' = loyalty /\ loyalty \in LoyaltyState /\ Len(loyalty.log) \in Nat
    BY LoyaltyFields DEF Edits, BooksTyped
  <2> QED
    BY <2>1 DEF LogGrows
<1>3. EarnHolds(invoices[i], loyalty')
  BY DEF Edits, EarnInv
<1>4. EarnHolds(x, loyalty')
  <2>1. invoices[i].earned => invoices[i].paid # 0
    BY <1>3 DEF EarnHolds
  <2> QED
    BY <1>1, <1>3, <2>1, EarnSame DEF Alters
<1>5. x.earnEntry = invoices[i].earnEntry
  BY <1>1 DEF Alters
<1> QED
  BY <1>1, <1>2, <1>4, <1>5, EarnPut

-----------------------------------------------------------------------------
(* Rewards that pay for invoices *)

\* The reward inv was discounted with, and the entry that took its points: in use
\* while inv stands, given back once it is cancelled.
UseHolds(inv, l) ==
    /\ inv.reward \in 0..Len(l.rewards)
    /\ inv.reward # 0 <=> inv.source = "loyalty_reward"
    /\ inv.reward # 0 <=> inv.redeemEntry # 0
    /\ inv.reward # 0 =>
          /\ l.rewards[inv.reward].status = IF inv.cancelled THEN "reversed" ELSE "redeemed"
          /\ l.rewards[inv.reward].vehicle = Vehicle(inv)
          /\ inv.redeemEntry \in 1..Len(l.log)
          /\ l.log[inv.redeemEntry].type = "redeemed"
          /\ l.log[inv.redeemEntry].vehicle = Vehicle(inv)
          /\ l.log[inv.redeemEntry].points < 0
          /\ inv.redeemEntry \in l.undone <=> inv.cancelled

OwnReward == \A h, i \in 1..Len(invoices) :
    invoices[h].reward = invoices[i].reward /\ invoices[i].reward # 0 => h = i
OwnEntry == \A h, i \in 1..Len(invoices) :
    invoices[h].redeemEntry = invoices[i].redeemEntry /\ invoices[i].redeemEntry # 0 => h = i
AllUsed == \A w \in 1..Len(loyalty.rewards) :
    loyalty.rewards[w].status \in {"redeemed", "reversed"} =>
        \E i \in 1..Len(invoices) : invoices[i].reward = w
UseInv ==
    /\ \A i \in 1..Len(invoices) : UseHolds(invoices[i], loyalty)
    /\ OwnReward /\ OwnEntry /\ AllUsed

\* What an invoice says of its reward and entry stays true while both stay as they are.
LEMMA UseStays ==
    ASSUME loyalty \in LoyaltyState, NEW S, LogKept(S), NEW inv, UseHolds(inv, loyalty),
           Len(loyalty.rewards) <= Len(loyalty'.rewards),
           inv.reward # 0 =>
               /\ inv.redeemEntry \notin S
               /\ loyalty'.rewards[inv.reward] = loyalty.rewards[inv.reward]
    PROVE  UseHolds(inv, loyalty')
<1>1. /\ loyalty' \in LoyaltyState /\ LogGrows
      /\ loyalty'.undone = loyalty.undone \cup S
  BY DEF LogKept
<1>2. /\ Len(loyalty.log) \in Nat /\ Len(loyalty'.log) \in Nat
      /\ Len(loyalty.rewards) \in Nat /\ Len(loyalty'.rewards) \in Nat
  BY <1>1, LoyaltyFields, LenProperties
<1>3. inv.reward \in 0..Len(loyalty'.rewards)
  BY <1>2 DEF UseHolds
<1>4. ASSUME inv.reward # 0
      PROVE  /\ inv.redeemEntry \in 1..Len(loyalty'.log)
             /\ loyalty'.log[inv.redeemEntry] = loyalty.log[inv.redeemEntry]
             /\ inv.redeemEntry \in loyalty'.undone <=> inv.redeemEntry \in loyalty.undone
  <2>1. inv.redeemEntry \in 1..Len(loyalty.log)
    BY <1>4 DEF UseHolds
  <2> QED
    BY <1>1, <1>2, <1>4, <2>1 DEF LogGrows
<1> QED
  BY <1>3, <1>4 DEF UseHolds

\* Unlocking and revoking makes no reward look used.
LEMMA UsedBefore ==
    ASSUME NEW before \in Seq(Reward), NEW after \in Seq(Reward), NEW v,
           RewardsGrow(before, after, v), NEW w \in 1..Len(after),
           after[w].status \in {"redeemed", "reversed"}
    PROVE  w \in 1..Len(before) /\ after[w] = before[w]
<1>1. Len(before) \in Nat /\ Len(after) \in Nat
  BY LenProperties
<1>2. CASE w \in 1..Len(before)
  <2>1. before[w] \in Reward
    BY <1>2, ElementOfSeq
  <2>2. before[w].status \in {"available", "redeemed", "reversed", "revoked"}
    BY <2>1 DEF Reward
  <2>3. /\ before[w].status # "available" => after[w] = before[w]
        /\ before[w].status = "available" => after[w].status \in {"available", "revoked"}
    BY <1>2 DEF RewardsGrow
  <2> QED
    BY <1>2, <2>2, <2>3
<1>3. CASE w \notin 1..Len(before)
  <2>1. w \in (Len(before) + 1)..Len(after)
    BY <1>1, <1>3
  <2>2. after[w].status = "available"
    BY <2>1 DEF RewardsGrow, NewReward
  <2> QED
    BY <2>2
<1> QED
  BY <1>2, <1>3

\* A quiet step does not touch the reward of an invoice, nor its entry.
LEMMA UseGrows ==
    ASSUME loyalty \in LoyaltyState, Quiet, NEW inv, UseHolds(inv, loyalty)
    PROVE  UseHolds(inv, loyalty')
<1>1. PICK v, S : /\ LogKept(S)
                  /\ \A e \in S : loyalty.log[e].type # "redeemed"
                  /\ RewardsGrow(loyalty.rewards, loyalty'.rewards, v)
  BY DEF Quiet
<1>2. /\ loyalty' \in LoyaltyState /\ LogGrows
      /\ loyalty'.undone = loyalty.undone \cup S
  BY <1>1 DEF LogKept
<1>3. /\ Len(loyalty.log) \in Nat /\ Len(loyalty'.log) \in Nat
      /\ Len(loyalty.rewards) \in Nat /\ Len(loyalty'.rewards) \in Nat
  BY <1>2, LoyaltyFields, LenProperties
<1>4. Len(loyalty.rewards) <= Len(loyalty'.rewards)
  BY <1>1, <1>3 DEF RewardsGrow
<1>5. ASSUME inv.reward # 0
      PROVE  /\ inv.redeemEntry \notin S
             /\ loyalty'.rewards[inv.reward] = loyalty.rewards[inv.reward]
  <2>1. /\ inv.reward \in 1..Len(loyalty.rewards)
        /\ loyalty.rewards[inv.reward].status # "available"
    BY <1>3, <1>5 DEF UseHolds
  <2>2. loyalty.log[inv.redeemEntry].type = "redeemed"
    BY <1>5 DEF UseHolds
  <2> QED
    BY <1>1, <2>1, <2>2 DEF RewardsGrow
<1> QED
  BY <1>1, <1>4, <1>5, UseStays

\* Every reward in use was in use before a quiet step.
LEMMA UsedGrows ==
    ASSUME loyalty \in LoyaltyState, Quiet, NEW w \in 1..Len(loyalty'.rewards),
           loyalty'.rewards[w].status \in {"redeemed", "reversed"}
    PROVE  /\ w \in 1..Len(loyalty.rewards)
           /\ loyalty.rewards[w].status \in {"redeemed", "reversed"}
<1>1. PICK v, S : LogKept(S) /\ RewardsGrow(loyalty.rewards, loyalty'.rewards, v)
  BY DEF Quiet
<1>2. loyalty.rewards \in Seq(Reward) /\ loyalty'.rewards \in Seq(Reward)
  BY <1>1, LoyaltyFields DEF LogKept
<1>3. w \in 1..Len(loyalty.rewards) /\ loyalty'.rewards[w] = loyalty.rewards[w]
  BY <1>1, <1>2, UsedBefore
<1> QED
  BY <1>3

\* Invoices keep their rewards and entries.
LEMMA UsePut ==
    ASSUME BooksTyped, UseInv, Quiet, NEW i \in 1..Len(invoices), NEW x \in InvoiceShape,
           PutInvoice(i, x), x.reward = invoices[i].reward,
           x.redeemEntry = invoices[i].redeemEntry, UseHolds(x, loyalty')
    PROVE  UseInv'
<1>1. /\ Len(invoices') = Len(invoices)
      /\ \A h \in 1..Len(invoices) : invoices'[h] = IF h = i THEN x ELSE invoices[h]
  BY PutShape
<1>2. loyalty \in LoyaltyState
  BY DEF BooksTyped
<1>3. \A h \in 1..Len(invoices) : /\ invoices'[h].reward = invoices[h].reward
                                  /\ invoices'[h].redeemEntry = invoices[h].redeemEntry
  BY <1>1
<1>4. \A h \in 1..Len(invoices) : UseHolds(invoices'[h], loyalty')
  BY <1>1, <1>2, UseGrows DEF UseInv
<1>5. OwnReward'
  BY <1>1, <1>3 DEF UseInv, OwnReward
<1>6. OwnEntry'
  BY <1>1, <1>3 DEF UseInv, OwnEntry
<1>7. AllUsed'
  BY <1>1, <1>2, <1>3, UsedGrows DEF UseInv, AllUsed
<1> QED
  BY <1>1, <1>4, <1>5, <1>6, <1>7 DEF UseInv

LEMMA UseKept ==
    ASSUME BooksTyped, UseInv, Quiet, UNCHANGED invoices
    PROVE  UseInv'
<1>1. loyalty \in LoyaltyState
  BY DEF BooksTyped
<1>2. \A h \in 1..Len(invoices) : UseHolds(invoices[h], loyalty')
  BY <1>1, UseGrows DEF UseInv
<1>3. AllUsed'
  BY <1>1, UsedGrows DEF UseInv, AllUsed
<1> QED
  BY <1>2, <1>3 DEF UseInv, OwnReward, OwnEntry

LEMMA UseAdds ==
    ASSUME BooksTyped, UseInv, Adds
    PROVE  UseInv'
<1>1. PICK j \in Intakes : invoices' = Append(invoices, NewInvoice(j))
  BY DEF Adds
<1> DEFINE n == Len(invoices)
<1>2. /\ Len(invoices') = n + 1 /\ n \in Nat
      /\ \A h \in 1..n : invoices'[h] = invoices[h]
      /\ invoices'[n + 1] = NewInvoice(j)
  BY <1>1, AddShape, Books
<1>3. /\ NewInvoice(j).reward = 0 /\ NewInvoice(j).redeemEntry = 0
      /\ NewInvoice(j).source = "none"
  BY NewShape
<1>4. UseHolds(NewInvoice(j), loyalty)
  <2>1. Len(loyalty.rewards) \in Nat
    BY Books, LoyaltyFields, LenProperties
  <2> QED
    BY <1>3, <2>1 DEF UseHolds
<1>5. \A h \in 1..n : UseHolds(invoices[h], loyalty)
  BY DEF UseInv
<1>6. \A h \in 1..(n + 1) : h \in 1..n \/ h = n + 1
  BY <1>2
<1>7. loyalty' = loyalty /\ n = Len(invoices)
  BY DEF Adds
<1> HIDE DEF n
<1>8. \A h \in 1..(n + 1) : UseHolds(invoices'[h], loyalty)
  BY <1>2, <1>4, <1>5, <1>6
<1>9. OwnReward'
  BY <1>2, <1>3, <1>6, <1>7 DEF UseInv, OwnReward
<1>10. OwnEntry'
  BY <1>2, <1>3, <1>6, <1>7 DEF UseInv, OwnEntry
<1>11. AllUsed'
  <2>1. \A h \in 1..n : h \in 1..(n + 1) /\ invoices'[h].reward = invoices[h].reward
    BY <1>2
  <2> QED
    BY <1>2, <1>7, <2>1 DEF UseInv, AllUsed
<1> QED
  BY <1>2, <1>7, <1>8, <1>9, <1>10, <1>11 DEF UseInv

LEMMA UseSame ==
    ASSUME NEW inv, NEW x, NEW l, UseHolds(inv, l), x.intake = inv.intake,
           x.reward = inv.reward, x.redeemEntry = inv.redeemEntry,
           x.source = "loyalty_reward" <=> inv.source = "loyalty_reward",
           inv.reward # 0 => x.cancelled = inv.cancelled
    PROVE  UseHolds(x, l)
BY DEF UseHolds, Vehicle

-----------------------------------------------------------------------------
(* What each of the nine does to points and rewards *)

BooksInv == PaperInv /\ LogInv /\ FollowInv /\ EarnInv /\ UseInv

\* The points and the log stay, or one line is written that moves the points.
CardMoves ==
    \/ loyalty'.points = loyalty.points /\ loyalty'.log = loyalty.log
    \/ \E v \in Vehicles, type \in LogTypes, p \in Int \ {0}, o \in Nat :
          Logs(loyalty, loyalty', v, type, p, o)

PointsKept == /\ loyalty' \in LoyaltyState /\ LogInv' /\ FollowInv' /\ EarnInv' /\ UseInv'
              /\ CardMoves

LEMMA QuietLog == Quiet => loyalty' \in LoyaltyState /\ LogInv' /\ LogGrows
BY DEF Quiet, LogKept

\* Entry and payment are written before the invoice is: Applied without undoing.
LEMMA AppliedWrites ==
    ASSUME BooksInv, NEW v \in Vehicles, NEW type \in LogTypes, NEW p \in Int \ {0},
           loyalty.points[v] + p >= 0, loyalty' = Applied(loyalty, v, type, p, 0)
    PROVE  /\ Quiet /\ FollowInv' /\ CardMoves
           /\ Len(loyalty'.log) = Len(loyalty.log) + 1
           /\ loyalty'.log[Len(loyalty.log) + 1] = LogLine(v, type, p, 0)
<1>1. loyalty \in LoyaltyState /\ LogInv /\ FollowInv
  BY DEF BooksInv, PaperInv, BooksTyped
<1>2. /\ loyalty' \in LoyaltyState
      /\ loyalty'.log = Append(loyalty.log, LogLine(v, type, p, 0))
      /\ loyalty'.points = [loyalty.points EXCEPT ![v] = loyalty.points[v] + p]
      /\ loyalty'.undone = loyalty.undone
      /\ loyalty'.rewards = RewardsAt(loyalty.rewards, v, loyalty.points[v] + p)
  BY <1>1, AppliedShape
<1>3. Logs(loyalty, loyalty', v, type, p, 0)
  BY <1>2 DEF Logs
<1> QED
  BY <1>1, <1>2, <1>3, LoyaltyWritten DEF CardMoves

\* The same for an entry that undoes another, which is no redemption.
LEMMA UndoingWrites ==
    ASSUME BooksInv, NEW o \in 1..Len(loyalty.log), o \notin loyalty.undone,
           loyalty.log[o].type # "redeemed", NEW p \in Int \ {0},
           loyalty.points[loyalty.log[o].vehicle] + p >= 0,
           loyalty' = [Applied(loyalty, loyalty.log[o].vehicle, "reversal", p, o)
                         EXCEPT !.undone = @ \cup {o}]
    PROVE  Quiet /\ FollowInv' /\ CardMoves
<1> DEFINE v == loyalty.log[o].vehicle
<1>1. loyalty \in LoyaltyState /\ LogInv /\ FollowInv
  BY DEF BooksInv, PaperInv, BooksTyped
<1>2. v \in Vehicles /\ o \in Nat
  BY <1>1, LoyaltyFields DEF LoyaltyEntry
<1>3. /\ loyalty' \in LoyaltyState
      /\ Logs(loyalty, loyalty', v, "reversal", p, o)
      /\ loyalty'.rewards = RewardsAt(loyalty.rewards, v, loyalty.points[v] + p)
  BY <1>1, UndoingShape
<1> HIDE DEF v
<1>4. Quiet /\ FollowInv'
  BY <1>1, <1>2, <1>3, LoyaltyWritten
<1>5. "reversal" \in LogTypes
  BY DEF LogTypes
<1> QED
  BY <1>2, <1>3, <1>4, <1>5 DEF CardMoves

LEMMA PointsRest == BooksInv /\ (Rests \/ Adds) => PointsKept
<1> SUFFICES ASSUME BooksInv, Rests \/ Adds PROVE PointsKept
  OBVIOUS
<1>1. loyalty' = loyalty /\ BooksTyped /\ loyalty \in LoyaltyState
  BY DEF Rests, Adds, BooksInv, PaperInv, BooksTyped
<1>2. Quiet /\ FollowInv'
  BY <1>1, LoyaltyUnchanged DEF BooksInv
<1>3. EarnInv'
  BY <1>1, <1>2, QuietLog, EarnKept, EarnAdds DEF BooksInv, Rests
<1>4. UseInv'
  BY <1>1, <1>2, UseKept, UseAdds DEF BooksInv, Rests
<1> QED
  BY <1>1, <1>2, <1>3, <1>4, QuietLog DEF PointsKept, CardMoves

LEMMA PointsEdits == BooksInv /\ Edits => PointsKept
<1> SUFFICES ASSUME BooksInv, Edits PROVE PointsKept
  OBVIOUS
<1>1. loyalty' = loyalty /\ BooksTyped /\ loyalty \in LoyaltyState
  BY DEF Edits, BooksInv, PaperInv, BooksTyped
<1>2. Quiet /\ FollowInv'
  BY <1>1, LoyaltyUnchanged DEF BooksInv
<1>3. EarnInv'
  BY <1>1, EarnEdits DEF BooksInv
<1>4. PICK i \in 1..Len(invoices), x \in InvoiceShape :
         Alters(invoices[i], x) /\ PutInvoice(i, x)
  BY DEF Edits
<1>5. UseHolds(invoices[i], loyalty')
  BY <1>1 DEF BooksInv, UseInv
<1>6. UseHolds(x, loyalty')
  BY <1>4, <1>5, UseSame DEF Alters
<1>7. UseInv'
  BY <1>1, <1>2, <1>4, <1>6, UsePut DEF BooksInv, Alters
<1> QED
  BY <1>1, <1>2, <1>3, <1>7, QuietLog DEF PointsKept, CardMoves

LEMMA PointsCorrects == BooksInv /\ Corrects => PointsKept
<1> SUFFICES ASSUME BooksInv, Corrects PROVE PointsKept
  OBVIOUS
<1>1. PICK v \in Vehicles, p \in Int \ {0} :
          /\ loyalty.points[v] + p >= 0
          /\ loyalty' = Applied(loyalty, v, "adjustment", p, 0)
  BY DEF Corrects
<1>2. Quiet /\ FollowInv' /\ CardMoves
  BY <1>1, AppliedWrites DEF LogTypes
<1>3. BooksTyped /\ UNCHANGED invoices
  BY DEF BooksInv, PaperInv, Corrects
<1> QED
  BY <1>2, <1>3, QuietLog, EarnKept, UseKept DEF PointsKept, BooksInv

LEMMA PointsUndoes == BooksInv /\ Undoes => PointsKept
<1> SUFFICES ASSUME BooksInv, Undoes PROVE PointsKept
  OBVIOUS
<1>1. PICK e \in 1..Len(loyalty.log) :
          /\ ReversibleByHand(e)
          /\ loyalty.points[loyalty.log[e].vehicle] + (-loyalty.log[e].points) >= 0
          /\ loyalty' = Undone(loyalty, e)
  BY DEF Undoes
<1>2. loyalty \in LoyaltyState /\ loyalty.log[e] \in LoyaltyEntry
  BY LoyaltyFields DEF BooksInv, PaperInv, BooksTyped
<1>3. -loyalty.log[e].points \in Int \ {0}
  BY <1>2 DEF LoyaltyEntry
<1>4. loyalty.log[e].type # "redeemed" /\ e \notin loyalty.undone
  BY <1>1 DEF ReversibleByHand
<1>5. Quiet /\ FollowInv' /\ CardMoves
  <2> DEFINE p == -loyalty.log[e].points
  <2>1. loyalty' = [Applied(loyalty, loyalty.log[e].vehicle, "reversal", p, e)
                      EXCEPT !.undone = @ \cup {e}]
    BY <1>1 DEF Undone
  <2>2. p \in Int \ {0} /\ loyalty.points[loyalty.log[e].vehicle] + p >= 0
    BY <1>1, <1>3
  <2> HIDE DEF p
  <2> QED
    BY <1>4, <2>1, <2>2, UndoingWrites
<1>6. BooksTyped /\ UNCHANGED invoices
  BY DEF BooksInv, PaperInv, Undoes
<1> QED
  BY <1>5, <1>6, QuietLog, EarnKept, UseKept DEF PointsKept, BooksInv

\* The payment that pays the rest earns the points; one before it earns none.
LEMMA PointsPays == BooksInv /\ Pays => PointsKept
<1> SUFFICES ASSUME BooksInv, Pays PROVE PointsKept
  OBVIOUS
<1>1. PICK i \in 1..Len(invoices), n \in Amount :
         /\ Collectable(invoices[i], n)
         /\ PutInvoice(i, AfterPaying(invoices[i], n, Earns(invoices[i], n),
                                      Len(loyalty.log) + 1))
         /\ loyalty' = IF Earns(invoices[i], n)
                       THEN Applied(loyalty, Vehicle(invoices[i]), "earned",
                                    PointsFor(invoices[i]), 0)
                       ELSE loyalty
  BY DEF Pays
<1> DEFINE inv == invoices[i]
           earns == Earns(inv, n)
           e == Len(loyalty.log) + 1
           x == AfterPaying(inv, n, earns, e)
<1>2. BooksTyped /\ loyalty \in LoyaltyState /\ Len(loyalty.log) \in Nat
  BY LoyaltyFields DEF BooksInv, PaperInv, BooksTyped
<1>3. inv \in InvoiceShape /\ AmountsHold(inv) /\ EarnHolds(inv, loyalty) /\ UseHolds(inv, loyalty)
  BY <1>2, Books DEF BooksInv, PaperInv, AmountsInv, EarnInv, UseInv
<1>4. earns \in BOOLEAN /\ e \in Nat
  BY <1>2 DEF Earns
<1>5. PutInvoice(i, x)
  BY <1>1
<1>6. /\ SubtotalOf(inv) \in Nat /\ Vehicle(inv) \in Vehicles /\ PointsFor(inv) \in Nat
      /\ inv.discount \in Nat /\ inv.paid \in Nat /\ n \in Nat /\ n > 0
  BY <1>3, SubtotalNat DEF InvoiceShape, AmountsHold, Amount
<1>7. n <= Outstanding(inv) /\ ~inv.cancelled
  BY <1>1 DEF Collectable
<1>8. inv.earned = FALSE /\ inv.earnEntry = 0
  BY <1>3, <1>6, <1>7 DEF EarnHolds, InvoiceShape
<1>9. earns => n = Outstanding(inv) /\ PointsFor(inv) > 0
  BY DEF Earns
<1>10. loyalty' = IF earns THEN Applied(loyalty, Vehicle(inv), "earned", PointsFor(inv), 0)
                  ELSE loyalty
  BY <1>1
<1> HIDE DEF earns, e, inv
<1>11. /\ x \in InvoiceShape
       /\ x.intake = inv.intake /\ x.paid = inv.paid + n /\ x.discount = inv.discount
       /\ x.cancelled = inv.cancelled /\ x.source = inv.source
       /\ x.earned = (inv.earned \/ earns)
       /\ x.earnEntry = (IF earns THEN e ELSE inv.earnEntry)
       /\ x.reward = inv.reward /\ x.redeemEntry = inv.redeemEntry
  BY <1>3, <1>4, PayingShape
<1> HIDE DEF x
<1>12. UseHolds(x, loyalty)
  BY <1>3, <1>11, UseSame
<1>13. CASE earns
  <2>1. PointsFor(inv) \in Int \ {0} /\ "earned" \in LogTypes
    BY <1>6, <1>9, <1>13 DEF LogTypes
  <2>2. loyalty.points[Vehicle(inv)] + PointsFor(inv) >= 0
    BY <1>2, <1>6, LoyaltyFields
  <2>3. /\ Quiet /\ FollowInv' /\ CardMoves
        /\ Len(loyalty'.log) = e
        /\ loyalty'.log[e] = LogLine(Vehicle(inv), "earned", PointsFor(inv), 0)
    BY <1>6, <1>10, <1>13, <2>1, <2>2, AppliedWrites DEF e
  <2>4. loyalty' \in LoyaltyState /\ LogInv' /\ LogGrows
    BY <2>3, QuietLog
  <2>5. EarnHolds(x, loyalty')
    <3>1. x.earned = TRUE /\ x.earnEntry = e /\ e # 0 /\ e \in 0..Len(loyalty'.log)
      <4>1. e \in Nat /\ e # 0
        BY <1>2 DEF e
      <4>2. e \in 0..Len(loyalty'.log)
        BY <2>3, <4>1
      <4>3. x.earned = TRUE
        BY <1>11, <1>13, Zenon
      <4>4. x.earnEntry = e
        BY <1>11, <1>13
      <4> QED
        BY <4>1, <4>2, <4>3, <4>4
    <3>2. /\ SubtotalOf(x) = SubtotalOf(inv) /\ Vehicle(x) = Vehicle(inv)
          /\ PointsFor(x) = PointsFor(inv)
      BY <1>11 DEF SubtotalOf, Vehicle, PointsFor
    <3>3. Outstanding(x) = 0 /\ x.paid > 0
      BY <1>6, <1>9, <1>11, <1>13, <3>2 DEF Outstanding, TotalOf
    <3>4. /\ loyalty'.log[e].type = "earned" /\ loyalty'.log[e].vehicle = Vehicle(inv)
          /\ loyalty'.log[e].points = PointsFor(inv)
      BY <2>3 DEF LogLine
    <3> QED
      BY <1>9, <1>13, <3>1, <3>2, <3>3, <3>4 DEF EarnHolds
  <2>6. x.earnEntry > Len(loyalty.log)
    BY <1>2, <1>11, <1>13 DEF e
  <2>7. EarnInv'
    BY <1>2, <1>5, <1>11, <2>4, <2>5, <2>6, EarnPut DEF BooksInv
  <2>8. UseHolds(x, loyalty')
    BY <1>2, <1>12, <2>3, UseGrows
  <2>9. UseInv'
    BY <1>2, <1>5, <1>11, <2>3, <2>8, UsePut DEF BooksInv, inv
  <2> QED
    BY <2>3, <2>4, <2>7, <2>9 DEF PointsKept
<1>14. CASE ~earns
  <2>1. UNCHANGED loyalty
    BY <1>10, <1>14
  <2>2. Quiet /\ FollowInv'
    BY <1>2, <2>1, LoyaltyUnchanged DEF BooksInv
  <2>3. loyalty' \in LoyaltyState /\ LogInv' /\ LogGrows
    BY <2>2, QuietLog
  <2>4. x.earned = FALSE /\ x.earnEntry = 0
    BY <1>8, <1>11, <1>14
  <2>5. EarnHolds(x, loyalty')
    BY <1>2, <2>1, <2>4 DEF EarnHolds
  <2>6. EarnInv'
    BY <1>2, <1>5, <1>11, <2>3, <2>4, <2>5, EarnPut DEF BooksInv
  <2>7. UseInv'
    BY <1>2, <1>5, <1>11, <1>12, <2>1, <2>2, UsePut DEF BooksInv, inv
  <2> QED
    BY <2>1, <2>2, <2>3, <2>6, <2>7 DEF PointsKept, CardMoves
<1> QED
  BY <1>13, <1>14

\* A payment that is reversed takes the points with it, as far as they are there.
LEMMA PointsUnpays == BooksInv /\ Unpays => PointsKept
<1> SUFFICES ASSUME BooksInv, Unpays PROVE PointsKept
  OBVIOUS
<1>1. PICK k \in 1..Len(payments) :
         /\ PutInvoice(payments[k].invoice,
                       WithoutPayment(invoices[payments[k].invoice], payments[k].amount))
         /\ loyalty' = LoyaltyWithout(invoices[payments[k].invoice])
  BY DEF Unpays
<1> DEFINE i == payments[k].invoice
           n == payments[k].amount
           inv == invoices[i]
           x == WithoutPayment(inv, n)
<1>2. /\ BooksTyped /\ loyalty \in LoyaltyState /\ Len(loyalty.log) \in Nat
      /\ LogInv /\ FollowInv
  BY LoyaltyFields DEF BooksInv, PaperInv, BooksTyped
<1>3. payments[k] \in Payment /\ i \in 1..Len(invoices)
  BY <1>2, Books DEF BooksTyped
<1>4. n \in Amount
  BY <1>3 DEF Payment
<1>5. inv \in InvoiceShape /\ EarnHolds(inv, loyalty) /\ UseHolds(inv, loyalty)
  BY <1>2, <1>3, Books DEF BooksInv, EarnInv, UseInv
<1>6. PutInvoice(i, x) /\ loyalty' = LoyaltyWithout(inv)
  BY <1>1
<1> HIDE DEF i, n, inv
<1>7. /\ x \in InvoiceShape
      /\ x.intake = inv.intake
      /\ x.cancelled = inv.cancelled /\ x.source = inv.source
      /\ x.earned = FALSE /\ x.earnEntry = 0
      /\ x.reward = inv.reward /\ x.redeemEntry = inv.redeemEntry
  BY <1>4, <1>5, UnpayingShape
<1> HIDE DEF x
<1>8. Quiet /\ FollowInv' /\ CardMoves
  <2> DEFINE e == inv.earnEntry
             v == loyalty.log[e].vehicle
  <2>1. CASE loyalty' = loyalty
    BY <1>2, <2>1, LoyaltyUnchanged DEF CardMoves
  <2>2. CASE inv.earned
    <3>1. loyalty' = TakenBack(loyalty, e)
      BY <1>6, <2>2 DEF LoyaltyWithout
    <3>2. /\ e \in 1..Len(loyalty.log) /\ loyalty.log[e].type # "redeemed"
      BY <1>2, <1>5, <2>2 DEF EarnHolds
    <3>3. loyalty.log[e].points > 0
      BY <1>5, <2>2 DEF EarnHolds
    <3> HIDE DEF e
    <3>4. \/ loyalty' = loyalty
          \/ e \notin loyalty.undone /\ loyalty' = [loyalty EXCEPT !.undone = @ \cup {e}]
          \/ \E p \in Int \ {0} :
                /\ e \notin loyalty.undone /\ loyalty.points[v] + p >= 0
                /\ loyalty' = [Applied(loyalty, v, "reversal", p, e) EXCEPT !.undone = @ \cup {e}]
      BY <1>2, <3>1, <3>2, <3>3, TakenBackShape
    <3>5. CASE loyalty' = [loyalty EXCEPT !.undone = @ \cup {e}]
      <4>1. Quiet /\ FollowInv'
        BY <1>2, <3>2, <3>5, LoyaltyMarked
      <4>2. loyalty'.points = loyalty.points /\ loyalty'.log = loyalty.log
        BY <1>2, <3>5 DEF LoyaltyState
      <4> QED
        BY <4>1, <4>2 DEF CardMoves
    <3>6. ASSUME NEW p \in Int \ {0}, e \notin loyalty.undone, loyalty.points[v] + p >= 0,
                 loyalty' = [Applied(loyalty, v, "reversal", p, e) EXCEPT !.undone = @ \cup {e}]
          PROVE  Quiet /\ FollowInv' /\ CardMoves
      BY <3>2, <3>6, UndoingWrites
    <3> QED
      BY <2>1, <3>4, <3>5, <3>6
  <2>3. CASE ~inv.earned
    BY <1>6, <2>1, <2>3 DEF LoyaltyWithout
  <2> QED
    BY <2>2, <2>3
<1>9. loyalty' \in LoyaltyState /\ LogInv' /\ LogGrows
  BY <1>8, QuietLog
<1>10. EarnHolds(x, loyalty')
  BY <1>7, <1>9, LoyaltyFields DEF EarnHolds
<1>11. EarnInv'
  BY <1>2, <1>3, <1>6, <1>7, <1>9, <1>10, EarnPut DEF BooksInv
<1>12. UseHolds(x, loyalty)
  BY <1>5, <1>7, UseSame
<1>13. UseHolds(x, loyalty')
  BY <1>2, <1>8, <1>12, UseGrows
<1>14. UseInv'
  BY <1>2, <1>3, <1>6, <1>7, <1>8, <1>13, UsePut DEF BooksInv, inv
<1> QED
  BY <1>8, <1>9, <1>11, <1>14 DEF PointsKept

\* What Redeemed does, for a reward of v that may be used.
LEMMA RedeemedShape ==
    ASSUME loyalty \in LoyaltyState, LogInv, FollowInv, NEW v \in Vehicles, NEW i \in Nat,
           NEW w \in Available(loyalty.rewards, v),
           loyalty.points[v] >= loyalty.rewards[w].cost, loyalty' = Redeemed(loyalty, w, i)
    PROVE  /\ LogKept({}) /\ FollowInv'
           /\ \E p \in Int \ {0} : /\ p < 0
                                   /\ Logs(loyalty, loyalty', v, "redeemed", p, 0)
           /\ \E used \in Seq(Reward) :
                 /\ Len(used) = Len(loyalty.rewards)
                 /\ used[w].status = "redeemed" /\ used[w].vehicle = v
                 /\ \A x \in 1..Len(used) : x # w => used[x] = loyalty.rewards[x]
                 /\ RewardsGrow(used, loyalty'.rewards, v)
<1> DEFINE rewards == loyalty.rewards
           r == [rewards[w] EXCEPT !.status = "redeemed", !.invoice = i]
           used == [rewards EXCEPT ![w] = r]
           spent == [loyalty EXCEPT !.rewards = used]
           p == -rewards[w].cost
           balance == loyalty.points[v] + p
<1>1. /\ rewards \in Seq(Reward) /\ w \in 1..Len(rewards) /\ rewards[w] \in Reward
      /\ rewards[w].vehicle = v /\ rewards[w].status = "available"
      /\ loyalty.points \in [Vehicles -> Nat]
  BY LoyaltyFields, RewardFields
<1>2. rewards[w].cost = RewardCost /\ RewardCost \in Nat \ {0}
  BY <1>1, LoyaltyConfig DEF FollowInv, Followed, Priced
<1>3. p \in Int \ {0} /\ p < 0 /\ balance \in Nat
  BY <1>1, <1>2
<1>4. /\ r \in Reward /\ r.vehicle = rewards[w].vehicle /\ r.cost = rewards[w].cost
      /\ r.status = "redeemed"
  BY <1>1 DEF Reward
<1> HIDE DEF r
<1>5. /\ used \in Seq(Reward) /\ Len(used) = Len(rewards)
      /\ \A x \in 1..Len(rewards) : used[x] = IF x = w THEN r ELSE rewards[x]
      /\ Priced(rewards) => Priced(used)
      /\ \A u : Available(used, u) = Available(rewards, u) \ {w}
      /\ \A u, b : w \notin Available(rewards, u) /\ FollowsAt(rewards, u, b)
                      => FollowsAt(used, u, b)
  BY <1>1, <1>4, RewardMarked
<1> HIDE DEF used
<1>6. /\ spent \in LoyaltyState /\ spent.rewards = used
      /\ spent.points = loyalty.points /\ spent.log = loyalty.log
      /\ spent.undone = loyalty.undone
  BY <1>5 DEF LoyaltyState
<1>7. loyalty' = Applied(spent, v, "redeemed", p, 0)
  <2>1. spent = [loyalty EXCEPT !.rewards[w].status = "redeemed", !.rewards[w].invoice = i]
    BY <1>1 DEF used, r, LoyaltyState
  <2> HIDE DEF spent
  <2> QED
    BY <1>1, <2>1 DEF Redeemed
<1> HIDE DEF spent, p, balance
<1>8. /\ loyalty' \in LoyaltyState
      /\ loyalty'.log = Append(loyalty.log, LogLine(v, "redeemed", p, 0))
      /\ loyalty'.points = [loyalty.points EXCEPT ![v] = loyalty.points[v] + p]
      /\ loyalty'.undone = loyalty.undone
      /\ loyalty'.rewards = RewardsAt(used, v, loyalty.points[v] + p)
  <2>1. "redeemed" \in LogTypes
    BY DEF LogTypes
  <2>2. spent.points[v] + p >= 0
    BY <1>3, <1>6 DEF balance
  <2> QED
    BY <1>3, <1>6, <1>7, <2>1, <2>2, AppliedShape
<1>9. Logs(loyalty, loyalty', v, "redeemed", p, 0)
  BY <1>3, <1>8 DEF Logs, balance
<1>10. LogKept({})
  BY <1>8, <1>9, LogWritten
<1>11. RewardsGrow(used, loyalty'.rewards, v)
  BY <1>3, <1>5, <1>8, RewardsAtGrow DEF balance
<1>12. FollowInv'
  <2>1. Priced(used)
    BY <1>5 DEF FollowInv, Followed
  <2>2. RewardCost <= RewardThreshold =>
          /\ \A x, y \in Available(used, v) : x = y
          /\ \A u \in Vehicles \ {v} : FollowsAt(used, u, loyalty.points[u])
    <3>1. SUFFICES ASSUME RewardCost <= RewardThreshold
                   PROVE  /\ \A x, y \in Available(used, v) : x = y
                          /\ \A u \in Vehicles \ {v} : FollowsAt(used, u, loyalty.points[u])
      OBVIOUS
    <3>2. \A u \in Vehicles : FollowsAt(rewards, u, loyalty.points[u])
      BY <3>1 DEF FollowInv, Followed
    <3>3. \A x, y \in Available(used, v) : x = y
      BY <1>5, <3>2 DEF FollowsAt
    <3>4. \A u \in Vehicles \ {v} : w \notin Available(rewards, u)
      BY <1>1 DEF Available
    <3> QED
      BY <1>5, <3>2, <3>3, <3>4
  <2>3. Followed(RewardsAt(used, v, balance), [loyalty.points EXCEPT ![v] = balance])
    BY <1>1, <1>3, <1>5, <2>1, <2>2, FollowApplied
  <2> QED
    BY <1>8, <2>3 DEF FollowInv, balance
<1> QED
  BY <1>1, <1>3, <1>4, <1>5, <1>9, <1>10, <1>11, <1>12

\* An invoice that is discounted with a reward uses one that was there to use.
LEMMA PointsSpends == BooksInv /\ Spends => PointsKept
<1> SUFFICES ASSUME BooksInv, Spends PROVE PointsKept
  OBVIOUS
<1>1. PICK i \in 1..Len(invoices), w \in 1..Len(loyalty.rewards) :
         /\ Discountable(invoices[i])
         /\ w \in Available(loyalty.rewards, Vehicle(invoices[i]))
         /\ loyalty.points[Vehicle(invoices[i])] >= loyalty.rewards[w].cost
         /\ PutInvoice(i, WithReward(invoices[i],
                              PercentOf(SubtotalOf(invoices[i]), RewardPercent),
                              w, Len(loyalty.log) + 1))
         /\ loyalty' = Redeemed(loyalty, w, i)
  BY DEF Spends
<1> DEFINE inv == invoices[i]
           v == Vehicle(inv)
           amount == PercentOf(SubtotalOf(inv), RewardPercent)
           e == Len(loyalty.log) + 1
           x == WithReward(inv, amount, w, e)
<1>2. /\ BooksTyped /\ loyalty \in LoyaltyState /\ Len(loyalty.log) \in Nat
      /\ LogInv /\ FollowInv /\ loyalty.rewards \in Seq(Reward)
      /\ Len(loyalty.rewards) \in Nat
  BY LoyaltyFields, LenProperties DEF BooksInv, PaperInv, BooksTyped
<1>3. inv \in InvoiceShape /\ EarnHolds(inv, loyalty) /\ UseHolds(inv, loyalty)
  BY <1>2, Books DEF BooksInv, EarnInv, UseInv
<1>4. v \in Vehicles /\ amount \in Nat /\ e \in Nat /\ i \in Nat
  <2>1. v \in Vehicles /\ SubtotalOf(inv) \in Nat
    BY <1>3, SubtotalNat
  <2>2. amount \in Nat
    BY <2>1, PercentBounds
  <2>3. i \in Nat
    BY <1>2, Books
  <2> QED
    BY <1>2, <2>1, <2>2, <2>3
<1>5. /\ PutInvoice(i, x) /\ loyalty' = Redeemed(loyalty, w, i)
      /\ w \in Available(loyalty.rewards, v) /\ loyalty.points[v] >= loyalty.rewards[w].cost
  BY <1>1
<1>6. ~inv.cancelled /\ inv.source = "none" /\ inv.paid = 0
  BY <1>1 DEF Discountable
<1>7. inv.earned = FALSE /\ inv.earnEntry = 0 /\ inv.reward = 0 /\ inv.redeemEntry = 0
  BY <1>3, <1>6 DEF EarnHolds, UseHolds, InvoiceShape
<1> HIDE DEF amount, e, inv
<1>8. x \in InvoiceShape
  BY <1>2, <1>3, <1>4, SpendingShape
<1>9. x.intake = inv.intake /\ x.cancelled = inv.cancelled /\ x.source = "loyalty_reward"
  <2>1. w \in Nat
    BY <1>2
  <2>2. x.intake = inv.intake
    BY <1>3, <1>4, <2>1, SpendingShape
  <2>3. x.cancelled = inv.cancelled
    BY <1>3, <1>4, <2>1, SpendingShape
  <2>4. x.source = "loyalty_reward"
    BY <1>3, <1>4, <2>1, SpendingShape
  <2> QED
    BY <2>2, <2>3, <2>4
<1>10. x.earned = FALSE /\ x.earnEntry = 0 /\ x.reward = w /\ x.redeemEntry = e
  <2>1. w \in Nat
    BY <1>2
  <2>2. x.earned = inv.earned
    BY <1>3, <1>4, <2>1, SpendingShape
  <2>3. x.earnEntry = inv.earnEntry
    BY <1>3, <1>4, <2>1, SpendingShape
  <2>4. x.reward = w
    BY <1>3, <1>4, <2>1, SpendingShape
  <2>5. x.redeemEntry = e
    BY <1>3, <1>4, <2>1, SpendingShape
  <2> QED
    BY <1>7, <2>2, <2>3, <2>4, <2>5
<1> HIDE DEF x
<1>11. /\ Len(invoices') = Len(invoices)
       /\ \A h \in 1..Len(invoices) : invoices'[h] = IF h = i THEN x ELSE invoices[h]
  BY <1>2, <1>5, <1>8, PutShape
<1>12. PICK p \in Int \ {0}, used \in Seq(Reward) :
          /\ p < 0 /\ Logs(loyalty, loyalty', v, "redeemed", p, 0)
          /\ Len(used) = Len(loyalty.rewards)
          /\ used[w].status = "redeemed" /\ used[w].vehicle = v
          /\ \A y \in 1..Len(used) : y # w => used[y] = loyalty.rewards[y]
          /\ RewardsGrow(used, loyalty'.rewards, v)
  BY <1>2, <1>4, <1>5, RedeemedShape
<1>13. LogKept({}) /\ FollowInv'
  BY <1>2, <1>4, <1>5, RedeemedShape
<1>14. /\ loyalty' \in LoyaltyState /\ LogInv' /\ LogGrows
       /\ loyalty'.undone = loyalty.undone \cup {}
  BY <1>13 DEF LogKept
<1>15. /\ Len(loyalty'.log) = e
       /\ loyalty'.log[e] = LogLine(v, "redeemed", p, 0)
  BY <1>2, <1>12, <1>14, LogWritten DEF e
<1>16. CardMoves
  <2>1. "redeemed" \in LogTypes
    BY DEF LogTypes
  <2> QED
    BY <1>4, <1>12, <2>1 DEF CardMoves
<1>17. EarnInv'
  <2>1. EarnHolds(x, loyalty')
    BY <1>10, <1>14, LoyaltyFields DEF EarnHolds
  <2> QED
    BY <1>2, <1>5, <1>8, <1>10, <1>14, <2>1, EarnPut DEF BooksInv
<1>18. /\ loyalty'.rewards \in Seq(Reward) /\ Len(loyalty'.rewards) \in Nat
       /\ Len(loyalty.rewards) <= Len(loyalty'.rewards)
       /\ loyalty.rewards[w].status = "available"
  BY <1>5, <1>12, <1>14, LoyaltyFields, LenProperties DEF RewardsGrow, Available
<1>19. \A y \in 1..Len(loyalty.rewards) :
          used[y].status # "available" => loyalty'.rewards[y] = used[y]
  BY <1>12 DEF RewardsGrow
<1>20. UseHolds(x, loyalty')
  <2>1. w \in 1..Len(loyalty'.rewards) /\ w # 0 /\ loyalty'.rewards[w] = used[w]
    BY <1>2, <1>12, <1>18, <1>19
  <2>2. Vehicle(x) = v
    BY <1>9 DEF Vehicle, v
  <2>3. e # 0 /\ e \in 1..Len(loyalty'.log)
    BY <1>2, <1>4, <1>15 DEF e
  <2>4. /\ loyalty'.log[e].type = "redeemed" /\ loyalty'.log[e].vehicle = v
        /\ loyalty'.log[e].points < 0
    BY <1>12, <1>15 DEF LogLine
  <2>5. e \notin loyalty'.undone
    BY <1>2, <1>14 DEF LogInv, e
  <2>6. ~x.cancelled
    BY <1>6, <1>9 DEF inv
  <2> HIDE DEF v
  <2> QED
    BY <1>9, <1>10, <1>12, <1>18, <2>1, <2>2, <2>3, <2>4, <2>5, <2>6 DEF UseHolds
<1>21. ASSUME NEW h \in 1..Len(invoices), h # i
       PROVE  /\ UseHolds(invoices[h], loyalty') /\ invoices[h].reward # w
              /\ invoices[h].redeemEntry # e
  <2>1. UseHolds(invoices[h], loyalty)
    BY DEF BooksInv, UseInv
  <2>2. invoices[h].reward # 0 =>
          /\ invoices[h].reward \in 1..Len(loyalty.rewards)
          /\ loyalty.rewards[invoices[h].reward].status \in {"redeemed", "reversed"}
          /\ invoices[h].redeemEntry \in 1..Len(loyalty.log)
    BY <1>2, <2>1 DEF UseHolds
  <2>3. invoices[h].reward # w
    BY <1>2, <1>18, <2>2
  <2>4. invoices[h].redeemEntry # e
    BY <1>2, <2>1, <2>2 DEF UseHolds, e
  <2>5. invoices[h].reward # 0 =>
          loyalty'.rewards[invoices[h].reward] = loyalty.rewards[invoices[h].reward]
    BY <1>12, <1>19, <2>2, <2>3
  <2>6. UseHolds(invoices[h], loyalty')
    <3>1. LogKept({}) /\ Len(loyalty.rewards) <= Len(loyalty'.rewards)
      BY <1>13, <1>18
    <3>2. loyalty \in LoyaltyState
      BY <1>2
    <3>3. invoices[h].redeemEntry \notin {}
      OBVIOUS
    <3> QED
      BY <2>1, <2>5, <3>1, <3>2, <3>3, UseStays
  <2> QED
    BY <2>3, <2>4, <2>6
<1>22. \A h \in 1..Len(invoices) : UseHolds(invoices'[h], loyalty')
  BY <1>11, <1>20, <1>21
<1>23. OwnReward'
  BY <1>10, <1>11, <1>21 DEF BooksInv, UseInv, OwnReward
<1>24. OwnEntry'
  BY <1>10, <1>11, <1>21 DEF BooksInv, UseInv, OwnEntry
<1>25. AllUsed'
  <2> SUFFICES ASSUME NEW y \in 1..Len(loyalty'.rewards),
                      loyalty'.rewards[y].status \in {"redeemed", "reversed"}
               PROVE  \E h \in 1..Len(invoices) : invoices'[h].reward = y
    BY <1>11 DEF AllUsed
  <2>1. y \in 1..Len(loyalty.rewards) /\ loyalty'.rewards[y] = used[y]
    BY <1>12, <1>18, UsedBefore
  <2>2. CASE y = w
    BY <1>10, <1>11, <2>2
  <2>3. CASE y # w
    <3>1. loyalty.rewards[y].status \in {"redeemed", "reversed"}
      BY <1>12, <2>1, <2>3
    <3>2. PICK h \in 1..Len(invoices) : invoices[h].reward = y
      BY <2>1, <3>1 DEF BooksInv, UseInv, AllUsed
    <3>3. h # i
      BY <1>2, <1>7, <2>1, <3>2 DEF inv
    <3> QED
      BY <1>11, <3>2, <3>3
  <2> QED
    BY <2>2, <2>3
<1>26. UseInv'
  BY <1>11, <1>22, <1>23, <1>24, <1>25 DEF UseInv
<1> QED
  BY <1>13, <1>14, <1>16, <1>17, <1>26 DEF PointsKept

\* What Restored does, for a redemption that was not undone.
LEMMA RestoredShape ==
    ASSUME loyalty \in LoyaltyState, LogInv, FollowInv, NEW w \in 1..Len(loyalty.rewards),
           loyalty.rewards[w].status = "redeemed", NEW e \in 1..Len(loyalty.log),
           e \notin loyalty.undone, loyalty.log[e].points < 0,
           loyalty' = Restored(loyalty, w, e)
    PROVE  /\ LogKept({e}) /\ FollowInv' /\ CardMoves
           /\ \E v : \E given \in Seq(Reward) :
                 /\ RewardsGrow(loyalty.rewards, given, v)
                 /\ Len(loyalty'.rewards) = Len(given) /\ w \in 1..Len(given)
                 /\ loyalty'.rewards[w].status = "reversed"
                 /\ loyalty'.rewards[w].vehicle = loyalty.rewards[w].vehicle
                 /\ \A x \in 1..Len(given) : x # w => loyalty'.rewards[x] = given[x]
<1> DEFINE v == loyalty.log[e].vehicle
           p == -loyalty.log[e].points
           m == Undone(loyalty, e)
           given == m.rewards
           r == [given[w] EXCEPT !.status = "reversed"]
           after == [given EXCEPT ![w] = r]
           balance == loyalty.points[v] + p
<1>1. /\ loyalty.log[e] \in LoyaltyEntry /\ loyalty.points \in [Vehicles -> Nat]
      /\ loyalty.rewards \in Seq(Reward)
  BY LoyaltyFields
<1>2. v \in Vehicles /\ p \in Int \ {0} /\ p > 0 /\ e \in Nat
  <2>1. v \in Vehicles /\ loyalty.log[e].points \in Int
    BY <1>1 DEF LoyaltyEntry
  <2>2. e \in Nat
    BY LoyaltyFields
  <2> QED
    BY <2>1, <2>2
<1>3. balance \in Nat /\ balance >= 0
  BY <1>1, <1>2
<1>4. m = [Applied(loyalty, v, "reversal", p, e) EXCEPT !.undone = @ \cup {e}]
  BY DEF Undone
<1> HIDE DEF p, m
<1>5. /\ m \in LoyaltyState /\ Logs(loyalty, m, v, "reversal", p, e)
      /\ m.rewards = RewardsAt(loyalty.rewards, v, balance)
  BY <1>2, <1>3, <1>4, UndoingShape
<1>6. given \in Seq(Reward) /\ RewardsGrow(loyalty.rewards, given, v)
  BY <1>1, <1>2, <1>3, <1>5, LoyaltyFields, RewardsAtGrow
<1>7. w \in 1..Len(given) /\ given[w] = loyalty.rewards[w]
  <2>1. Len(loyalty.rewards) \in Nat /\ Len(given) \in Nat
    BY <1>1, <1>6, LenProperties
  <2> HIDE DEF given
  <2> QED
    BY <1>6, <2>1 DEF RewardsGrow
<1>8. given[w] \in Reward
  BY <1>6, <1>7, ElementOfSeq
<1> HIDE DEF given, balance
<1>9. /\ r \in Reward /\ r.vehicle = given[w].vehicle /\ r.cost = given[w].cost
      /\ r.status = "reversed"
  BY <1>8 DEF Reward
<1> HIDE DEF r
<1>10. /\ after \in Seq(Reward) /\ Len(after) = Len(given)
       /\ \A x \in 1..Len(given) : after[x] = IF x = w THEN r ELSE given[x]
       /\ Priced(given) => Priced(after)
       /\ \A u : Available(after, u) = Available(given, u) \ {w}
       /\ \A u, b : w \notin Available(given, u) /\ FollowsAt(given, u, b)
                       => FollowsAt(after, u, b)
  BY <1>6, <1>7, <1>9, RewardMarked
<1>11. loyalty' = [m EXCEPT !.rewards = after]
  <2>1. loyalty' = [m EXCEPT !.rewards[w].status = "reversed"]
    BY DEF Restored, m
  <2> QED
    BY <2>1 DEF after, r, given
<1> HIDE DEF after
<1>12. /\ loyalty' \in LoyaltyState /\ loyalty'.rewards = after
       /\ loyalty'.points = m.points /\ loyalty'.log = m.log /\ loyalty'.undone = m.undone
  BY <1>5, <1>10, <1>11 DEF LoyaltyState
<1> HIDE DEF v
<1>13. Logs(loyalty, loyalty', v, "reversal", p, e)
  BY <1>5, <1>12 DEF Logs
<1>14. LogKept({e})
  <2>1. e # 0
    BY <1>2, LoyaltyFields
  <2> QED
    BY <1>2, <1>12, <1>13, <2>1, LogWritten
<1>15. CardMoves
  <2>1. "reversal" \in LogTypes
    BY DEF LogTypes
  <2> QED
    BY <1>2, <1>13, <2>1 DEF CardMoves
<1>16. FollowInv'
  <2>1. Followed(given, m.points)
    <3>1. Priced(loyalty.rewards)
      BY DEF FollowInv, Followed
    <3>2. RewardCost <= RewardThreshold =>
            /\ \A x, y \in Available(loyalty.rewards, v) : x = y
            /\ \A u \in Vehicles \ {v} : FollowsAt(loyalty.rewards, u, loyalty.points[u])
      BY <1>2 DEF FollowInv, Followed, FollowsAt
    <3>3. m.points = [loyalty.points EXCEPT ![v] = balance]
      BY <1>5 DEF Logs, balance, v
    <3>4. Followed(RewardsAt(loyalty.rewards, v, balance),
                   [loyalty.points EXCEPT ![v] = balance])
      BY <1>1, <1>2, <1>3, <3>1, <3>2, FollowApplied
    <3> QED
      BY <1>5, <3>3, <3>4 DEF given
  <2>2. \A u : w \notin Available(given, u)
    BY <1>7 DEF Available
  <2> QED
    BY <1>10, <1>12, <2>1, <2>2 DEF FollowInv, Followed
<1>17. /\ Len(loyalty'.rewards) = Len(given) /\ w \in 1..Len(given)
       /\ loyalty'.rewards[w].status = "reversed"
       /\ loyalty'.rewards[w].vehicle = loyalty.rewards[w].vehicle
       /\ \A x \in 1..Len(given) : x # w => loyalty'.rewards[x] = given[x]
  BY <1>7, <1>9, <1>10, <1>12
<1> QED
  BY <1>6, <1>14, <1>15, <1>16, <1>17

\* A cancelled invoice gives its reward back; it held no points any more.
LEMMA PointsVoids == BooksInv /\ Voids => PointsKept
<1> SUFFICES ASSUME BooksInv, Voids PROVE PointsKept
  OBVIOUS
<1>1. PICK i \in 1..Len(invoices) :
         /\ Cancellable(invoices[i])
         /\ PutInvoice(i, Cancelled(invoices[i]))
         /\ loyalty' = LoyaltyCancelling(invoices[i])
  BY DEF Voids
<1> DEFINE inv == invoices[i]
           x == Cancelled(inv)
           w == inv.reward
           e == inv.redeemEntry
<1>2. /\ BooksTyped /\ loyalty \in LoyaltyState /\ Len(loyalty.log) \in Nat
      /\ LogInv /\ FollowInv /\ Len(loyalty.rewards) \in Nat
  BY LoyaltyFields, LenProperties DEF BooksInv, PaperInv, BooksTyped
<1>3. inv \in InvoiceShape /\ EarnHolds(inv, loyalty) /\ UseHolds(inv, loyalty)
  BY <1>2, Books DEF BooksInv, EarnInv, UseInv
<1>4. PutInvoice(i, x) /\ loyalty' = LoyaltyCancelling(inv)
  BY <1>1
<1>5. ~inv.cancelled /\ inv.paid = 0
  BY <1>1 DEF Cancellable
<1>6. inv.earned = FALSE /\ inv.earnEntry = 0
  BY <1>3, <1>5 DEF EarnHolds, InvoiceShape
<1>7. LoyaltyWithout(inv) = loyalty
  BY <1>6 DEF LoyaltyWithout
<1> HIDE DEF inv
<1>8. /\ x \in InvoiceShape
      /\ x.intake = inv.intake /\ x.cancelled = TRUE /\ x.source = inv.source
      /\ x.earned = FALSE /\ x.earnEntry = 0
      /\ x.reward = inv.reward /\ x.redeemEntry = inv.redeemEntry
  BY <1>3, <1>6, VoidingShape
<1> HIDE DEF x
<1>9. ASSUME loyalty' \in LoyaltyState, LogGrows PROVE EarnInv'
  <2>1. EarnHolds(x, loyalty')
    BY <1>8, <1>9, LoyaltyFields DEF EarnHolds
  <2> QED
    BY <1>2, <1>4, <1>8, <1>9, <2>1, EarnPut DEF BooksInv
<1>10. CASE w = 0
  <2>1. UNCHANGED loyalty
    BY <1>4, <1>7, <1>10 DEF LoyaltyCancelling
  <2>2. Quiet /\ FollowInv'
    BY <1>2, <2>1, LoyaltyUnchanged
  <2>3. UseHolds(x, loyalty')
    BY <1>3, <1>8, <1>10, <2>1, UseSame
  <2>4. UseInv'
    BY <1>2, <1>4, <1>8, <2>2, <2>3, UsePut DEF BooksInv, inv
  <2> QED
    BY <1>9, <2>1, <2>2, <2>4, QuietLog DEF PointsKept, CardMoves
<1>11. CASE w # 0
  <2>1. /\ w \in 1..Len(loyalty.rewards) /\ loyalty.rewards[w].status = "redeemed"
        /\ loyalty.rewards[w].vehicle = Vehicle(inv)
        /\ e \in 1..Len(loyalty.log) /\ e \notin loyalty.undone
        /\ loyalty.log[e].type = "redeemed" /\ loyalty.log[e].vehicle = Vehicle(inv)
        /\ loyalty.log[e].points < 0
        /\ inv.source = "loyalty_reward"
    BY <1>2, <1>3, <1>5, <1>11 DEF UseHolds
  <2>2. loyalty' = Restored(loyalty, w, e)
    BY <1>4, <1>7, <1>11 DEF LoyaltyCancelling
  <2> HIDE DEF w, e
  <2>3. LogKept({e}) /\ FollowInv' /\ CardMoves
    BY <1>2, <2>1, <2>2, RestoredShape
  <2>4. PICK v : \E given \in Seq(Reward) :
            /\ RewardsGrow(loyalty.rewards, given, v)
            /\ Len(loyalty'.rewards) = Len(given) /\ w \in 1..Len(given)
            /\ loyalty'.rewards[w].status = "reversed"
            /\ loyalty'.rewards[w].vehicle = loyalty.rewards[w].vehicle
            /\ \A y \in 1..Len(given) : y # w => loyalty'.rewards[y] = given[y]
    BY <1>2, <2>1, <2>2, RestoredShape
  <2>5. PICK given \in Seq(Reward) :
            /\ RewardsGrow(loyalty.rewards, given, v)
            /\ Len(loyalty'.rewards) = Len(given) /\ w \in 1..Len(given)
            /\ loyalty'.rewards[w].status = "reversed"
            /\ loyalty'.rewards[w].vehicle = loyalty.rewards[w].vehicle
            /\ \A y \in 1..Len(given) : y # w => loyalty'.rewards[y] = given[y]
    BY <2>4
  <2>6. /\ loyalty' \in LoyaltyState /\ LogInv' /\ LogGrows
        /\ loyalty'.undone = loyalty.undone \cup {e}
    BY <2>3 DEF LogKept
  <2>7. Len(loyalty.rewards) <= Len(loyalty'.rewards) /\ Len(given) \in Nat
    BY <2>5, LenProperties DEF RewardsGrow
  <2>8. /\ Len(invoices') = Len(invoices)
        /\ \A h \in 1..Len(invoices) : invoices'[h] = IF h = i THEN x ELSE invoices[h]
    BY <1>2, <1>4, <1>8, PutShape
  <2>9. UseHolds(x, loyalty')
    <3>1. x.reward = w /\ x.redeemEntry = e
      BY <1>8 DEF w, e
    <3>2. Vehicle(x) = Vehicle(inv)
      BY <1>8 DEF Vehicle
    <3>3. e \in 1..Len(loyalty'.log) /\ loyalty'.log[e] = loyalty.log[e] /\ e # 0
      BY <1>2, <2>1, <2>6, LoyaltyFields DEF LogGrows
    <3>4. w # 0 /\ w \in 0..Len(loyalty'.rewards)
      BY <1>2, <2>1, <2>5, <2>7
    <3>5. e \in loyalty'.undone
      BY <2>6
    <3> QED
      BY <1>8, <2>1, <2>5, <3>1, <3>2, <3>3, <3>4, <3>5 DEF UseHolds
  <2>10. ASSUME NEW h \in 1..Len(invoices), h # i PROVE UseHolds(invoices[h], loyalty')
    <3>1. UseHolds(invoices[h], loyalty)
      BY DEF BooksInv, UseInv
    <3>2. w # 0 /\ e # 0
      BY <1>2, <2>1
    <3>3. invoices[h].reward # w /\ invoices[h].redeemEntry # e
      BY <2>10, <3>2 DEF BooksInv, UseInv, OwnReward, OwnEntry, w, e, inv
    <3>4. invoices[h].reward # 0 =>
            /\ invoices[h].reward \in 1..Len(loyalty.rewards)
            /\ loyalty.rewards[invoices[h].reward].status # "available"
      BY <1>2, <3>1 DEF UseHolds
    <3>5. invoices[h].reward # 0 =>
            loyalty'.rewards[invoices[h].reward] = loyalty.rewards[invoices[h].reward]
      <4>1. \A y \in 1..Len(loyalty.rewards) :
              /\ y \in 1..Len(given)
              /\ loyalty.rewards[y].status # "available" => given[y] = loyalty.rewards[y]
        BY <1>2, <2>5, <2>7 DEF RewardsGrow
      <4> QED
        BY <2>5, <3>3, <3>4, <4>1
    <3> QED
      BY <1>2, <2>3, <2>7, <3>1, <3>3, <3>5, UseStays
  <2>11. \A h \in 1..Len(invoices) : UseHolds(invoices'[h], loyalty')
    BY <2>8, <2>9, <2>10
  <2>12. \A h \in 1..Len(invoices) : /\ invoices'[h].reward = invoices[h].reward
                                     /\ invoices'[h].redeemEntry = invoices[h].redeemEntry
    BY <1>8, <2>8 DEF inv
  <2>13. OwnReward'
    BY <2>8, <2>12 DEF BooksInv, UseInv, OwnReward
  <2>14. OwnEntry'
    BY <2>8, <2>12 DEF BooksInv, UseInv, OwnEntry
  <2>15. AllUsed'
    <3> SUFFICES ASSUME NEW y \in 1..Len(loyalty'.rewards),
                        loyalty'.rewards[y].status \in {"redeemed", "reversed"}
                 PROVE  \E h \in 1..Len(invoices) : invoices[h].reward = y
      BY <2>8, <2>12 DEF AllUsed
    <3>1. CASE y = w
      BY <3>1 DEF w, inv
    <3>2. CASE y # w
      <4>1. y \in 1..Len(given) /\ given[y].status \in {"redeemed", "reversed"}
        BY <2>5, <3>2
      <4>2. y \in 1..Len(loyalty.rewards) /\ given[y] = loyalty.rewards[y]
        BY <1>2, <2>5, <4>1, LoyaltyFields, UsedBefore
      <4> QED
        BY <4>1, <4>2 DEF BooksInv, UseInv, AllUsed
    <3> QED
      BY <3>1, <3>2
  <2>16. UseInv'
    BY <2>8, <2>11, <2>13, <2>14, <2>15 DEF UseInv
  <2> QED
    BY <1>9, <2>3, <2>6, <2>16 DEF PointsKept
<1> QED
  BY <1>10, <1>11

-----------------------------------------------------------------------------
(* The inductive invariant *)

LEMMA BooksInit == BillingInit => BooksInv
<1> SUFFICES ASSUME BillingInit PROVE BooksInv
  OBVIOUS
<1>1. invoices = << >> /\ payments = << >> /\ loyalty = EmptyLoyalty
  BY DEF BillingInit
<1>2. /\ loyalty.points = [v \in Vehicles |-> 0] /\ loyalty.log = << >>
      /\ loyalty.rewards = << >> /\ loyalty.undone = {}
      /\ loyalty \in LoyaltyState
  BY <1>1 DEF EmptyLoyalty, LoyaltyState
<1>3. BooksTyped
  BY <1>1, <1>2 DEF BooksTyped
<1>4. TotalsInv /\ AmountsInv /\ EarnInv /\ UseInv /\ LogInv
  BY <1>1, <1>2 DEF TotalsInv, AmountsInv, EarnInv, UseInv, OwnReward, OwnEntry, AllUsed, LogInv
<1>5. FollowInv
  <2>1. \A v : Available(loyalty.rewards, v) = {}
    BY <1>2 DEF Available
  <2>2. RewardThreshold \in Nat \ {0}
    BY LoyaltyConfig
  <2>3. \A v \in Vehicles : FollowsAt(loyalty.rewards, v, loyalty.points[v])
    BY <1>2, <2>1, <2>2 DEF FollowsAt
  <2> QED
    BY <1>2, <2>3 DEF FollowInv, Followed, Priced
<1> QED
  BY <1>3, <1>4, <1>5 DEF BooksInv, PaperInv

LEMMA BooksKept ==
    BooksInv /\ FinanceTypeOK /\ [BillingNext]_bookVars => BooksInv' /\ AllSettled /\ CardMoves
<1> SUFFICES ASSUME BooksInv, FinanceTypeOK, [BillingNext]_bookVars
             PROVE  BooksInv' /\ AllSettled /\ CardMoves
  OBVIOUS
<1>1. BooksTyped /\ PaperInv
  BY DEF BooksInv, PaperInv
<1>2. \/ Adds \/ Edits \/ Pays \/ Unpays \/ Spends \/ Voids \/ Corrects \/ Undoes \/ Rests
  BY <1>1, BooksStep
<1>3. PaperKept
  <2>1. Corrects \/ Undoes \/ Rests => UNCHANGED <<invoices, payments>>
    BY DEF Corrects, Undoes, Rests
  <2> QED
    BY <1>1, <1>2, <2>1, PaperUnchanged, PaperAdds, PaperEdits, PaperPays, PaperUnpays,
       PaperSpends, PaperVoids
<1>4. PointsKept
  BY <1>2, PointsRest, PointsEdits, PointsPays, PointsUnpays, PointsSpends, PointsVoids,
     PointsCorrects, PointsUndoes
<1>5. BooksTyped'
  <2>1. /\ invoices' \in Seq(InvoiceShape) /\ payments' \in Seq(Payment)
        /\ \A k \in 1..Len(payments') : payments'[k].invoice \in 1..Len(invoices')
    BY <1>3 DEF PaperKept, PaperTyped
  <2>2. DOMAIN payments' = 1..Len(payments')
    BY <2>1, LenProperties
  <2> QED
    BY <1>4, <2>1, <2>2 DEF BooksTyped, PointsKept
<1> QED
  BY <1>3, <1>4, <1>5 DEF BooksInv, PaperInv, PaperKept, PointsKept

LEMMA BooksInvariant == BillingSpec => []BooksInv
<1>1. BillInv => FinanceTypeOK
  BY DEF BillInv, MoneyInv
<1> QED
  BY <1>1, BooksInit, BooksKept, BillInvariant, PTL DEF BillingSpec, bookVars

-----------------------------------------------------------------------------
(* What follows *)

\* No amount is ever negative, whatever is discounted, paid and reversed
\* (billing.js:82), and what an invoice says was paid is what its live payments
\* amount to.
THEOREM PaymentsAddUpCorrect == BillingSpec => []PaymentsAddUp
<1>1. BooksInv /\ BillInv /\ RetryInv => PaymentsAddUp
  <2> SUFFICES ASSUME BooksInv, BillInv, RetryInv PROVE PaymentsAddUp
    OBVIOUS
  <2>1. /\ BooksTyped /\ TotalsInv /\ AmountsInv /\ Len(invoices) \in Nat
        /\ DOMAIN invoices = 1..Len(invoices)
        /\ \A i \in 1..Len(invoices) : invoices[i] \in InvoiceShape
    BY Books DEF BooksInv, PaperInv
  <2>2. ASSUME NEW i \in 1..Len(invoices)
        PROVE  /\ invoices[i] \in Invoice
               /\ TotalOf(invoices[i]) \in Nat /\ Outstanding(invoices[i]) \in Nat
    <3>1. AmountsHold(invoices[i]) /\ invoices[i] \in InvoiceShape
      BY <2>1 DEF AmountsInv
    <3>2. invoices[i] \in Invoice
      BY <3>1 DEF AmountsHold, Invoice, InvoiceShape
    <3>3. SubtotalOf(invoices[i]) \in Nat /\ invoices[i].discount \in Nat
      BY <3>1, SubtotalNat DEF InvoiceShape
    <3> QED
      BY <3>1, <3>2, <3>3 DEF AmountsHold, TotalOf, Outstanding
  <2>3. invoices \in Seq(Invoice)
    BY <2>1, <2>2, SequenceWidened DEF BooksTyped
  <2>4. invoiceOf \in [Intakes -> Nat]
    BY DEF BillInv, InvoicesKnown
  <2>5. paidBy \in [PaymentRequests -> Nat]
    <3>1. Len(payments) \in Nat
      BY <2>1, Books
    <3> QED
      BY <3>1 DEF RetryInv
  <2>6. BillingTypeOK
    BY <2>1, <2>2, <2>3, <2>4, <2>5 DEF BillingTypeOK, BooksTyped
  <2>7. ASSUME NEW i \in DOMAIN invoices
        PROVE  invoices[i].paid = SumOver(LAMBDA k : payments[k].amount,
                   {k \in DOMAIN payments : payments[k].invoice = i /\ payments[k].live})
    <3> DEFINE S == {k \in DOMAIN payments : payments[k].invoice = i /\ payments[k].live}
    <3>1. invoices[i].paid = AmountsOf(payments, S)
      BY <2>1 DEF TotalsInv, PaidOf, PaymentsOf
    <3> HIDE DEF S
    <3>2. invoices[i].paid = SumOver(LAMBDA k : payments[k].amount, S)
      BY <3>1 DEF AmountsOf, SumOver, MapThenSumSet, MapThenFoldSet
    <3> QED
      BY <3>2 DEF S, SumOver, MapThenSumSet, MapThenFoldSet
  <2> QED
    BY <2>6, <2>7 DEF PaymentsAddUp
<1> QED
  BY <1>1, BooksInvariant, BillInvariant, RetryInvariant, PTL

\* Points are held for an invoice only while it stands fully paid, by an entry of its
\* own, for any number of services and points, and any order of payments, reversals
\* and corrections.
THEOREM EarnedCorrect == BillingSpec => []EarnedWhilePaid
<1>1. BooksInv => EarnedWhilePaid
  <2> SUFFICES ASSUME BooksInv, NEW i \in DOMAIN invoices, invoices[i].earned
               PROVE  LET inv == invoices[i]
                          entry == loyalty.log[inv.earnEntry]
                      IN  /\ Outstanding(inv) = 0 /\ inv.paid > 0 /\ ~inv.cancelled
                          /\ entry.type = "earned" /\ entry.vehicle = Vehicle(inv)
                          /\ entry.points = PointsFor(inv)
                          /\ \A h \in DOMAIN invoices \ {i} :
                                invoices[h].earnEntry # inv.earnEntry
    BY DEF EarnedWhilePaid
  <2>1. DOMAIN invoices = 1..Len(invoices)
    BY Books DEF BooksInv, PaperInv
  <2>2. EarnHolds(invoices[i], loyalty) /\ AmountsHold(invoices[i])
    BY <2>1 DEF BooksInv, EarnInv, PaperInv, AmountsInv
  <2>3. invoices[i].earnEntry # 0
    BY <2>2 DEF EarnHolds
  <2>4. \A h \in DOMAIN invoices \ {i} : invoices[h].earnEntry # invoices[i].earnEntry
    BY <2>1, <2>3 DEF BooksInv, EarnInv
  <2>5. ~invoices[i].cancelled
    BY <2>2 DEF EarnHolds, AmountsHold
  <2> QED
    BY <2>2, <2>4, <2>5 DEF EarnHolds
<1> QED
  BY <1>1, BooksInvariant, PTL

\* A set without two different members has at most one.
LEMMA AtMostOne ==
    ASSUME NEW S, \A a, b \in S : a = b
    PROVE  Cardinality(S) <= 1
<1>1. CASE S = {}
  BY <1>1, FS_EmptySet
<1>2. CASE S # {}
  <2>1. PICK a : a \in S
    BY <1>2
  <2>2. S = {a}
    BY <2>1
  <2>3. Cardinality(S) = 1
    BY <2>2, FS_Singleton
  <2> QED
    BY <2>3
<1> QED
  BY <1>1, <1>2

\* No entry of the log is undone twice, by hand, by a reversed payment or by a
\* cancellation, and no redemption while its reward is in use.
THEOREM UndoneCorrect == BillingSpec => []UndoneOnce
<1>1. BooksInv => UndoneOnce
  <2> SUFFICES ASSUME BooksInv PROVE UndoneOnce
    OBVIOUS
  <2>1. /\ DOMAIN invoices = 1..Len(invoices) /\ DOMAIN loyalty.log = 1..Len(loyalty.log)
        /\ Len(loyalty.log) \in Nat
    BY Books, LoyaltyFields DEF BooksInv, PaperInv
  <2>2. ASSUME NEW e \in DOMAIN loyalty.log
        PROVE  LET undoing == {u \in DOMAIN loyalty.log : loyalty.log[u].of = e}
               IN  /\ Cardinality(undoing) <= 1
                   /\ undoing # {} => e \in loyalty.undone
                   /\ \A u \in undoing :
                         u > e /\ loyalty.log[u].vehicle = loyalty.log[e].vehicle
    <3> DEFINE undoing == {u \in DOMAIN loyalty.log : loyalty.log[u].of = e}
    <3>1. \A u, w \in undoing : u = w
      BY <2>1 DEF BooksInv, LogInv
    <3>2. \A u \in undoing : /\ e \in 1..(u - 1) /\ u \in Nat /\ e \in loyalty.undone
                             /\ loyalty.log[e].vehicle = loyalty.log[u].vehicle
      BY <2>1 DEF BooksInv, LogInv
    <3> HIDE DEF undoing
    <3>3. Cardinality(undoing) <= 1
      BY <3>1, AtMostOne
    <3>4. /\ undoing # {} => e \in loyalty.undone
          /\ \A u \in undoing : u > e /\ loyalty.log[u].vehicle = loyalty.log[e].vehicle
      BY <2>1, <3>2
    <3> QED
      BY <3>3, <3>4 DEF undoing
  <2>3. \A i \in DOMAIN invoices : invoices[i].reward # 0 =>
          (invoices[i].redeemEntry \in loyalty.undone <=> invoices[i].cancelled)
    BY <2>1 DEF BooksInv, UseInv, UseHolds
  <2> QED
    BY <2>2, <2>3 DEF UndoneOnce
<1> QED
  BY <1>1, BooksInvariant, PTL

\* One available reward per vehicle, offered exactly when the points allow, for any
\* settings in which a reward costs no more than the threshold that unlocks it.
THEOREM RewardsFollowCorrect == BillingSpec => []RewardsFollowPoints
<1>1. BooksInv => RewardsFollowPoints
  <2> SUFFICES ASSUME BooksInv, RewardCost <= RewardThreshold, NEW v \in Vehicles
               PROVE  LET open == Available(loyalty.rewards, v)
                      IN  /\ Cardinality(open) <= 1
                          /\ loyalty.points[v] >= RewardThreshold => open # {}
                          /\ \A w \in open : loyalty.points[v] >= loyalty.rewards[w].cost
    BY DEF RewardsFollowPoints
  <2>1. FollowsAt(loyalty.rewards, v, loyalty.points[v])
    BY DEF BooksInv, FollowInv, Followed
  <2> QED
    BY <2>1, AtMostOne DEF FollowsAt
<1> QED
  BY <1>1, BooksInvariant, PTL

\* A redeemed reward is the discount of one invoice that stands, a reversed one of one
\* that was cancelled, and no other reward of any: none is used twice.
THEOREM RewardsUsedCorrect == BillingSpec => []RewardsUsedOnce
<1>1. BooksInv => RewardsUsedOnce
  <2> SUFFICES ASSUME BooksInv PROVE RewardsUsedOnce
    OBVIOUS
  <2>1. /\ DOMAIN invoices = 1..Len(invoices) /\ Len(loyalty.rewards) \in Nat
        /\ DOMAIN loyalty.rewards = 1..Len(loyalty.rewards)
    BY Books, LoyaltyFields, LenProperties DEF BooksInv, PaperInv
  <2>2. \A i \in 1..Len(invoices) :
          /\ invoices[i].reward # 0 <=> invoices[i].source = "loyalty_reward"
          /\ invoices[i].reward # 0 =>
                loyalty.rewards[invoices[i].reward].status
                  = IF invoices[i].cancelled THEN "reversed" ELSE "redeemed"
    BY DEF BooksInv, UseInv, UseHolds
  <2>3. ASSUME NEW w \in DOMAIN loyalty.rewards
        PROVE  LET users == {i \in DOMAIN invoices : invoices[i].reward = w}
               IN  CASE loyalty.rewards[w].status = "redeemed" ->
                          \E i \in users : users = {i} /\ ~invoices[i].cancelled
                     [] loyalty.rewards[w].status = "reversed" ->
                          \E i \in users : users = {i} /\ invoices[i].cancelled
                     [] OTHER -> users = {}
    <3> DEFINE users == {i \in DOMAIN invoices : invoices[i].reward = w}
               status == loyalty.rewards[w].status
    <3>1. \A i \in users : status = IF invoices[i].cancelled THEN "reversed" ELSE "redeemed"
      BY <2>1, <2>2
    <3>2. status \in {"redeemed", "reversed"} => \E i \in users : users = {i}
      <4>1. \A i, h \in users : i = h
        BY <2>1 DEF BooksInv, UseInv, OwnReward
      <4>2. status \in {"redeemed", "reversed"} => users # {}
        BY <2>1 DEF BooksInv, UseInv, AllUsed
      <4> HIDE DEF users, status
      <4> QED
        BY <4>1, <4>2
    <3> HIDE DEF users, status
    <3>3. CASE status = "redeemed"
      BY <3>1, <3>2, <3>3 DEF users, status
    <3>4. CASE status = "reversed"
      BY <3>1, <3>2, <3>4 DEF users, status
    <3>5. CASE status # "redeemed" /\ status # "reversed"
      <4>1. users = {}
        BY <3>1, <3>5
      <4> QED
        BY <3>5, <4>1 DEF users, status
    <3> QED
      BY <3>3, <3>4, <3>5
  <2> QED
    BY <2>1, <2>2, <2>3 DEF RewardsUsedOnce
<1> QED
  BY <1>1, BooksInvariant, PTL

\* A total never changes once money was taken for it, and a cancelled invoice never
\* changes at all.
THEOREM SettledCorrect == BillingSpec => TotalsSettled
<1>1. BillInv => FinanceTypeOK
  BY DEF BillInv, MoneyInv
<1>2. BooksInv /\ FinanceTypeOK /\ [BillingNext]_bookVars =>
        \A i \in DOMAIN invoices :
          /\ invoices[i].paid > 0 => TotalOf(invoices'[i]) = TotalOf(invoices[i])
          /\ invoices[i].cancelled => invoices'[i] = invoices[i]
  BY BooksKept, Books DEF AllSettled, Settled, BooksInv, PaperInv
<1> QED
  BY <1>1, <1>2, BooksInvariant, BillInvariant, PTL DEF BillingSpec, TotalsSettled, bookVars

-----------------------------------------------------------------------------
(* Points and log implement the journal *)

\* The line of the journal that an entry of the log stands for.
CardLine(x) == IF x.points > 0 THEN [from |-> None, to |-> x.vehicle, amount |-> x.points]
               ELSE [from |-> x.vehicle, to |-> None, amount |-> -x.points]
CardLines(log) ==
    [e \in DOMAIN log |->
        LET x == log[e]
        IN  IF x.points > 0 THEN [from |-> None, to |-> x.vehicle, amount |-> x.points]
            ELSE [from |-> x.vehicle, to |-> None, amount |-> -x.points]]

\* The lines are a sequence as long as the log.
LEMMA CardSequence ==
    ASSUME NEW log \in Seq(LoyaltyEntry)
    PROVE  /\ CardLines(log) \in Seq(Card!Transfers) /\ Len(CardLines(log)) = Len(log)
           /\ \A e \in 1..Len(log) : CardLines(log)[e] = CardLine(log[e])
<1> DEFINE lines == CardLines(log)
<1>1. Len(log) \in Nat /\ DOMAIN log = 1..Len(log)
  BY LenProperties
<1>2. \A x \in LoyaltyEntry : CardLine(x) \in Card!Transfers
  BY DEF CardLine, LoyaltyEntry, Card!Transfers
<1>3. DOMAIN lines = 1..Len(log) /\ \A e \in 1..Len(log) : lines[e] = CardLine(log[e])
  BY <1>1 DEF CardLines, CardLine
<1>4. lines = [e \in 1..Len(log) |-> CardLine(log[e])]
  BY <1>1 DEF CardLines, CardLine
<1>5. lines \in [1..Len(log) -> Card!Transfers]
  BY <1>2, <1>4, ElementOfSeq
<1> HIDE DEF lines
<1>6. lines \in Seq(Card!Transfers)
  BY <1>1, <1>5, SeqDef
<1>7. DOMAIN lines = 1..Len(lines) /\ Len(lines) \in Nat
  BY <1>6, LenProperties
<1>8. Len(lines) = Len(log)
  BY <1>1, <1>3, <1>7
<1> QED
  BY <1>3, <1>6, <1>8 DEF lines

\* One line of the log is one entry of the journal and moves its points.
LEMMA CardRecords ==
    ASSUME loyalty \in LoyaltyState, loyalty' \in LoyaltyState, NEW v \in Vehicles,
           NEW type \in LogTypes, NEW p \in Int \ {0}, NEW o \in Nat,
           Logs(loyalty, loyalty', v, type, p, o)
    PROVE  Card!Next
<1> DEFINE log == loyalty.log
           n == Len(log)
           line == LogLine(v, type, p, o)
           lines == CardLines(log)
           after == CardLines(loyalty'.log)
           x == CardLine(line)
           points == loyalty.points
<1>1. /\ log \in Seq(LoyaltyEntry) /\ n \in Nat /\ loyalty'.log \in Seq(LoyaltyEntry)
      /\ points \in [Vehicles -> Nat]
  BY LoyaltyFields
<1>2. line \in LoyaltyEntry /\ line.vehicle = v /\ line.points = p
  BY DEF LogLine, LoyaltyEntry, LogTypes
<1>3. /\ loyalty'.log = Append(log, line) /\ points[v] + p >= 0
      /\ loyalty'.points = [points EXCEPT ![v] = points[v] + p]
  BY DEF Logs
<1>4. /\ Len(loyalty'.log) = n + 1 /\ loyalty'.log[n + 1] = line
      /\ \A e \in 1..n : loyalty'.log[e] = log[e]
  BY <1>1, <1>2, <1>3, AppendProperties
<1>5. /\ lines \in Seq(Card!Transfers) /\ Len(lines) = n
      /\ \A e \in 1..n : lines[e] = CardLine(log[e])
  BY <1>1, CardSequence
<1>6. /\ after \in Seq(Card!Transfers) /\ Len(after) = n + 1
      /\ \A e \in 1..(n + 1) : after[e] = CardLine(loyalty'.log[e])
  BY <1>1, <1>4, CardSequence
<1>7. after[n + 1] = x /\ \A e \in 1..n : after[e] = lines[e]
  BY <1>1, <1>4, <1>5, <1>6
<1>8. x \in Card!Transfers
  BY <1>2 DEF CardLine, LoyaltyEntry, Card!Transfers
<1> HIDE DEF log, n, line, lines, after, x, points
<1>9. after = Append(lines, x)
  <2>1. /\ Append(lines, x) \in Seq(Card!Transfers)
        /\ Len(Append(lines, x)) = n + 1
        /\ \A e \in 1..n : Append(lines, x)[e] = lines[e]
        /\ Append(lines, x)[n + 1] = x
    BY <1>5, <1>8, AppendProperties
  <2>2. \A e \in 1..(n + 1) : after[e] = Append(lines, x)[e]
    BY <1>1, <1>7, <2>1
  <2> QED
    BY <1>6, <2>1, <2>2, SeqEqual
<1>10. v # None /\ None \notin Vehicles
  BY BillingAssumption
<1>11. /\ x.amount \in Nat \ {0} /\ x.from # x.to
       /\ x.from \in Vehicles => points[x.from] >= x.amount
       /\ loyalty'.points = [w \in Vehicles |-> IF w = x.from THEN points[w] - x.amount
                                               ELSE IF w = x.to THEN points[w] + x.amount
                                               ELSE points[w]]
  <2> DEFINE paid(w)  == IF w = v THEN points[w] + p ELSE points[w]
             moved(w) == IF w = x.from THEN points[w] - x.amount
                         ELSE IF w = x.to THEN points[w] + x.amount
                         ELSE points[w]
  <2>1. loyalty'.points = [w \in Vehicles |-> paid(w)]
    BY <1>1, <1>3
  <2>2. /\ x.amount \in Nat \ {0} /\ x.from # x.to
        /\ x.from \in Vehicles => points[x.from] >= x.amount
        /\ \A w \in Vehicles : paid(w) = moved(w)
    <3>1. CASE p > 0
      <4>1. x.from = None /\ x.to = v /\ x.amount = p
        BY <1>2, <3>1 DEF CardLine, x
      <4>2. \A w \in Vehicles : w # None
        BY <1>10
      <4>3. x.amount \in Nat \ {0} /\ x.from # x.to /\ x.from \notin Vehicles
        BY <1>10, <3>1, <4>1
      <4>4. \A w \in Vehicles : paid(w) = moved(w)
        BY <4>1, <4>2
      <4> QED
        BY <4>3, <4>4
    <3>2. CASE p < 0
      <4>1. x.from = v /\ x.to = None /\ x.amount = -p
        BY <1>2, <3>2 DEF CardLine, x
      <4>2. points[v] \in Nat /\ \A w \in Vehicles : w # None /\ points[w] \in Nat
        BY <1>1, <1>10
      <4>3. x.amount \in Nat \ {0} /\ x.from # x.to
        BY <1>10, <3>2, <4>1
      <4>4. points[x.from] >= x.amount
        BY <1>3, <3>2, <4>1, <4>2
      <4>5. \A w \in Vehicles : paid(w) = moved(w)
        BY <3>2, <4>1, <4>2
      <4> QED
        BY <4>3, <4>4, <4>5
    <3> QED
      BY <3>1, <3>2
  <2> HIDE DEF paid, moved
  <2>3. [w \in Vehicles |-> paid(w)] = [w \in Vehicles |-> moved(w)]
    BY <2>2
  <2> QED
    BY <2>1, <2>2, <2>3 DEF moved
<1>12. Len(after) = Len(lines) + 1 /\ after[Len(after)] = x
  BY <1>5, <1>6, <1>7
<1>13. LET y == after[Len(after)]
       IN  /\ y \in Card!Transfers
           /\ y.amount \in Nat \ {0}
           /\ y.from # y.to
           /\ y.from \in Vehicles => points[y.from] >= y.amount
           /\ after = Append(lines, y)
           /\ loyalty'.points = [w \in Vehicles |-> IF w = y.from THEN points[w] - y.amount
                                                   ELSE IF w = y.to THEN points[w] + y.amount
                                                   ELSE points[w]]
  BY <1>8, <1>9, <1>11, <1>12
<1> QED
  BY <1>12, <1>13, Zenon DEF Card!Next, Card!Record, lines, after, points, log, CardLines

LEMMA CardInit == BillingInit => Card!Init
<1> SUFFICES ASSUME BillingInit PROVE Card!Init
  OBVIOUS
<1>1. loyalty.points = [v \in Vehicles |-> 0] /\ loyalty.log = << >>
  BY DEF BillingInit, EmptyLoyalty
<1> QED
  BY <1>1 DEF Card!Init

LEMMA CardStep ==
    BooksInv /\ BooksInv' /\ CardMoves => [Card!Next]_Card!vars
<1> SUFFICES ASSUME BooksInv, BooksInv', CardMoves PROVE Card!Next \/ UNCHANGED Card!vars
  OBVIOUS
<1>1. loyalty \in LoyaltyState /\ loyalty' \in LoyaltyState
  BY DEF BooksInv, PaperInv, BooksTyped
<1>2. CASE loyalty'.points = loyalty.points /\ loyalty'.log = loyalty.log
  BY <1>2 DEF Card!vars
<1>3. ASSUME NEW v \in Vehicles, NEW type \in LogTypes, NEW p \in Int \ {0}, NEW o \in Nat,
             Logs(loyalty, loyalty', v, type, p, o)
      PROVE  Card!Next
  BY <1>1, <1>3, CardRecords
<1> QED
  BY <1>2, <1>3 DEF CardMoves

\* A vehicle's points change only with an entry of its log, by exactly its points, and
\* never below zero (docs/LOYALTY.md), whatever is paid, reversed, redeemed, cancelled
\* and corrected.
THEOREM PointsCorrect == BillingSpec => PointsImplementJournal
<1>1. BillInv => FinanceTypeOK
  BY DEF BillInv, MoneyInv
<1>2. BooksInv /\ FinanceTypeOK /\ [BillingNext]_bookVars => [Card!Next]_Card!vars
  BY BooksKept, CardStep
<1>3. BillingSpec => Card!Spec
  BY <1>1, <1>2, CardInit, BooksInvariant, BillInvariant, PTL
     DEF BillingSpec, bookVars, Card!Spec
<1> QED
  BY <1>3 DEF PointsImplementJournal
=============================================================================
