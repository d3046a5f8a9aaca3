------------------------------- MODULE Billing -------------------------------
(***************************************************************************)
(* functions/src/billing.js and loyalty.js: a completed job becomes an     *)
(* invoice, the invoice is discounted or paid for with a reward, paid,     *)
(* put on credit, its payments reversed, and cancelled.  Every payment     *)
(* posts to the ledger of Finance in the same transaction, and the one     *)
(* that pays the invoice in full earns the vehicle's points.               *)
(*                                                                         *)
(* As in Finance, a callable is one serializable transaction, so one step; *)
(* a refused or retried call is a stutter.  Jobs are here from the moment  *)
(* they are completed (jobs.js is not part of this module): what counts is *)
(* their vehicle, what their services cost and how many of them earn       *)
(* points, all copied onto the invoice.                                    *)
(***************************************************************************)
EXTENDS Finance, Loyalty

CONSTANTS
    Intakes,          \* completed jobs
    VehicleOf, PriceOf, QualifyingOf,   \* of each job
    Discounts,        \* the manual discounts people enter, in shillings
    Adjustments,      \* the points people add or remove by hand
    PaymentRequests,  \* request ids the cashiers' clients choose
    MaxInvoices,      \* bound: invoices
    MaxLog            \* bound: entries in the loyalty log

ASSUME BillingAssumption ==
    /\ VehicleOf \in [Intakes -> Vehicles]
    /\ PriceOf \in [Intakes -> Nat]
    /\ QualifyingOf \in [Intakes -> Nat]
    /\ Discounts \subseteq Nat \ {0}
    /\ Adjustments \subseteq Int \ {0}
    /\ None \notin Vehicles          \* a vehicle is a document

VARIABLES
    invoices,    \* in the order they were numbered
    invoiceOf,   \* service_intakes[].invoiceId, 0 if none
    payments,    \* with their receipts, in the order they were numbered
    paidBy,      \* unique_keys/payment_request_*: request id -> payment, 0 if none
    loyalty      \* see Loyalty

billingVars == <<invoices, invoiceOf, payments, paidBy, loyalty>>

-----------------------------------------------------------------------------
(* Invoices *)

Invoice == [intake: Intakes, discount: Nat, source: {"none", "manual", "loyalty_reward"},
            paid: Nat, cancelled: BOOLEAN, onCredit: BOOLEAN,
            earned: BOOLEAN, earnEntry: Nat,      \* loyaltyEarnTransactionId
            reward: Nat, redeemEntry: Nat]        \* loyaltyRedeemTransactionId
Payment == [invoice: Nat, amount: Amount, entry: Nat, live: BOOLEAN]

NewInvoice(j) ==
    [intake |-> j, discount |-> 0, source |-> "none", paid |-> 0, cancelled |-> FALSE,
     onCredit |-> FALSE, earned |-> FALSE, earnEntry |-> 0, reward |-> 0, redeemEntry |-> 0]

SubtotalOf(inv) == PriceOf[inv.intake]
TotalOf(inv) == SubtotalOf(inv) - inv.discount
Outstanding(inv) == TotalOf(inv) - inv.paid
Vehicle(inv) == VehicleOf[inv.intake]

\* Half-up whole-shilling percentage.
PercentOf(amount, percent) == (amount * percent + 50) \div 100

Invoicable(j) == invoiceOf[j] = 0

CreateInvoice(j) ==
    /\ Invoicable(j)
    /\ Len(invoices) < MaxInvoices
    /\ invoices' = Append(invoices, NewInvoice(j))
    /\ invoiceOf' = [invoiceOf EXCEPT ![j] = Len(invoices) + 1]
    /\ UNCHANGED <<payments, paidBy, loyalty, financeVars>>

\* Mutant: a discount may follow a payment it still leaves room for.
DiscountableLate(inv) == ~inv.cancelled /\ inv.source = "none"

\* One discount per invoice, and only before any payment.
Discountable(inv) == ~inv.cancelled /\ inv.source = "none" /\ inv.paid = 0

\* A discount above a quarter of the subtotal takes an approver; the step is
\* that of a caller who may give it.
ApplyInvoiceDiscount(i, amount) ==
    /\ Discountable(invoices[i])
    /\ amount <= SubtotalOf(invoices[i])
    /\ invoices' = [invoices EXCEPT ![i].discount = amount, ![i].source = "manual"]
    /\ UNCHANGED <<invoiceOf, payments, paidBy, loyalty, financeVars>>

\* The client names the amount it previewed; only the right one is accepted.
ApplyLoyaltyReward(i) ==
    LET inv == invoices[i]
        amount == PercentOf(SubtotalOf(inv), RewardPercent)
    IN  /\ Discountable(inv)
        /\ amount > 0
        /\ \E w \in Available(loyalty.rewards, Vehicle(inv)) :
              /\ loyalty.points[Vehicle(inv)] >= loyalty.rewards[w].cost
              /\ Len(loyalty.log) < MaxLog
              /\ loyalty' = Redeemed(loyalty, w, i)
              /\ invoices' = [invoices EXCEPT
                     ![i].discount = amount, ![i].source = "loyalty_reward",
                     ![i].reward = w, ![i].redeemEntry = Len(loyalty.log) + 1]
        /\ UNCHANGED <<invoiceOf, payments, paidBy, financeVars>>

MarkInvoiceCredit(i) ==
    /\ ~invoices[i].cancelled
    /\ Outstanding(invoices[i]) > 0
    /\ ~invoices[i].onCredit
    /\ invoices' = [invoices EXCEPT ![i].onCredit = TRUE]
    /\ UNCHANGED <<invoiceOf, payments, paidBy, loyalty, financeVars>>

-----------------------------------------------------------------------------
(* Payments *)

PointsFor(inv) == QualifyingOf[inv.intake] * PointsPerService

\* Mutant: a part payment earns the points too.
EarnsOnPart(inv, n) == ~inv.earned /\ PointsFor(inv) > 0

\* The payment that leaves nothing outstanding earns the points.
Earns(inv, n) == n = Outstanding(inv) /\ ~inv.earned /\ PointsFor(inv) > 0

\* What a cashier may take: never more than is owed.
Collectable(inv, n) == ~inv.cancelled /\ n <= Outstanding(inv)

\* Mutant: the stored request is not looked up.
FirstTimeUnchecked(r) == TRUE

FirstTime(r) == paidBy[r] = 0

RecordPayment(r, i, method, requested, n) ==
    LET inv == invoices[i]
        earns == Earns(inv, n)
    IN  /\ FirstTime(r)
        /\ Collectable(inv, n)
        /\ PostCustomerPayment(method, requested, n)
        /\ earns => Len(loyalty.log) < MaxLog
        /\ loyalty' = IF earns THEN Applied(loyalty, Vehicle(inv), "earned", PointsFor(inv), 0)
                      ELSE loyalty
        /\ invoices' = [invoices EXCEPT
               ![i].paid = @ + n,
               ![i].earned = @ \/ earns,
               ![i].earnEntry = IF earns THEN Len(loyalty.log) + 1 ELSE @]
        /\ payments' = Append(payments,
               [invoice |-> i, amount |-> n, entry |-> NextNumber, live |-> TRUE])
        /\ paidBy' = [paidBy EXCEPT ![r] = Len(payments) + 1]
        /\ UNCHANGED invoiceOf

\* Mutant: everything paid is taken off the invoice, not just this payment.
WithoutAnyPayment(inv, n) == [inv EXCEPT !.paid = 0, !.earned = FALSE, !.earnEntry = 0]

\* The invoice once a payment of n is reversed: owed again, and no longer earned.
WithoutPayment(inv, n) == [inv EXCEPT !.paid = @ - n, !.earned = FALSE, !.earnEntry = 0]

\* What a reversal takes back of the invoice's points.
LoyaltyWithout(inv) == IF inv.earned THEN TakenBack(loyalty, inv.earnEntry) ELSE loyalty

ReversePayment(k) ==
    LET p == payments[k]
        inv == invoices[p.invoice]
    IN  /\ p.live
        /\ ReverseCustomerPayment(p.entry)
        /\ inv.earned => Len(loyalty.log) < MaxLog
        /\ loyalty' = LoyaltyWithout(inv)
        /\ invoices' = [invoices EXCEPT ![p.invoice] = WithoutPayment(inv, p.amount)]
        /\ payments' = [payments EXCEPT ![k].live = FALSE]
        /\ UNCHANGED <<invoiceOf, paidBy>>

-----------------------------------------------------------------------------
(* Cancellation *)

Cancellable(inv) == ~inv.cancelled /\ inv.paid = 0

\* Mutant: the job keeps the number of its cancelled invoice.
JobsStillInvoiced(i) == invoiceOf

\* The job can be invoiced again, if this is still its invoice.
JobsWithout(i) == [j \in Intakes |-> IF invoiceOf[j] = i THEN 0 ELSE invoiceOf[j]]

\* Mutant: the redeemed reward is not given back.
LoyaltyKept(inv) == LoyaltyWithout(inv)

\* Points earned are taken back, a redeemed reward is given back.
LoyaltyCancelling(inv) ==
    IF inv.reward = 0 THEN LoyaltyWithout(inv)
    ELSE Restored(LoyaltyWithout(inv), inv.reward, inv.redeemEntry)

CancelInvoice(i) ==
    LET inv == invoices[i]
    IN  /\ Cancellable(inv)
        /\ inv.reward # 0 => Len(loyalty.log) < MaxLog
        /\ loyalty' = LoyaltyCancelling(inv)
        /\ invoices' = [invoices EXCEPT ![i].cancelled = TRUE]
        /\ invoiceOf' = JobsWithout(i)
        /\ UNCHANGED <<payments, paidBy, financeVars>>

-----------------------------------------------------------------------------
(* Corrections of points by hand (loyalty.js) *)

AdjustLoyaltyPoints(v, points) ==
    /\ CanApply(loyalty, v, points)
    /\ Len(loyalty.log) < MaxLog
    /\ loyalty' = Applied(loyalty, v, "adjustment", points, 0)
    /\ UNCHANGED <<invoices, invoiceOf, payments, paidBy, financeVars>>

\* A redemption is undone by cancelling its invoice, a reversal never.
ReversibleByHand(e) == loyalty.log[e].type \in {"earned", "adjustment"} /\ e \notin loyalty.undone

ReverseLoyaltyTransaction(e) ==
    /\ ReversibleByHand(e)
    /\ CanApply(loyalty, loyalty.log[e].vehicle, -loyalty.log[e].points)
    /\ Len(loyalty.log) < MaxLog
    /\ loyalty' = Undone(loyalty, e)
    /\ UNCHANGED <<invoices, invoiceOf, payments, paidBy, financeVars>>

-----------------------------------------------------------------------------
BillingInit ==
    /\ FinanceInit
    /\ invoices = << >>
    /\ invoiceOf = [j \in Intakes |-> 0]
    /\ payments = << >>
    /\ paidBy = [r \in PaymentRequests |-> 0]
    /\ loyalty = EmptyLoyalty

Invoicing ==
    \/ \E j \in Intakes : CreateInvoice(j)
    \/ \E i \in DOMAIN invoices :
          \/ \E amount \in Discounts : ApplyInvoiceDiscount(i, amount)
          \/ ApplyLoyaltyReward(i)
          \/ MarkInvoiceCredit(i)
          \/ CancelInvoice(i)

Paying ==
    \/ \E r \in PaymentRequests, i \in DOMAIN invoices, method \in Defaults, n \in Amounts :
          RecordPayment(r, i, method, None, n)
    \/ \E k \in DOMAIN payments : ReversePayment(k)

CorrectingPoints ==
    \/ \E v \in Vehicles, points \in Adjustments : AdjustLoyaltyPoints(v, points)
    \/ \E e \in DOMAIN loyalty.log : ReverseLoyaltyTransaction(e)

\* Meanwhile the cash is taken to the bank, so that a reversal may be refused.
Banking ==
    /\ \E r \in RequestIds, n \in Amounts : RecordBankDeposit(r, Cash, Bank1, n)
    /\ UNCHANGED billingVars

BillingNext == Invoicing \/ Paying \/ CorrectingPoints \/ Banking

BillingSpec == BillingInit /\ [][BillingNext]_<<financeVars, billingVars>>

-----------------------------------------------------------------------------
(* Properties *)

\* Every document has the shape the code writes; no total, paid amount or
\* outstanding amount is ever negative ("this must never be reachable",
\* billing.js:82), however payments, discounts and reversals interleave.
BillingTypeOK ==
    /\ invoices \in Seq(Invoice)
    /\ \A i \in DOMAIN invoices :
          TotalOf(invoices[i]) \in Nat /\ Outstanding(invoices[i]) \in Nat
    /\ invoiceOf \in [Intakes -> Nat]
    /\ payments \in Seq(Payment)
    /\ paidBy \in [PaymentRequests -> Nat]
    /\ loyalty \in LoyaltyState

\* The live payments on an invoice add up to what the invoice says was paid, and to no
\* more than its total, however payments and reversals of several invoices interleave.
PaymentsAddUp ==
    /\ BillingTypeOK
    /\ \A i \in DOMAIN invoices :
           invoices[i].paid = SumOver(LAMBDA k : payments[k].amount,
                                 {k \in DOMAIN payments : payments[k].invoice = i /\ payments[k].live})

\* Each payment stands exactly while its own ledger entry does, for its amount,
\* and no two payments share an entry: reversing one never undoes another's money.
PaymentsMatchLedger ==
    /\ \A k \in DOMAIN payments :
          LET e == ledger[payments[k].entry]
          IN  /\ payments[k].entry \in EntryNumbers
              /\ e.type = "customer_payment"
              /\ e.amount = payments[k].amount
              /\ e.posted <=> payments[k].live
    /\ \A k, l \in DOMAIN payments : payments[k].entry = payments[l].entry => k = l

\* A job has at most one invoice that is not cancelled, and names exactly that
\* one: work is never invoiced twice, nor lost to invoicing after a cancellation.
OneInvoicePerJob ==
    \A j \in Intakes :
        {i \in DOMAIN invoices : invoices[i].intake = j /\ ~invoices[i].cancelled}
          = {invoiceOf[j]} \ {0}

\* A cashier's retry of a payment (lost response, double tap) pays nothing more:
\* every payment is the stored result of its own request.
RetriesPayOnce ==
    \A k \in DOMAIN payments : Cardinality({r \in PaymentRequests : paidBy[r] = k}) = 1

\* Points are held for an invoice only while it stands fully paid, by an earned
\* entry of its vehicle for the right points that no other invoice counts on.
EarnedWhilePaid ==
    \A i \in DOMAIN invoices : invoices[i].earned =>
        LET inv == invoices[i]
            entry == loyalty.log[inv.earnEntry]
        IN  /\ Outstanding(inv) = 0 /\ inv.paid > 0 /\ ~inv.cancelled
            /\ entry.type = "earned" /\ entry.vehicle = Vehicle(inv)
            /\ entry.points = PointsFor(inv)
            /\ \A h \in DOMAIN invoices \ {i} : invoices[h].earnEntry # inv.earnEntry

\* However payments are reversed and entries corrected by hand, no entry of the
\* loyalty log is reversed twice, and no redemption while its reward is in use.
UndoneOnce ==
    /\ \A e \in DOMAIN loyalty.log :
          LET undoing == {u \in DOMAIN loyalty.log : loyalty.log[u].of = e}
          IN  /\ Cardinality(undoing) <= 1
              /\ undoing # {} => e \in loyalty.undone
              /\ \A u \in undoing : u > e /\ loyalty.log[u].vehicle = loyalty.log[e].vehicle
    /\ \A i \in DOMAIN invoices : invoices[i].reward # 0 =>
          (invoices[i].redeemEntry \in loyalty.undone <=> invoices[i].cancelled)

\* One available reward per vehicle, offered exactly when the points allow: at
\* the threshold there is one, and while it is there the points cover its cost.
\* The code does not check that the cost is within the threshold (README).
RewardsFollowPoints ==
    RewardCost <= RewardThreshold =>
        \A v \in Vehicles :
            LET open == Available(loyalty.rewards, v)
            IN  /\ Cardinality(open) <= 1
                /\ loyalty.points[v] >= RewardThreshold => open # {}
                /\ \A w \in open : loyalty.points[v] >= loyalty.rewards[w].cost

\* A redeemed reward is the discount of exactly one invoice that stands, and a
\* reward given back belongs to one that was cancelled: no reward is used twice.
RewardsUsedOnce ==
    /\ \A w \in DOMAIN loyalty.rewards :
          LET users == {i \in DOMAIN invoices : invoices[i].reward = w}
          IN  CASE loyalty.rewards[w].status = "redeemed" ->
                     \E i \in users : users = {i} /\ ~invoices[i].cancelled
                [] loyalty.rewards[w].status = "reversed" ->
                     \E i \in users : users = {i} /\ invoices[i].cancelled
                [] OTHER -> users = {}
    /\ \A i \in DOMAIN invoices :
          invoices[i].reward # 0 <=> invoices[i].source = "loyalty_reward"

\* What a customer owes in total never changes once money was taken for it, and
\* a cancelled invoice never changes again, whatever is reversed or paid later.
TotalsSettled ==
    [][\A i \in DOMAIN invoices :
          /\ invoices[i].paid > 0 => TotalOf(invoices'[i]) = TotalOf(invoices[i])
          /\ invoices[i].cancelled => invoices'[i] = invoices[i]
      ]_<<financeVars, billingVars>>

\* The points, seen as the abstract journal: points come from and go to the world
\* outside, one log entry at a time, and a vehicle never has less than none.
Card == INSTANCE Journal WITH
    Accounts <- Vehicles,
    Outside <- None,
    journal <- [e \in DOMAIN loyalty.log |->
                  LET x == loyalty.log[e]
                  IN  IF x.points > 0 THEN [from |-> None, to |-> x.vehicle, amount |-> x.points]
                      ELSE [from |-> x.vehicle, to |-> None, amount |-> -x.points]],
    balance <- loyalty.points

\* Every change of a vehicle's points is one immutable log entry, and the balance
\* is the sum of the entries (docs/LOYALTY.md).
PointsImplementJournal == Card!Spec
=============================================================================
