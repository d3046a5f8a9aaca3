------------------------------- MODULE Finance -------------------------------
(***************************************************************************)
(* functions/src/finance.js: the financial accounts, the ledger and its    *)
(* reversals, bank deposits, reconciliations and adjustments, the daily    *)
(* summaries and the list of bank accounts a cashier may choose from.      *)
(*                                                                         *)
(* Every callable reads and writes inside one serializable Firestore       *)
(* transaction, so every callable is one atomic step.  A call the code     *)
(* refuses changes nothing and is a stutter; a retried call with a stored  *)
(* request id returns the stored result and is a stutter too.  The steps   *)
(* are those of callers who hold the permission the callable asks for.     *)
(* A call is dated by the day it arrives on; here it commits that day too. *)
(*                                                                         *)
(* Customer payments are posted here by billing.js through                 *)
(* postCustomerPayment and postReversal: their ledger part is modelled     *)
(* here, the invoice part in Billing.                                      *)
(***************************************************************************)
EXTENDS Ledger, FiniteSets, FiniteSetsExt

CONSTANTS
    Amounts,     \* the amounts callers ask for
    Counts,      \* the counted balances a reconciliation may report
    MaxEntries,  \* bound: entries in the ledger
    MaxRecs,     \* bound: reconciliations
    MaxDay       \* bound: business days

ASSUME BoundAssumption ==
    /\ Amounts \subseteq Amount
    /\ Counts \subseteq Nat
    /\ MaxEntries \in Nat
    /\ MaxRecs \in Nat
    /\ MaxDay \in Nat \ {0}

VARIABLES
    accounts,  \* financial_accounts: the data of every account id
    created,   \* the ids whose document exists
    ledger,    \* financial_transactions, in the order they were numbered
    deposits,  \* bank_deposits: [txn, status]
    recs,      \* reconciliations
    requests,  \* unique_keys/request_*: request id -> stored result
    daily,     \* finance_daily_summaries, by business day
    day,       \* today's business day
    listed     \* settings/payment_accounts: the banks a cashier is offered

financeVars == <<accounts, created, ledger, deposits, recs, requests, daily, day, listed>>

-----------------------------------------------------------------------------
(* Documents *)

Days == 1..MaxDay
Deposit == [txn: Nat, status: {"completed", "reversed"}]
Reconciliation == [account: AccountIds, system: Nat, actual: Nat,
                   status: {"balanced", "discrepancy", "adjusted"}, adjustment: Nat]
\* kind and the number of what was created: an entry or a reconciliation.  A
\* "payment" is one that Spending, Stock, Payroll or Shares posted.
StoredResult == [kind: {"unused", "transfer", "deposit", "adjustment", "reconciliation",
                        "payment"},
                 number: Nat]
Unused == [kind |-> "unused", number |-> 0]

\* One day's totals: customer payments and their reversals, and what moved in
\* and out of each account.  The other headings of the document are kept the
\* same way as these.
Summary == [payments: Nat, paymentReversals: Nat,
            in: [AccountIds -> Nat], out: [AccountIds -> Nat]]
EmptySummary == [payments |-> 0, paymentReversals |-> 0,
                 in |-> [a \in AccountIds |-> 0], out |-> [a \in AccountIds |-> 0]]

NextNumber == Len(ledger) + 1

\* Mutant: the stored request is not looked up.
FreshUnchecked(r) == TRUE

Fresh(r) == requests[r] = Unused
Store(r, kind, n) == requests' = [requests EXCEPT ![r] = [kind |-> kind, number |-> n]]

-----------------------------------------------------------------------------
(* The ledger, as openLedger, post, postReversal and commit use it *)

\* A missing default account is readable (it will be created); a missing other
\* account is refused.
Usable(a) == a \in Defaults \cup created
Active(a) == Usable(a) /\ accounts[a].active

\* Mutant: the reversal of a payment is not counted.
SummarisedOneWay(s, e) ==
    [s EXCEPT
        !.payments = IF e.type = "customer_payment" THEN @ + e.amount ELSE @,
        !.in = [a \in AccountIds |-> IF a = e.to THEN @[a] + e.amount ELSE @[a]],
        !.out = [a \in AccountIds |-> IF a = e.from THEN @[a] + e.amount ELSE @[a]]]

\* Mutant: a reversal counts as money in where it goes out.
SummarisedSwapped(s, e) ==
    LET in == IF e.type = "reversal" THEN e.from ELSE e.to
    IN  [s EXCEPT
            !.payments = IF e.type = "customer_payment" THEN @ + e.amount ELSE @,
            !.in = [a \in AccountIds |-> IF a = in THEN @[a] + e.amount ELSE @[a]]]

\* What an entry adds to the summary of its day.
Summarised(s, e) ==
    [s EXCEPT
        !.payments = IF e.type = "customer_payment" THEN @ + e.amount ELSE @,
        !.paymentReversals = IF e.type = "reversal" /\ e.reversalOfType = "customer_payment"
                             THEN @ + e.amount ELSE @,
        !.in = [a \in AccountIds |-> IF a = e.to THEN @[a] + e.amount ELSE @[a]],
        !.out = [a \in AccountIds |-> IF a = e.from THEN @[a] + e.amount ELSE @[a]]]

\* Appends entry e to the ledger and writes the accounts it touched, creating
\* those that were missing.  accts are the accounts just before the money moves.
Commit(accts, entries, e) ==
    /\ WellFormed(e)
    /\ Affordable(accts, e)
    /\ Len(ledger) < MaxEntries
    /\ accounts' = AfterPosting(accts, e)
    /\ created' = created \cup ({e.from, e.to} \ {None})
    /\ ledger' = Append(entries, [e EXCEPT !.day = day])
    /\ daily' = [daily EXCEPT ![day] = Summarised(@, e)]

Post(e) == Commit(accounts, ledger, e)

\* Posts the mirror of entry i and marks entry i reversed.
PostReversal(accts, i) ==
    /\ CanReverse(ledger[i])
    /\ Commit(accts, [ledger EXCEPT ![i] = MarkReversed(@, NextNumber)],
              MirrorOf(ledger[i], i))

-----------------------------------------------------------------------------
(* Customer payments: the ledger part of billing.js *)

\* Mutant: inactive banks are listed too.
AllBanks(accts, docs) == {a \in docs : accts[a].type = "bank"}

ActiveBanks(accts, docs) == {a \in docs : accts[a].type = "bank" /\ accts[a].active}

\* resolvePaymentAccount: a payment method is named by the default account that
\* stands for it (Bank1: "by bank"); requested is the account the cashier chose.
PaymentGoesTo(method, requested, a) ==
    IF method # Bank1
    THEN a = method /\ requested \in {None, method}
    ELSE \/ requested # None /\ a = requested
         \/ requested = None /\ ActiveBanks(accounts, created) = {a}
         \/ requested = None /\ ActiveBanks(accounts, created) = {} /\ a = Bank1

PostCustomerPayment(method, requested, n) ==
    \E a \in AccountIds :
        /\ PaymentGoesTo(method, requested, a)
        /\ Active(a)
        /\ accounts[a].type = DefaultType(method)
        /\ Post(NewEntry("customer_payment", n, None, a))
        /\ UNCHANGED <<deposits, recs, requests, day, listed>>

\* reversePayment sends the money back out of the account it came into.
ReverseCustomerPayment(i) ==
    /\ ledger[i].type = "customer_payment"
    /\ PostReversal(accounts, i)
    /\ UNCHANGED <<deposits, recs, requests, day, listed>>

-----------------------------------------------------------------------------
(* Accounts *)

\* Creates the documents of the default accounts that have none yet.
EnsureDefaultAccounts ==
    /\ created' = created \cup Defaults
    /\ listed' = ActiveBanks(accounts, created')
    /\ UNCHANGED <<accounts, ledger, deposits, recs, requests, daily, day>>

CreateAccount(a, type, opening) ==
    LET new == [accounts EXCEPT ![a] =
                   [NewAccount(type) EXCEPT !.openingRecorded = opening > 0]]
    IN  /\ a \notin created
        /\ IF opening > 0
           THEN Commit(new, ledger, NewEntry("opening_balance", opening, None, a))
           ELSE /\ accounts' = new
                /\ created' = created \cup {a}
                /\ UNCHANGED <<ledger, daily>>
        /\ listed' = ActiveBanks(accounts', created \cup {a})
        /\ UNCHANGED <<deposits, recs, requests, day>>

\* A rename leaves "active" as it was.  Deactivation is refused for the accounts
\* customers pay into and while the account holds money.
UpdateAccount(a, active) ==
    /\ Usable(a)
    /\ (accounts[a].active /\ ~active) => a \notin {Cash} \cup Mobile /\ accounts[a].balance = 0
    /\ accounts' = [accounts EXCEPT ![a].active = active]
    /\ created' = created \cup {a}
    /\ listed' = ActiveBanks(accounts', created')
    /\ UNCHANGED <<ledger, deposits, recs, requests, daily, day>>

RecordOpeningBalance(a, n) ==
    /\ Active(a)
    /\ ~accounts[a].openingRecorded
    /\ Commit([accounts EXCEPT ![a].openingRecorded = TRUE], ledger,
              NewEntry("opening_balance", n, None, a))
    /\ UNCHANGED <<deposits, recs, requests, day, listed>>

-----------------------------------------------------------------------------
(* Transfers and bank deposits *)

TransferFunds(r, from, to, n) ==
    /\ Fresh(r)
    /\ Active(from) /\ Active(to)
    /\ Post([NewEntry("account_transfer", n, from, to) EXCEPT !.request = r])
    /\ Store(r, "transfer", NextNumber)
    /\ UNCHANGED <<deposits, recs, day, listed>>

RecordBankDeposit(r, from, bank, n) ==
    /\ Fresh(r)
    /\ Active(from) /\ Active(bank)
    /\ accounts[bank].type = "bank" /\ accounts[from].type # "bank"
    /\ Post([NewEntry("bank_deposit", n, from, bank) EXCEPT
                !.about = Len(deposits) + 1, !.request = r])
    /\ deposits' = Append(deposits, [txn |-> NextNumber, status |-> "completed"])
    /\ Store(r, "deposit", Len(deposits) + 1)
    /\ UNCHANGED <<recs, day, listed>>

-----------------------------------------------------------------------------
(* Reconciliation and adjustments *)

\* Records the difference; the balance is not touched, and a missing default
\* account is not created.
ReconcileAccount(r, a, actual) ==
    /\ Fresh(r)
    /\ Usable(a)
    /\ Len(recs) < MaxRecs
    /\ recs' = Append(recs,
          [account |-> a, system |-> accounts[a].balance, actual |-> actual,
           status |-> IF actual = accounts[a].balance THEN "balanced" ELSE "discrepancy",
           adjustment |-> 0])
    /\ Store(r, "reconciliation", Len(recs) + 1)
    /\ UNCHANGED <<accounts, created, ledger, deposits, daily, day, listed>>

\* The entry that moves a by n, in (TRUE) or out (FALSE).
Adjustment(a, in, n) ==
    IF in THEN NewEntry("adjustment", n, None, a) ELSE NewEntry("adjustment", n, a, None)

\* Mutant: the direction of the adjustment is not compared.
SameSize(q, in, n) == n = (IF q.actual > q.system THEN q.actual - q.system ELSE q.system - q.actual)

\* The difference of reconciliation q is n, in that direction.
ExactDifference(q, in, n) ==
    IF q.actual > q.system THEN in /\ n = q.actual - q.system
    ELSE ~in /\ n = q.system - q.actual

\* k = 0: an adjustment that closes no reconciliation.
RecordAdjustment(r, a, in, n, k) ==
    /\ Fresh(r)
    /\ k # 0 => /\ recs[k].account = a
                /\ recs[k].status = "discrepancy"
                /\ ExactDifference(recs[k], in, n)
    /\ Active(a)
    /\ Post([Adjustment(a, in, n) EXCEPT !.about = k, !.request = r])
    /\ recs' = IF k = 0 THEN recs
               ELSE [recs EXCEPT ![k].status = "adjusted", ![k].adjustment = NextNumber]
    /\ Store(r, "adjustment", NextNumber)
    /\ UNCHANGED <<deposits, day, listed>>

-----------------------------------------------------------------------------
(* Reversals of what was entered by hand *)

\* Mutant: the flag is left set.
ReopenedNever(accts, e) == accts

\* Reversing an opening balance lets it be recorded again.
Reopened(accts, e) ==
    IF e.type = "opening_balance" THEN [accts EXCEPT ![e.to].openingRecorded = FALSE]
    ELSE accts

\* Mutant: the deposit keeps its status.
DepositsKept(e) == deposits

DepositsAfterReversing(e) ==
    IF e.type = "bank_deposit" THEN [deposits EXCEPT ![e.about].status = "reversed"]
    ELSE deposits

\* Reversed from the invoice, the payroll or the share records instead.
ReversedElsewhere == {"customer_payment"} \cup PayTypes \cup OwnershipTypes

\* What the reversal of a payment does to the expense or purchase it paid is in
\* Spending and Stock.
ReverseTransaction(i) ==
    /\ ledger[i].type \notin ReversedElsewhere
    /\ PostReversal(Reopened(accounts, ledger[i]), i)
    /\ deposits' = DepositsAfterReversing(ledger[i])
    /\ UNCHANGED <<recs, requests, day, listed>>

NextDay ==
    /\ day < MaxDay
    /\ day' = day + 1
    /\ UNCHANGED <<accounts, created, ledger, deposits, recs, requests, daily, listed>>

-----------------------------------------------------------------------------
FinanceInit ==
    /\ accounts = [a \in AccountIds |-> NewAccount(DefaultType(a))]
    /\ created = {}
    /\ ledger = << >>
    /\ deposits = << >>
    /\ recs = << >>
    /\ requests = [r \in RequestIds |-> Unused]
    /\ daily = [d \in Days |-> EmptySummary]
    /\ day = 1
    /\ listed = {}

Payments == \E method \in Defaults, n \in Amounts, requested \in AccountIds \cup {None} :
                PostCustomerPayment(method, requested, n)

AccountChanges ==
    \/ EnsureDefaultAccounts
    \/ \E a \in Extra, type \in {"mobile_money", "bank"}, n \in Amounts \cup {0} :
          CreateAccount(a, type, n)
    \/ \E a \in AccountIds, active \in BOOLEAN : UpdateAccount(a, active)
    \/ \E a \in AccountIds, n \in Amounts : RecordOpeningBalance(a, n)

Movements == \E r \in RequestIds, from, to \in AccountIds, n \in Amounts :
    TransferFunds(r, from, to, n) \/ RecordBankDeposit(r, from, to, n)

Corrections == \E r \in RequestIds, a \in AccountIds :
    \/ \E actual \in Counts : ReconcileAccount(r, a, actual)
    \/ \E in \in BOOLEAN, n \in Amounts, k \in {0} \cup DOMAIN recs :
          RecordAdjustment(r, a, in, n, k)

Reversals == \E i \in DOMAIN ledger : ReverseTransaction(i) \/ ReverseCustomerPayment(i)

FinanceNext == Payments \/ AccountChanges \/ Movements \/ Corrections \/ Reversals \/ NextDay

FinanceSpec == FinanceInit /\ [][FinanceNext]_financeVars

-----------------------------------------------------------------------------
(* Properties *)

\* Every document has the shape the code writes; balances are never negative.
FinanceTypeOK ==
    /\ accounts \in [AccountIds -> Account]
    /\ created \subseteq AccountIds
    /\ ledger \in Seq(Entry)
    /\ deposits \in Seq(Deposit)
    /\ recs \in Seq(Reconciliation)
    /\ requests \in [RequestIds -> StoredResult]
    /\ daily \in [Days -> Summary]
    /\ day \in Days
    /\ listed \subseteq AccountIds

SumOver(f(_), S) == MapThenSumSet(f, S)
EntryNumbers == DOMAIN ledger

\* Cash awaiting banking is part of the cash, and only the cash account has any:
\* spending, banking and reversing in any order never lets it exceed the balance.
AwaitingWithinCash ==
    \A a \in AccountIds :
        /\ accounts[a].awaitingBanking <= accounts[a].balance
        /\ a # Cash => accounts[a].awaitingBanking = 0

\* A bank on the list cashiers choose from accepts a payment: the list is stored
\* beside the accounts, and no creation, renaming, deactivation or reversal in
\* between leaves a bank on it that is not an active bank account any more.
ListedBanksAcceptPayments ==
    \A a \in listed : a \in created /\ accounts[a].active /\ accounts[a].type = "bank"

\* i is reversed by j: j is the later mirror of i, and neither can be reversed again.
Reverses(j, i) ==
    /\ i < j
    /\ ledger[j].type = "reversal" /\ ledger[j].reversalOf = i /\ ledger[j].posted
    /\ ledger[j].reversalOfType = ledger[i].type
    /\ ledger[j].amount = ledger[i].amount
    /\ ledger[j].from = ledger[i].to /\ ledger[j].to = ledger[i].from

\* An entry is reversed at most once: an entry marked reversed names the entry
\* that mirrors it, every reversal is named by the entry it reverses, and a
\* reversal is never itself reversed.
ReversalsPaired ==
    /\ \A i \in EntryNumbers : ~ledger[i].posted =>
          ledger[i].reversedBy \in EntryNumbers /\ Reverses(ledger[i].reversedBy, i)
    /\ \A j \in EntryNumbers : ledger[j].type = "reversal" =>
          /\ ledger[j].reversalOf \in EntryNumbers
          /\ ledger[ledger[j].reversalOf].reversedBy = j

\* An account's opening balance is recorded exactly while one unreversed
\* opening_balance entry is in the ledger for it, and never two.
OpeningBalanceOnce ==
    \A a \in AccountIds :
        LET live == {i \in EntryNumbers :
                        ledger[i].type = "opening_balance" /\ ledger[i].to = a /\ ledger[i].posted}
        IN  Cardinality(live) = IF accounts[a].openingRecorded THEN 1 ELSE 0

\* A bank deposit record and its ledger entry name each other and agree on
\* whether the deposit stands, however many deposits are reversed meanwhile.
DepositsMatchLedger ==
    /\ \A k \in DOMAIN deposits :
          LET d == deposits[k]
          IN  /\ d.txn \in EntryNumbers
              /\ ledger[d.txn].type = "bank_deposit" /\ ledger[d.txn].about = k
              /\ ledger[d.txn].posted = (d.status = "completed")
    /\ \A i \in EntryNumbers : ledger[i].type = "bank_deposit" =>
          ledger[i].about \in DOMAIN deposits /\ deposits[ledger[i].about].txn = i

\* A reconciliation is closed by at most one adjustment, which moves its account
\* by exactly the difference it recorded.
ReconciliationsClosedExactly ==
    \A i \in EntryNumbers : (ledger[i].type = "adjustment" /\ ledger[i].about # 0) =>
        LET q == recs[ledger[i].about]
        IN  /\ q.status = "adjusted" /\ q.adjustment = i
            /\ DeltaOf(ledger[i], q.account) = q.actual - q.system

\* A retried request moves money once: no two entries carry the same request,
\* and the stored result of the request names the entry that does.
RequestsPostOnce ==
    \A i \in EntryNumbers : ledger[i].request # None =>
        LET result == requests[ledger[i].request]
        IN  CASE result.kind \in {"transfer", "adjustment", "payment"} -> result.number = i
              [] result.kind = "deposit" -> deposits[result.number].txn = i
              [] OTHER -> FALSE

\* The day's summary and the ledger tell the same story: what the summaries say
\* moved in and out of an account on a day is what that day's entries moved.
DailyMatchesLedger ==
    \A d \in Days, a \in AccountIds :
        LET entries == {i \in EntryNumbers : ledger[i].day = d}
        IN  /\ daily[d].in[a] =
                  SumOver(LAMBDA i : ledger[i].amount, {i \in entries : ledger[i].to = a})
            /\ daily[d].out[a] =
                  SumOver(LAMBDA i : ledger[i].amount, {i \in entries : ledger[i].from = a})

\* The ledger is immutable: a step may only append entries and mark one older
\* entry reversed; nothing else in an entry ever changes.
LedgerAppendOnly ==
    [][/\ Len(ledger) <= Len(ledger')
       /\ \A i \in DOMAIN ledger :
             \/ ledger'[i] = ledger[i]
             \/ /\ ledger[i].posted
                /\ ledger'[i] = [ledger[i] EXCEPT !.posted = FALSE, !.reversedBy = Len(ledger')]
      ]_financeVars

\* The entries and balances, seen as the abstract journal of money movements.
Book == INSTANCE Journal WITH
    Accounts <- AccountIds,
    Outside <- None,
    journal <- [i \in DOMAIN ledger |->
                  [from |-> ledger[i].from, to |-> ledger[i].to, amount |-> ledger[i].amount]],
    balance <- [a \in AccountIds |-> accounts[a].balance]

\* The reconciliation guarantee of docs/FINANCE.md: whatever finance.js does to
\* accounts and ledger is one journal entry and the money it moves, or nothing.
\* No overdraft, no entry without its money, no money without its entry, so a
\* balance is at all times the sum of what the entries did to it.
ImplementsJournal == Book!Spec

-----------------------------------------------------------------------------
(* What the documents say and the code does not keep; see README, Findings *)

\* docs/FINANCE.md:46: deactivation needs a zero balance "so money can never be
\* hidden in an inactive account".
InactiveAccountsAreEmpty ==
    \A a \in AccountIds : accounts[a].active \/ accounts[a].balance = 0

\* finance.js:267: cash awaiting banking is "cash collected from customers and not
\* yet taken to a bank"; docs/FINANCE.md:158: "An opening float is not takings, so
\* it does not count".  So it is at most the cash customers paid.
AwaitingIsTakings ==
    accounts[Cash].awaitingBanking <=
        SumOver(LAMBDA i : ledger[i].amount,
            {i \in EntryNumbers : /\ ledger[i].type = "customer_payment"
                                  /\ ledger[i].posted /\ ledger[i].to = Cash})
=============================================================================
