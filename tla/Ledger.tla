------------------------------- MODULE Ledger -------------------------------
(***************************************************************************)
(* The money rules of functions/src/finance.js: financial accounts, ledger *)
(* entries, and what posting one entry does to the accounts it touches     *)
(* (class Ledger).  Everything here is a pure operator; the modules that   *)
(* keep accounts and entries as state (Finance, Billing) apply them.       *)
(*                                                                         *)
(* Amounts are whole shillings.  They are integers far below 2^53 in the   *)
(* code (MAX_AMOUNT_UGX is 2e9), so addition is exact and is modelled by   *)
(* integer addition.                                                       *)
(***************************************************************************)
EXTENDS Integers, Sequences

CONSTANTS
    Cash,      \* the account cash_at_hand
    Mobile,    \* the merchant accounts (mtn_merchant, airtel_merchant)
    Bank1,     \* the default bank account bank_1
    Extra,     \* document ids of accounts created later
    RequestIds,\* request ids the clients choose
    None       \* a null in the documents: no account, no request

Defaults == {Cash, Bank1} \cup Mobile
AccountIds == Defaults \cup Extra

ASSUME AccountAssumption ==
    /\ Cash # Bank1
    /\ Mobile \cap {Cash, Bank1} = {}
    /\ Extra \cap Defaults = {}
    /\ None \notin AccountIds
    /\ None \notin RequestIds

AccountTypes == {"cash", "mobile_money", "bank"}

\* What staff are paid, and what shareholders put in and take out: these entries
\* are reversed by the screens that posted them (PAY_TXN_TYPES, OWNERSHIP_TXN_TYPES).
PayTypes == {"payroll_payment", "allowance_payment"}
OwnershipTypes == {"share_capital_contribution", "dividend_payment"}

\* The types an entry may have; "none" stands for the null reversalOfType.
PostingTypes == {"customer_payment", "account_transfer", "bank_deposit",
                 "adjustment", "opening_balance", "expense_payment",
                 "inventory_purchase_payment"} \cup PayTypes \cup OwnershipTypes
EntryTypes == PostingTypes \cup {"reversal"}

Amount == Nat \ {0}

Account == [type: AccountTypes, active: BOOLEAN, balance: Nat,
            awaitingBanking: Nat, openingRecorded: BOOLEAN]

Entry == [type: EntryTypes, reversalOfType: PostingTypes \cup {"none"},
          amount: Amount, from: AccountIds \cup {None}, to: AccountIds \cup {None},
          posted: BOOLEAN,     \* status: posted (TRUE) or reversed (FALSE)
          reversedBy: Nat,     \* number of the reversing entry, 0 if none
          reversalOf: Nat,     \* number of the entry it reverses, 0 if none
          about: Nat,          \* number of the document it is for: a deposit,
                             \* a reconciliation, an expense, a payroll, ...
          request: RequestIds \cup {None},
          day: Nat]            \* businessDay

-----------------------------------------------------------------------------
(* Accounts *)

\* An account nobody has posted to: what a missing default account reads as.
NewAccount(type) ==
    [type |-> type, active |-> TRUE, balance |-> 0, awaitingBanking |-> 0,
     openingRecorded |-> FALSE]

DefaultType(id) ==
    IF id = Cash THEN "cash" ELSE IF id \in Mobile THEN "mobile_money" ELSE "bank"

TypeOf(accts, id) == IF id = None THEN "none" ELSE accts[id].type

-----------------------------------------------------------------------------
(* Entries *)

\* The business day is stamped when the entry is posted.
NewEntry(type, amount, from, to) ==
    [type |-> type, reversalOfType |-> "none", amount |-> amount,
     from |-> from, to |-> to,
     posted |-> TRUE, reversedBy |-> 0, reversalOf |-> 0,
     about |-> 0, request |-> None, day |-> 0]

\* The mirror image of entry number i: the money goes back the way it came.
MirrorOf(e, i) ==
    [NewEntry("reversal", e.amount, e.to, e.from) EXCEPT
        !.reversalOfType = e.type, !.reversalOf = i]

\* Mutant: reversing also blanks the original entry's accounts.
MarkReversedBlanked(e, by) == [e EXCEPT !.posted = FALSE, !.reversedBy = by, !.from = None]

\* Mutant: the status stays posted.
MarkReversedPosted(e, by) == [e EXCEPT !.reversedBy = by]

MarkReversed(e, by) == [e EXCEPT !.posted = FALSE, !.reversedBy = by]

\* Mutant: the already_reversed check is missing.
CanReverseAgain(e) == e.type # "reversal"

\* A reversal is never reversed, and nothing is reversed twice.
CanReverse(e) == e.type # "reversal" /\ e.posted

\* What the entry is about: the type of the entry a reversal undoes.
AboutType(e) == IF e.type = "reversal" THEN e.reversalOfType ELSE e.type

-----------------------------------------------------------------------------
(* Moving the money of one entry *)

\* Mutant: the insufficient_funds check is missing.
AffordableUnchecked(accts, e) == TRUE

\* No overdraft: the account the money leaves holds it.
Affordable(accts, e) == e.from # None => accts[e.from].balance >= e.amount

\* Mutant: the same_account check is missing.
WellFormedUnchecked(e) == e.amount > 0

WellFormed(e) == e.amount > 0 /\ e.from # e.to

\* Mutant: only the lower bound is kept.
ClampLow(low, n, high) == IF n < low THEN low ELSE n

Clamp(low, n, high) == IF n > high THEN high ELSE IF n < low THEN low ELSE n

\* Does this entry, seen from a cash account, change the cash that waits to be
\* banked?  Customer payments do, and so does cash going to (or, on a reversal,
\* coming back from) a bank account.
CountsAsAwaiting(e, otherType) ==
    \/ AboutType(e) = "customer_payment"
    \/ otherType = "bank" /\ AboutType(e) \in {"bank_deposit", "account_transfer"}

\* One account after delta is moved by entry e, whose other side is otherType.
\* Cash awaiting banking is clamped to what the account holds.
Moved(a, delta, e, otherType) ==
    LET after == a.balance + delta
        waiting == IF CountsAsAwaiting(e, otherType)
                   THEN a.awaitingBanking + delta ELSE a.awaitingBanking
    IN  [a EXCEPT !.balance = after,
                  !.awaitingBanking = IF a.type = "cash" THEN Clamp(0, waiting, after) ELSE @]

\* All accounts after entry e is posted: its source loses the amount, its
\* destination gains it, every other account is untouched.
AfterPosting(accts, e) ==
    [id \in DOMAIN accts |->
        IF id = e.from THEN Moved(accts[id], -e.amount, e, TypeOf(accts, e.to))
        ELSE IF id = e.to THEN Moved(accts[id], e.amount, e, TypeOf(accts, e.from))
        ELSE accts[id]]

\* What one entry did to the balance of account id (entries[].deltaUgx).
DeltaOf(e, id) == IF id = e.from THEN -e.amount ELSE IF id = e.to THEN e.amount ELSE 0
=============================================================================
