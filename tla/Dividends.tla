------------------------------- MODULE Dividends -------------------------------
(***************************************************************************)
(* functions/src/dividends.js: dividends from draft to paid.  Calculating  *)
(* one takes the holdings at the end of its record date from the ownership *)
(* ledger, splits the amount over them and locks the record date; the      *)
(* allocations are paid one ledger entry each, and reversed one by one.    *)
(*                                                                         *)
(* Every callable is one serializable transaction.  The approver is not    *)
(* who declared the dividend and is not paid by it.                        *)
(***************************************************************************)
EXTENDS Shares

CONSTANTS
    DividendsOf,      \* bound: classes, or None, dividends are for
    DividendAmounts,  \* amounts to distribute, in all or per share
    MaxDividends,     \* bound: dividends
    MaxAllocations    \* bound: allocations

ASSUME DividendAssumption ==
    /\ DividendsOf \subseteq Classes \cup {None}
    /\ DividendAmounts \subseteq Amount
    /\ MaxDividends \in Nat /\ MaxAllocations \in Nat

DividendStatuses == {"draft", "declared", "approved", "partially_paid", "paid", "cancelled"}

Dividend == [class: Classes \cup {None},   \* None: the shares of every class
             method: {"pool", "per_share"}, amount: Amount, record: Days,
             status: DividendStatuses, calculated: BOOLEAN, recordLocked: BOOLEAN,
             pool: Nat, unallocated: Nat, paidCount: Nat, paid: Nat]

Allocation == [dividend: 1..MaxDividends, holder: Holders, shares: Amount, net: Nat,
               current: BOOLEAN,
               entry: Nat]   \* financialTransactionId, 0: not paid

-----------------------------------------------------------------------------
(* The split *)

\* What h held on the record date, of the class of the dividend or of all.
EligibleHeld(d, h) ==
    SumFunction([c \in IF d.class = None THEN Classes ELSE {d.class} |-> Held(h, c, d.record)])

Recipients(d) == {h \in Holders : EligibleHeld(d, h) > 0}
EligibleShares(d) == SumFunction([h \in Recipients(d) |-> EligibleHeld(d, h)])

\* Mutant: shares of the pool are rounded, not cut.
ShareOfRounded(d, h) ==
    IF d.method = "per_share" THEN d.amount * EligibleHeld(d, h)
    ELSE (2 * d.amount * EligibleHeld(d, h) + EligibleShares(d)) \div (2 * EligibleShares(d))

\* allocate: whole shillings, never more than a holder's part of the pool.
ShareOf(d, h) ==
    IF d.method = "per_share" THEN d.amount * EligibleHeld(d, h)
    ELSE (d.amount * EligibleHeld(d, h)) \div EligibleShares(d)

PoolOf(d) == IF d.method = "per_share" THEN d.amount * EligibleShares(d) ELSE d.amount

-----------------------------------------------------------------------------
(* Up to approval *)

Current(k) == {j \in DOMAIN allocations : allocations[j].dividend = k /\ allocations[j].current}

\* Earlier allocations are kept, superseded.
Superseded(k) ==
    [j \in DOMAIN allocations |->
        IF j \in Current(k) THEN [allocations[j] EXCEPT !.current = FALSE] ELSE allocations[j]]

NotDividends == UNCHANGED <<financeVars, shareVars>>

Draft(c, method, n, record) ==
    [class |-> c, method |-> method, amount |-> n, record |-> record, status |-> "draft",
     calculated |-> FALSE, recordLocked |-> FALSE, pool |-> 0, unallocated |-> 0,
     paidCount |-> 0, paid |-> 0]

CreateDividend(c, method, n, record) ==
    /\ Len(dividends) < MaxDividends
    /\ c # None => classes[c].exists
    /\ dividends' = Append(dividends, Draft(c, method, n, record))
    /\ UNCHANGED allocations /\ NotDividends

\* A changed draft has to be calculated again; its record date is open until then.
\* (Calculating fills in the other amount, so resending the same details is a change.)
UpdateDividend(k, c, method, n, record) ==
    LET d == dividends[k]
    IN  /\ d.status = "draft"
        /\ c # None => classes[c].exists
        /\ d.calculated \/ <<c, method, n, record>> # <<d.class, d.method, d.amount, d.record>>
        /\ dividends' = [dividends EXCEPT ![k] = Draft(c, method, n, record)]
        /\ allocations' = Superseded(k)
        /\ NotDividends

CalculateDividend(k) ==
    LET d == dividends[k]
        order == SetToSeq(Recipients(d))
        allocated == SumFunction([h \in Recipients(d) |-> ShareOf(d, h)])
    IN  /\ d.status = "draft"
        /\ d.record <= day
        /\ Recipients(d) # {}
        /\ Len(allocations) + Len(order) <= MaxAllocations
        /\ allocations' = Superseded(k) \o
              [i \in DOMAIN order |->
                  [dividend |-> k, holder |-> order[i], shares |-> EligibleHeld(d, order[i]),
                   net |-> ShareOf(d, order[i]), current |-> TRUE, entry |-> 0]]
        /\ dividends' = [dividends EXCEPT ![k] =
              [@ EXCEPT !.calculated = TRUE, !.recordLocked = TRUE, !.pool = PoolOf(d),
                        !.unallocated = PoolOf(d) - allocated]]
        /\ NotDividends

\* declare, return and approve; a returned dividend keeps its record date locked.
UpdateDividendStatus(k, action) ==
    LET d == dividends[k]
        becomes(status) == dividends' = [dividends EXCEPT ![k].status = status]
    IN  /\ \/ action = "declare" /\ d.status = "draft" /\ d.calculated /\ becomes("declared")
           \/ action = "return" /\ d.status = "declared" /\ becomes("draft")
           \/ action = "approve" /\ d.status = "declared" /\ becomes("approved")
        /\ UNCHANGED allocations /\ NotDividends

-----------------------------------------------------------------------------
(* Payment *)

PaysOut(k) == {j \in Current(k) : allocations[j].net > 0}

StatusAfterPayments(k, paidCount) ==
    IF paidCount = 0 THEN "approved"
    ELSE IF paidCount >= Cardinality(PaysOut(k)) THEN "paid" ELSE "partially_paid"

DividendPaid(k, count, n) ==
    LET paidCount == dividends[k].paidCount + count
    IN  dividends' = [dividends EXCEPT ![k].paidCount = paidCount, ![k].paid = @ + n,
                                       ![k].status = StatusAfterPayments(k, paidCount)]

NetOfAll(S) == SumFunction([j \in S |-> allocations[j].net])

StillUnpaid(k) == {j \in PaysOut(k) : allocations[j].entry = 0}

\* One entry per allocation, all in one transaction.
PayDividend(r, k, batch, a) ==
    LET order == SetToSeq(batch)
        entryOf(i) == [NewEntry("dividend_payment", allocations[order[i]].net, a, None) EXCEPT
                          !.about = order[i]]
    IN  /\ Fresh(r)
        /\ dividends[k].status \in {"approved", "partially_paid"}
        /\ batch \subseteq StillUnpaid(k)
        /\ Active(a)
        /\ PostAll(ledger, [i \in DOMAIN order |-> entryOf(i)])
        /\ allocations' = [j \in DOMAIN allocations |->
              IF j \notin batch THEN allocations[j]
              ELSE [allocations[j] EXCEPT !.entry =
                       Len(ledger) + CHOOSE i \in DOMAIN order : order[i] = j]]
        /\ DividendPaid(k, Cardinality(batch), NetOfAll(batch))
        /\ Store(r, "payment", 0)
        /\ UNCHANGED <<deposits, recs, day, listed, shareVars>>

ReverseDividendPayment(j) ==
    /\ allocations[j].entry # 0
    /\ ReverseEntry(allocations[j].entry)
    /\ allocations' = [allocations EXCEPT ![j].entry = 0]
    /\ DividendPaid(allocations[j].dividend, -1, -allocations[j].net)
    /\ UNCHANGED shareVars

NothingPaid(k) == dividends[k].paid = 0 /\ dividends[k].status \in {"draft", "declared", "approved"}

\* Opens the record date again.
CancelDividend(k) ==
    /\ NothingPaid(k)
    /\ dividends' = [dividends EXCEPT ![k].status = "cancelled", ![k].recordLocked = FALSE]
    /\ UNCHANGED allocations /\ NotDividends

-----------------------------------------------------------------------------
DividendsInit == dividends = << >> /\ allocations = << >>

AmendStep ==
    \E k \in DOMAIN dividends, c \in DividendsOf, method \in {"pool", "per_share"},
       n \in DividendAmounts, record \in Days : UpdateDividend(k, c, method, n, record)

DividendsStep ==
    \/ \E c \in DividendsOf, method \in {"pool", "per_share"}, n \in DividendAmounts, record \in Days :
          CreateDividend(c, method, n, record)
    \/ \E k \in DOMAIN dividends :
          \/ CalculateDividend(k) \/ CancelDividend(k)
          \/ \E action \in {"declare", "return", "approve"} : UpdateDividendStatus(k, action)
          \/ \E r \in PaymentIds, a \in AccountIds, batch \in (SUBSET Current(k)) \ {{}} :
                PayDividend(r, k, batch, a)
    \/ \E j \in DOMAIN allocations : ReverseDividendPayment(j)

-----------------------------------------------------------------------------
(* Properties *)

DividendsTypeOK ==
    /\ \A k \in DOMAIN dividends : dividends[k] \in Dividend
    /\ \A j \in DOMAIN allocations : allocations[j] \in Allocation

\* Not a shilling of a dividend is lost or paid twice: an allocation is paid exactly
\* while one unreversed entry pays its amount out, only current allocations of a
\* dividend that stands are paid, its counters and status say how many, and what is
\* allocated and what is left over is the pool, the rest less than one per recipient.
DividendsMatchLedger ==
    /\ \A j \in DOMAIN allocations :
          LET a == allocations[j]
          IN  IF a.entry # 0
              THEN /\ PaidBy(a.entry, "dividend_payment", j, a.net) /\ a.current
                   /\ dividends[a.dividend].status \in {"partially_paid", "paid"}
              ELSE LiveFor("dividend_payment", j) = {}
    /\ \A k \in DOMAIN dividends :
          LET d == dividends[k]
              paid == {j \in Current(k) : allocations[j].entry # 0}
          IN  /\ d.paidCount = Cardinality(paid)
              /\ d.paid = NetOfAll(paid)
              /\ d.status = "paid" <=> paid = PaysOut(k) /\ paid # {}
              /\ d.calculated =>
                    /\ d.pool = d.unallocated + NetOfAll(Current(k))
                    /\ 0 <= d.unallocated /\ d.unallocated < Cardinality(Current(k))

\* The snapshot cannot drift: from calculation on, whatever is issued, transferred,
\* adjusted, approved or reversed later, the allocations of a dividend that is not
\* cancelled are the holdings at the end of its record date.
SnapshotHolds ==
    \A k \in DOMAIN dividends :
        LET d == dividends[k]
        IN  d.calculated /\ d.status # "cancelled" =>
              /\ {allocations[j].holder : j \in Current(k)} = Recipients(d)
              /\ \A j \in Current(k) : allocations[j].shares = EligibleHeld(d, allocations[j].holder)
=============================================================================
