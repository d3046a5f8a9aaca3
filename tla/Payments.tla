------------------------------ MODULE Payments ------------------------------
(***************************************************************************)
(* What the departments share when they move money: one payment posted in  *)
(* the same transaction as the document it is for (openLedger,             *)
(* requireActive, post, commit, readRequest and saveRequest), and what it  *)
(* means that a document and the ledger agree.                             *)
(***************************************************************************)
EXTENDS Finance, SequencesExt

\* A new call takes an unused request id, no matter which.  A retry carries an id
\* already stored and gets the stored answer: a stutter, explored in Finance.
PaymentIds ==
    LET unused == {r \in RequestIds : Fresh(r)}
    IN  IF unused = {} THEN {} ELSE {CHOOSE r \in unused : TRUE}

\* Posts n from one account or to one account, for document number doc.
PostFor(r, type, n, from, to, doc) ==
    /\ Fresh(r)
    /\ \A a \in {from, to} \ {None} : Active(a)
    /\ Post([NewEntry(type, n, from, to) EXCEPT !.about = doc, !.request = r])
    /\ Store(r, "payment", NextNumber)
    /\ UNCHANGED <<deposits, recs, day, listed>>

PayOut(r, type, n, a, doc) == PostFor(r, type, n, a, None, doc)
PayIn(r, type, n, a, doc) == PostFor(r, type, n, None, a, doc)

\* A transaction that pays nothing but stores the request: the total was zero.
NothingToPay(r) ==
    /\ Fresh(r)
    /\ Store(r, "payment", 0)
    /\ UNCHANGED <<accounts, created, ledger, deposits, recs, daily, day, listed>>

\* A department's own reversal of entry i (payroll, allowances, shares, dividends).
ReverseEntry(i) ==
    /\ PostReversal(accounts, i)
    /\ UNCHANGED <<deposits, recs, requests, day, listed>>

\* Entries es posted one after another in one transaction: the accounts after them,
\* and whether every one was well formed and affordable when its turn came.
PostedInTurn(accts, es) ==
    FoldLeft(LAMBDA s, e : [ok |-> s.ok /\ WellFormed(e) /\ Affordable(s.accounts, e),
                            accounts |-> AfterPosting(s.accounts, e)],
             [ok |-> TRUE, accounts |-> accts], es)

PostAll(entries, es) ==
    LET posted == PostedInTurn(accounts, es)
    IN  /\ posted.ok
        /\ Len(entries) + Len(es) <= MaxEntries
        /\ accounts' = posted.accounts
        /\ created' = created \cup (UNION {{es[i].from, es[i].to} : i \in DOMAIN es} \ {None})
        /\ ledger' = entries \o [i \in DOMAIN es |-> [es[i] EXCEPT !.day = day]]
        /\ daily' = [daily EXCEPT ![day] = FoldLeft(Summarised, @, es)]

\* The entries numbered in S, in the order their mirrors are posted; the ledger with
\* each marked reversed by its mirror; and the mirrors.
InOrder(S) == SetToSeq(S)
PlaceOf(S, i) == CHOOSE n \in 1..Cardinality(S) : InOrder(S)[n] = i

Reversing(S) ==
    [i \in EntryNumbers |->
        IF i \in S THEN MarkReversed(ledger[i], Len(ledger) + PlaceOf(S, i)) ELSE ledger[i]]

MirrorsOf(S) == [n \in 1..Cardinality(S) |-> MirrorOf(ledger[InOrder(S)[n]], InOrder(S)[n])]

\* Reverses them all in one transaction, or none.
ReverseAll(S) ==
    /\ \A i \in S : CanReverse(ledger[i])
    /\ PostAll(Reversing(S), MirrorsOf(S))

-----------------------------------------------------------------------------
(* Documents and the ledger *)

\* The live entries of a type for document number doc.
LiveFor(type, doc) ==
    {j \in EntryNumbers : ledger[j].type = type /\ ledger[j].about = doc /\ ledger[j].posted}

\* txn is the one live entry of that type for document doc, and moved n.
PaidBy(txn, type, doc, n) == LiveFor(type, doc) = {txn} /\ ledger[txn].amount = n

\* The document names no entry, and no live entry names the document.
NotPaid(txn, type, doc) == txn = 0 /\ LiveFor(type, doc) = {}
=============================================================================
