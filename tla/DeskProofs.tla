------------------------------ MODULE DeskProofs ------------------------------
(* Theorems about expenses, stock and pay over the ledger they share: what a  *)
(* step of a desk leaves of the entries, and that a document and the entry    *)
(* that paid for it never part, whichever desk moves.                         *)
EXTENDS Spending, Stock, Payroll, FinanceProofs

-----------------------------------------------------------------------------
(* The ledger, as the desks use it *)

LedgerOK == ledger \in Seq(Entry) /\ day \in Days

\* A step keeps every entry, marks those in S reversed, and adds some at the end.
Turns(S) ==
    /\ ledger' \in Seq(Entry)
    /\ EntryNumbers \subseteq DOMAIN ledger'
    /\ S \subseteq EntryNumbers
    /\ \A j \in EntryNumbers :
          /\ ledger'[j].type = ledger[j].type
          /\ ledger'[j].about = ledger[j].about
          /\ ledger'[j].amount = ledger[j].amount
          /\ ledger'[j].posted <=> ledger[j].posted /\ j \notin S

Added == DOMAIN ledger' \ DOMAIN ledger

\* Nothing of type t is added or reversed.
Spares(t) ==
    \E S : /\ Turns(S)
           /\ \A j \in S : ledger[j].type # t
           /\ \A j \in Added : ledger'[j].type # t

\* One entry is added, of type t for document d.
Books(t, d, n) ==
    /\ Turns({})
    /\ Added = {Len(ledger) + 1}
    /\ ledger'[Len(ledger) + 1].type = t
    /\ ledger'[Len(ledger) + 1].about = d
    /\ ledger'[Len(ledger) + 1].amount = n
    /\ ledger'[Len(ledger) + 1].posted

\* Entries S are reversed, and only reversals added.
Unbooks(S) ==
    /\ Turns(S)
    /\ \A j \in S : ledger[j].posted
    /\ \A j \in Added : ledger'[j].type = "reversal"

LEMMA DayNumber == LedgerOK => day \in Nat /\ Len(ledger) \in Nat /\ EntryNumbers = 1..Len(ledger)
BY BoundAssumption, LenProperties DEF LedgerOK, Days, EntryNumbers

\* Dating an entry changes its day only.
LEMMA DatedEntry ==
    ASSUME LedgerOK, NEW e \in Entry
    PROVE  /\ [e EXCEPT !.day = day] \in Entry
           /\ [e EXCEPT !.day = day].type = e.type
           /\ [e EXCEPT !.day = day].about = e.about
           /\ [e EXCEPT !.day = day].amount = e.amount
           /\ [e EXCEPT !.day = day].posted = e.posted
BY DayNumber DEF Entry

LEMMA MarkedEntry ==
    ASSUME NEW e \in Entry, NEW n \in Nat
    PROVE  /\ MarkReversed(e, n) \in Entry
           /\ MarkReversed(e, n).type = e.type
           /\ MarkReversed(e, n).about = e.about
           /\ MarkReversed(e, n).amount = e.amount
           /\ ~MarkReversed(e, n).posted
BY DEF MarkReversed, Entry

LEMMA MirrorEntry ==
    ASSUME NEW e \in Entry, CanReverse(e), NEW i \in Nat
    PROVE  MirrorOf(e, i) \in Entry /\ MirrorOf(e, i).type = "reversal" /\ MirrorOf(e, i).about = 0
BY DEF MirrorOf, NewEntry, Entry, EntryTypes, CanReverse

LEMMA LedgerStays ==
    ASSUME LedgerOK, ledger' = ledger
    PROVE  Turns({}) /\ Added = {} /\ \A t : Spares(t)
<1>1. Turns({}) /\ Added = {}
  BY DEF LedgerOK, Turns, Added, EntryNumbers
<1> QED
  BY <1>1 DEF Spares

LEMMA CommitAppends ==
    ASSUME LedgerOK, NEW accts, NEW entries \in Seq(Entry), NEW e \in Entry,
           Commit(accts, entries, e)
    PROVE  /\ ledger' \in Seq(Entry)
           /\ Len(ledger') = Len(entries) + 1
           /\ DOMAIN ledger' = 1..(Len(entries) + 1)
           /\ \A i \in 1..Len(entries) : ledger'[i] = entries[i]
           /\ ledger'[Len(entries) + 1] = [e EXCEPT !.day = day]
<1>1. [e EXCEPT !.day = day] \in Entry
  BY DatedEntry
<1>2. ledger' = Append(entries, [e EXCEPT !.day = day])
  BY DEF Commit
<1> QED
  BY <1>1, <1>2, AppendProperties, LenProperties

LEMMA PostBooks ==
    ASSUME LedgerOK, NEW accts, NEW e \in Entry, e.posted, Commit(accts, ledger, e)
    PROVE  Books(e.type, e.about, e.amount)
<1>1. ledger \in Seq(Entry) /\ Len(ledger) \in Nat /\ EntryNumbers = 1..Len(ledger)
  BY DayNumber DEF LedgerOK
<1>2. /\ ledger' \in Seq(Entry)
      /\ DOMAIN ledger' = 1..(Len(ledger) + 1)
      /\ \A i \in 1..Len(ledger) : ledger'[i] = ledger[i]
      /\ ledger'[Len(ledger) + 1] = [e EXCEPT !.day = day]
  BY <1>1, CommitAppends
<1>3. Turns({})
  BY <1>1, <1>2 DEF Turns
<1>4. Added = {Len(ledger) + 1}
  BY <1>1, <1>2 DEF Added, EntryNumbers
<1> QED
  BY <1>2, <1>3, <1>4, DatedEntry DEF Books

LEMMA ReversalUnbooks ==
    ASSUME LedgerOK, NEW accts, NEW i \in EntryNumbers, PostReversal(accts, i)
    PROVE  Unbooks({i}) /\ CanReverse(ledger[i])
<1> DEFINE entries == [ledger EXCEPT ![i] = MarkReversed(@, NextNumber)]
<1>1. /\ ledger \in Seq(Entry) /\ Len(ledger) \in Nat /\ EntryNumbers = 1..Len(ledger)
      /\ i \in 1..Len(ledger) /\ ledger[i] \in Entry /\ NextNumber \in Nat
  BY DayNumber DEF LedgerOK, NextNumber, EntryNumbers
<1>2. CanReverse(ledger[i]) /\ Commit(accts, entries, MirrorOf(ledger[i], i))
  BY DEF PostReversal
<1>3. MarkReversed(ledger[i], NextNumber) \in Entry
  BY <1>1, MarkedEntry
<1>4. /\ entries \in Seq(Entry) /\ Len(entries) = Len(ledger)
      /\ entries[i] = MarkReversed(ledger[i], NextNumber)
      /\ \A h \in 1..Len(ledger) : h # i => entries[h] = ledger[h]
  BY <1>1, <1>3, ExceptSeq
<1>5. MirrorOf(ledger[i], i) \in Entry /\ MirrorOf(ledger[i], i).type = "reversal"
  BY <1>1, <1>2, MirrorEntry
<1> HIDE DEF entries
<1>6. /\ ledger' \in Seq(Entry)
      /\ DOMAIN ledger' = 1..(Len(ledger) + 1)
      /\ \A h \in 1..Len(ledger) : ledger'[h] = entries[h]
      /\ ledger'[Len(ledger) + 1] = [MirrorOf(ledger[i], i) EXCEPT !.day = day]
  BY <1>2, <1>4, <1>5, CommitAppends
<1>7. /\ ledger'[i] = MarkReversed(ledger[i], NextNumber)
      /\ \A h \in 1..Len(ledger) : h # i => ledger'[h] = ledger[h]
  BY <1>1, <1>4, <1>6
<1>8. Turns({i})
  BY <1>1, <1>6, <1>7, MarkedEntry DEF Turns
<1>9. Added = {Len(ledger) + 1}
  BY <1>1, <1>6 DEF Added, EntryNumbers
<1>10. ledger'[Len(ledger) + 1].type = "reversal" /\ ledger[i].posted
  BY <1>2, <1>5, <1>6, DatedEntry DEF CanReverse
<1> QED
  BY <1>2, <1>8, <1>9, <1>10 DEF Unbooks

LEMMA BooksSpares == ASSUME NEW t, NEW d, NEW n, Books(t, d, n), NEW u, u # t PROVE Spares(u)
BY DEF Books, Spares

LEMMA UnbooksSpares ==
    ASSUME NEW S, Unbooks(S), NEW u, u # "reversal", \A j \in S : ledger[j].type # u
    PROVE  Spares(u)
BY DEF Unbooks, Spares

LEMMA TurnsKeeps == ASSUME LedgerOK, NEW S, Turns(S), day' \in Days PROVE LedgerOK'
BY DEF LedgerOK, Turns

-----------------------------------------------------------------------------
(* Documents and the entries that pay for them.  What the documents of one  *)
(* kind claim is a function c of their numbers: the entry that moved their  *)
(* money (0: none does), and how much.                                      *)

LiveIn(l, t, d) == {j \in DOMAIN l : l[j].type = t /\ l[j].about = d /\ l[j].posted}

\* Every claim is one live entry, there is no live entry beside the claims, and
\* the entries are about documents there are.
Settled(l, t, c) ==
    /\ \A d \in DOMAIN c :
          IF c[d].txn # 0 THEN LiveIn(l, t, d) = {c[d].txn} /\ l[c[d].txn].amount = c[d].n
          ELSE LiveIn(l, t, d) = {}
    /\ \A j \in DOMAIN l : l[j].type = t => l[j].about \in DOMAIN c

NewFor(t, d) == {j \in Added : ledger'[j].type = t /\ ledger'[j].about = d}

\* How a step that reverses S may change the claim of document d from c to e: it
\* stays; or its entry was reversed, or the document is new and claims nothing; or
\* it claims the entry that was added for it.
Follows(S, t, c, e, d) ==
    \/ /\ NewFor(t, d) = {} /\ d \in DOMAIN c /\ c[d].txn \notin S
       /\ e[d].txn = c[d].txn /\ (c[d].txn # 0 => e[d].n = c[d].n)
    \/ NewFor(t, d) = {} /\ (d \in DOMAIN c => c[d].txn \in S \cup {0}) /\ e[d].txn = 0
    \/ /\ d \in DOMAIN c /\ c[d].txn = 0 /\ e[d].txn # 0
       /\ NewFor(t, d) = {e[d].txn}
       /\ ledger'[e[d].txn].posted /\ ledger'[e[d].txn].amount = e[d].n

\* What is live after a step: what was, but for the reversed, and what was added.
LEMMA LiveAfter ==
    ASSUME NEW S, Turns(S), NEW t, NEW d
    PROVE  LiveIn(ledger', t, d) =
              (LiveIn(ledger, t, d) \ S) \cup {j \in NewFor(t, d) : ledger'[j].posted}
BY DEF Turns, LiveIn, NewFor, Added, EntryNumbers

LEMMA SettledStep ==
    ASSUME NEW S, Turns(S), NEW t, NEW c, Settled(ledger, t, c), NEW e,
           DOMAIN c \subseteq DOMAIN e, \A d \in DOMAIN e : Follows(S, t, c, e, d),
           \A j \in Added : ledger'[j].type = t => ledger'[j].about \in DOMAIN e,
           LedgerOK
    PROVE  Settled(ledger', t, e)
<1>0. 0 \notin EntryNumbers /\ S \subseteq EntryNumbers
  BY DayNumber DEF Turns
<1>1. ASSUME NEW d \in DOMAIN e
      PROVE  IF e[d].txn # 0
             THEN LiveIn(ledger', t, d) = {e[d].txn} /\ ledger'[e[d].txn].amount = e[d].n
             ELSE LiveIn(ledger', t, d) = {}
  <2>1. LiveIn(ledger', t, d) =
           (LiveIn(ledger, t, d) \ S) \cup {j \in NewFor(t, d) : ledger'[j].posted}
    BY LiveAfter
  <2>2. d \notin DOMAIN c => LiveIn(ledger, t, d) = {}
    BY DEF Settled, LiveIn
  <2>3. d \in DOMAIN c =>
           IF c[d].txn # 0 THEN LiveIn(ledger, t, d) = {c[d].txn} /\ ledger[c[d].txn].amount = c[d].n
           ELSE LiveIn(ledger, t, d) = {}
    BY DEF Settled
  <2>4. CASE /\ NewFor(t, d) = {} /\ d \in DOMAIN c /\ c[d].txn \notin S
             /\ e[d].txn = c[d].txn /\ (c[d].txn # 0 => e[d].n = c[d].n)
    <3>1. LiveIn(ledger', t, d) = LiveIn(ledger, t, d)
      BY <2>1, <2>3, <2>4
    <3>2. c[d].txn # 0 => c[d].txn \in EntryNumbers
      BY <2>3, <2>4 DEF LiveIn, EntryNumbers
    <3> QED
      BY <2>3, <2>4, <3>1, <3>2 DEF Turns
  <2>5. CASE NewFor(t, d) = {} /\ (d \in DOMAIN c => c[d].txn \in S \cup {0}) /\ e[d].txn = 0
    <3>1. LiveIn(ledger, t, d) \ S = {}
      <4>1. CASE d \notin DOMAIN c
        BY <2>2, <4>1
      <4>2. CASE d \in DOMAIN c /\ c[d].txn = 0
        BY <2>3, <4>2
      <4>3. CASE d \in DOMAIN c /\ c[d].txn \in S /\ c[d].txn # 0
        BY <2>3, <4>3
      <4> QED
        BY <2>5, <4>1, <4>2, <4>3
    <3> QED
      BY <2>1, <2>5, <3>1
  <2>6. CASE /\ d \in DOMAIN c /\ c[d].txn = 0 /\ e[d].txn # 0
             /\ NewFor(t, d) = {e[d].txn}
             /\ ledger'[e[d].txn].posted /\ ledger'[e[d].txn].amount = e[d].n
    BY <2>1, <2>3, <2>6
  <2> QED
    BY <2>4, <2>5, <2>6 DEF Follows
<1>2. ASSUME NEW j \in DOMAIN ledger', ledger'[j].type = t PROVE ledger'[j].about \in DOMAIN e
  <2>1. CASE j \in Added
    BY <1>2, <2>1
  <2>2. CASE j \in EntryNumbers
    BY <1>2, <2>2 DEF Turns, Settled, EntryNumbers
  <2> QED
    BY <2>1, <2>2 DEF Added, EntryNumbers
<1> QED
  BY <1>1, <1>2 DEF Settled

\* c and e claim the same, and e has no more documents.
SameClaims(c, e) ==
    /\ DOMAIN e = DOMAIN c
    /\ \A d \in DOMAIN c : e[d].txn = c[d].txn /\ (c[d].txn # 0 => e[d].n = c[d].n)

\* Other documents are paid or unpaid; these stay as they are.
LEMMA SettledSpared ==
    ASSUME LedgerOK, NEW t, NEW c, Settled(ledger, t, c), Spares(t), NEW e, SameClaims(c, e)
    PROVE  Settled(ledger', t, e)
<1>1. PICK S : /\ Turns(S)
               /\ \A j \in S : ledger[j].type # t
               /\ \A j \in Added : ledger'[j].type # t
  BY DEF Spares
<1>2. ASSUME NEW d \in DOMAIN e PROVE Follows(S, t, c, e, d)
  <2>1. NewFor(t, d) = {}
    BY <1>1 DEF NewFor
  <2>2. d \in DOMAIN c /\ e[d].txn = c[d].txn /\ (c[d].txn # 0 => e[d].n = c[d].n)
    BY DEF SameClaims
  <2>3. c[d].txn \notin S
    <3>1. CASE c[d].txn # 0
      <4>1. LiveIn(ledger, t, d) = {c[d].txn}
        BY <2>2, <3>1 DEF Settled
      <4> QED
        BY <1>1, <4>1 DEF LiveIn
    <3>2. CASE c[d].txn = 0
      BY <1>1, <3>2, DayNumber DEF Turns
    <3> QED
      BY <3>1, <3>2
  <2> QED
    BY <2>1, <2>2, <2>3 DEF Follows
<1> QED
  BY <1>1, <1>2, SettledStep DEF SameClaims

\* Nothing happens to the entries and documents that claim nothing are added.
LEMMA SettledGrows ==
    ASSUME LedgerOK, NEW t, NEW c, Settled(ledger, t, c), Spares(t), NEW e,
           DOMAIN c \subseteq DOMAIN e,
           \A d \in DOMAIN c : e[d].txn = c[d].txn /\ (c[d].txn # 0 => e[d].n = c[d].n),
           \A d \in DOMAIN e \ DOMAIN c : e[d].txn = 0
    PROVE  Settled(ledger', t, e)
<1> DEFINE b == [d \in DOMAIN c |-> e[d]]
<1>1. SameClaims(c, b)
  BY DEF SameClaims
<1> HIDE DEF b
<1>2. Settled(ledger', t, b)
  BY <1>1, SettledSpared
<1>3. ASSUME NEW d \in DOMAIN e \ DOMAIN c PROVE LiveIn(ledger', t, d) = {}
  BY <1>1, <1>2 DEF Settled, SameClaims, LiveIn
<1>4. DOMAIN b = DOMAIN c /\ \A d \in DOMAIN c : b[d] = e[d]
  BY DEF b
<1> QED
  BY <1>2, <1>3, <1>4 DEF Settled

\* A document that claimed nothing is paid.
LEMMA SettledPaid ==
    ASSUME LedgerOK, NEW t, NEW c, Settled(ledger, t, c), NEW d \in DOMAIN c, c[d].txn = 0,
           NEW n, Books(t, d, n), NEW e, DOMAIN e = DOMAIN c,
           e[d].txn = Len(ledger) + 1, e[d].n = n,
           \A x \in DOMAIN c \ {d} : e[x].txn = c[x].txn /\ (c[x].txn # 0 => e[x].n = c[x].n)
    PROVE  Settled(ledger', t, e)
<1> DEFINE N == Len(ledger) + 1
<1>1. /\ Turns({}) /\ Added = {N} /\ ledger'[N].type = t /\ ledger'[N].about = d
      /\ ledger'[N].amount = n /\ ledger'[N].posted /\ N # 0
  BY DayNumber DEF Books
<1>2. ASSUME NEW x \in DOMAIN e PROVE Follows({}, t, c, e, x)
  <2>1. CASE x = d
    <3>1. NewFor(t, d) = {N}
      BY <1>1 DEF NewFor
    <3> QED
      BY <1>1, <2>1, <3>1 DEF Follows
  <2>2. CASE x # d
    <3>1. NewFor(t, x) = {}
      BY <1>1, <2>2 DEF NewFor
    <3> QED
      BY <2>2, <3>1 DEF Follows
  <2> QED
    BY <2>1, <2>2
<1> QED
  BY <1>1, <1>2, SettledStep

\* The entry of a document is reversed, and the document claims nothing.
LEMMA SettledUnpaid ==
    ASSUME LedgerOK, NEW t, t # "reversal", NEW c, Settled(ledger, t, c), NEW d \in DOMAIN c,
           NEW i \in EntryNumbers, ledger[i].type = t, ledger[i].about = d, Unbooks({i}),
           NEW e, DOMAIN e = DOMAIN c, e[d].txn = 0,
           \A x \in DOMAIN c \ {d} : e[x].txn = c[x].txn /\ (c[x].txn # 0 => e[x].n = c[x].n)
    PROVE  Settled(ledger', t, e) /\ c[d].txn = i
<1>1. Turns({i}) /\ ledger[i].posted /\ \A j \in Added : ledger'[j].type # t
  BY DEF Unbooks
<1>2. i \in LiveIn(ledger, t, d)
  BY <1>1 DEF LiveIn, EntryNumbers
<1>3. c[d].txn = i
  BY <1>2 DEF Settled
<1>4. ASSUME NEW x \in DOMAIN e PROVE Follows({i}, t, c, e, x)
  <2>1. NewFor(t, x) = {}
    BY <1>1 DEF NewFor
  <2>2. CASE x = d
    BY <1>3, <2>1, <2>2 DEF Follows
  <2>3. CASE x # d
    <3>1. c[x].txn # i
      <4>1. ASSUME c[x].txn = i PROVE FALSE
        <5>1. i # 0
          BY DayNumber
        <5>2. i \in LiveIn(ledger, t, x)
          BY <4>1, <5>1 DEF Settled
        <5> QED
          BY <2>3, <5>2 DEF LiveIn
      <4> QED
        BY <4>1
    <3> QED
      BY <2>1, <2>3, <3>1 DEF Follows
  <2> QED
    BY <2>2, <2>3
<1>5. Settled(ledger', t, e)
  BY <1>1, <1>4, SettledStep
<1> QED
  BY <1>3, <1>5

-----------------------------------------------------------------------------
(* Posting for a document, as the departments do *)

LEMMA PaymentId == ASSUME NEW r \in PaymentIds PROVE r \in RequestIds
BY DEF PaymentIds

\* A payment for a document adds its entry and nothing else.
LEMMA PayBooks ==
    ASSUME LedgerOK, NEW r \in PaymentIds, NEW t \in PostingTypes, NEW n \in Nat,
           NEW from \in AccountIds \cup {None}, NEW to \in AccountIds \cup {None}, NEW d \in Nat,
           PostFor(r, t, n, from, to, d)
    PROVE  Books(t, d, n) /\ LedgerOK'
<1> DEFINE e == [NewEntry(t, n, from, to) EXCEPT !.about = d, !.request = r]
<1>1. Commit(accounts, ledger, e) /\ UNCHANGED day
  BY DEF PostFor, Post
<1>2. e.type = t /\ e.about = d /\ e.amount = n /\ e.posted
  BY DEF NewEntry
<1>3. n > 0
  BY <1>1, <1>2 DEF Commit, WellFormed
<1>6. e \in Entry
  <2>1. n \in Amount /\ r \in RequestIds \cup {None}
    BY <1>3, PaymentId DEF Amount
  <2> QED
    BY <2>1, NewEntryType
<1> HIDE DEF e
<1>4. Books(t, d, n)
  BY <1>1, <1>2, <1>6, PostBooks
<1>5. LedgerOK'
  BY <1>1, <1>4, TurnsKeeps DEF Books, LedgerOK
<1> QED
  BY <1>4, <1>5

\* So does a reversal, whoever makes it.
LEMMA EntryUnbooks ==
    ASSUME LedgerOK, NEW i \in EntryNumbers, ReverseEntry(i)
    PROVE  Unbooks({i}) /\ ledger[i].type # "reversal" /\ LedgerOK'
<1>1. Unbooks({i}) /\ CanReverse(ledger[i])
  BY ReversalUnbooks DEF ReverseEntry
<1>2. UNCHANGED day
  BY DEF ReverseEntry
<1> QED
  BY <1>1, <1>2, TurnsKeeps DEF Unbooks, LedgerOK, CanReverse

LEMMA TransactionUnbooks ==
    ASSUME LedgerOK, NEW i \in EntryNumbers, ReverseTransaction(i)
    PROVE  /\ Unbooks({i}) /\ LedgerOK'
           /\ ledger[i].type \notin ReversedElsewhere \cup {"reversal"}
<1>1. Unbooks({i}) /\ CanReverse(ledger[i]) /\ ledger[i].type \notin ReversedElsewhere
  BY ReversalUnbooks DEF ReverseTransaction
<1>2. UNCHANGED day
  BY DEF ReverseTransaction
<1> QED
  BY <1>1, <1>2, TurnsKeeps DEF Unbooks, LedgerOK, CanReverse

LEMMA FinanceUnchanged ==
    ASSUME LedgerOK, UNCHANGED financeVars
    PROVE  ledger' = ledger /\ LedgerOK' /\ \A t : Spares(t)
BY LedgerStays DEF financeVars, LedgerOK

LEMMA OneOf ==
    ASSUME NEW S, NEW s \in Seq(S), NEW i \in DOMAIN s
    PROVE  s[i] \in S /\ i \in Nat /\ i # 0
BY LenProperties

\* One document of a sequence is changed.
LEMMA OneEdited ==
    ASSUME NEW S, NEW s \in Seq(S), NEW i \in DOMAIN s, NEW x \in S
    PROVE  /\ [s EXCEPT ![i] = x] \in Seq(S)
           /\ DOMAIN [s EXCEPT ![i] = x] = DOMAIN s
           /\ [s EXCEPT ![i] = x][i] = x
           /\ \A j \in DOMAIN s : j # i => [s EXCEPT ![i] = x][j] = s[j]
           /\ s[i] \in S
BY ExceptSeq

\* One document is added to a sequence.
LEMMA OneAdded ==
    ASSUME NEW S, NEW s \in Seq(S), NEW x \in S
    PROVE  /\ Append(s, x) \in Seq(S)
           /\ Len(s) \in Nat /\ DOMAIN s = 1..Len(s)
           /\ DOMAIN Append(s, x) = DOMAIN s \cup {Len(s) + 1}
           /\ Len(s) + 1 \notin DOMAIN s
           /\ \A j \in DOMAIN s : Append(s, x)[j] = s[j]
           /\ Append(s, x)[Len(s) + 1] = x
<1>1. Len(s) \in Nat /\ DOMAIN s = 1..Len(s)
  BY LenProperties
<1>2. /\ Append(s, x) \in Seq(S)
      /\ Len(Append(s, x)) = Len(s) + 1
      /\ \A j \in 1..Len(s) : Append(s, x)[j] = s[j]
      /\ Append(s, x)[Len(s) + 1] = x
  BY AppendProperties
<1>3. DOMAIN Append(s, x) = 1..(Len(s) + 1)
  BY <1>2, LenProperties
<1> QED
  BY <1>1, <1>2, <1>3

-----------------------------------------------------------------------------
(* Expenses *)

ExpenseClaims(ex) == [i \in DOMAIN ex |-> [txn |-> ex[i].txn, n |-> ex[i].amount]]

\* The inductive invariant of the expenses desk.
SpendingShape ==
    /\ categories \in [Categories -> {"none", "active", "inactive"}]
    /\ expenses \in Seq(Expense)
    /\ recurring \in Seq(Recurring)
    /\ \A k \in DOMAIN recurring : recurring[k].nextDue > 0
    /\ dueKeys \subseteq (DOMAIN recurring) \X DueDates
    /\ dueNow \in 0..MaxDue
    /\ \A i \in DOMAIN expenses : expenses[i].status = "paid" <=> expenses[i].txn # 0

SpendingInv ==
    /\ SpendingShape
    /\ Settled(ledger, "expense_payment", ExpenseClaims(expenses))
    /\ DueDatesDraftedOnce

LEMMA SpendingSays ==
    SpendingInv => SpendingTypeOK /\ ExpensesMatchLedger /\ DueDatesDraftedOnce
<1> SUFFICES ASSUME SpendingInv PROVE SpendingTypeOK /\ ExpensesMatchLedger
  BY DEF SpendingInv
<1>1. SpendingTypeOK
  BY DEF SpendingInv, SpendingShape, SpendingTypeOK
<1>2. ASSUME NEW i \in DOMAIN expenses
      PROVE  IF expenses[i].status = "paid"
             THEN PaidBy(expenses[i].txn, "expense_payment", i, expenses[i].amount)
             ELSE NotPaid(expenses[i].txn, "expense_payment", i)
  <2>1. expenses[i].status = "paid" <=> expenses[i].txn # 0
    BY DEF SpendingInv, SpendingShape
  <2>2. IF expenses[i].txn # 0
        THEN /\ LiveIn(ledger, "expense_payment", i) = {expenses[i].txn}
             /\ ledger[expenses[i].txn].amount = expenses[i].amount
        ELSE LiveIn(ledger, "expense_payment", i) = {}
    BY DEF SpendingInv, Settled, ExpenseClaims
  <2>3. LiveIn(ledger, "expense_payment", i) = LiveFor("expense_payment", i)
    BY DEF LiveIn, LiveFor, EntryNumbers
  <2> QED
    BY <2>1, <2>2, <2>3 DEF PaidBy, NotPaid
<1> QED
  BY <1>1, <1>2 DEF ExpensesMatchLedger

LEMMA SpendingStarts == FinanceInit /\ SpendingInit => SpendingInv
<1> SUFFICES ASSUME FinanceInit, SpendingInit PROVE SpendingInv
  OBVIOUS
<1>1. ledger = << >> /\ expenses = << >> /\ recurring = << >> /\ dueKeys = {}
  BY DEF FinanceInit, SpendingInit
<1>2. SpendingShape
  BY <1>1, SpendingAssumption DEF SpendingInit, SpendingShape
<1>3. Settled(ledger, "expense_payment", ExpenseClaims(expenses))
  BY <1>1 DEF Settled, ExpenseClaims
<1>4. DueDatesDraftedOnce
  BY <1>1 DEF DueDatesDraftedOnce
<1> QED
  BY <1>2, <1>3, <1>4 DEF SpendingInv

\* An expense is changed: what it was drafted for stays, and it was not paid and is not.
LEMMA ExpenseEdited ==
    ASSUME LedgerOK, SpendingInv, UNCHANGED <<financeVars, categories, recurring, dueKeys, dueNow>>,
           NEW i \in DOMAIN expenses, NEW x \in Expense, expenses' = [expenses EXCEPT ![i] = x],
           x.txn = expenses[i].txn, x.recurring = expenses[i].recurring, x.due = expenses[i].due,
           x.status # "paid", expenses[i].status # "paid"
    PROVE  SpendingInv'
<1>1. /\ expenses \in Seq(Expense)
      /\ \A j \in DOMAIN expenses : expenses[j].status = "paid" <=> expenses[j].txn # 0
  BY DEF SpendingInv, SpendingShape
<1>2. /\ expenses' \in Seq(Expense) /\ DOMAIN expenses' = DOMAIN expenses /\ expenses'[i] = x
      /\ \A j \in DOMAIN expenses : j # i => expenses'[j] = expenses[j]
  BY <1>1, OneEdited
<1>3. SpendingShape'
  BY <1>1, <1>2 DEF SpendingInv, SpendingShape
<1>4. Settled(ledger', "expense_payment", ExpenseClaims(expenses'))
  <2> DEFINE c == ExpenseClaims(expenses)
             e == ExpenseClaims(expenses')
  <2>1. SameClaims(c, e)
    BY <1>1, <1>2 DEF ExpenseClaims, SameClaims
  <2>2. Settled(ledger, "expense_payment", c)
    BY DEF SpendingInv
  <2> HIDE DEF c, e
  <2>3. Settled(ledger', "expense_payment", e)
    BY <2>1, <2>2, FinanceUnchanged, SettledSpared
  <2> QED
    BY <2>3 DEF e
<1>5. DueDatesDraftedOnce'
  BY <1>2 DEF SpendingInv, DueDatesDraftedOnce
<1> QED
  BY <1>3, <1>4, <1>5 DEF SpendingInv

LEMMA SpendingPaperwork ==
    ASSUME LedgerOK, SpendingInv, UNCHANGED <<financeVars, expenses, dueKeys>>,
           categories' \in [Categories -> {"none", "active", "inactive"}],
           recurring' \in Seq(Recurring), \A k \in DOMAIN recurring' : recurring'[k].nextDue > 0,
           DOMAIN recurring \subseteq DOMAIN recurring', dueNow' \in 0..MaxDue
    PROVE  SpendingInv'
<1>1. SpendingShape'
  BY DEF SpendingInv, SpendingShape
<1>2. Settled(ledger', "expense_payment", ExpenseClaims(expenses'))
  BY DEF SpendingInv, financeVars
<1>3. DueDatesDraftedOnce'
  BY DEF SpendingInv, DueDatesDraftedOnce
<1> QED
  BY <1>1, <1>2, <1>3 DEF SpendingInv

\* An expense is entered or drafted.
LEMMA ExpenseAdded ==
    ASSUME LedgerOK, SpendingInv, UNCHANGED financeVars, NEW x \in Expense,
           expenses' = Append(expenses, x), x.txn = 0, x.status # "paid", SpendingShape',
           \/ x.recurring = 0 /\ dueKeys' = dueKeys
           \/ /\ x.recurring # 0 /\ <<x.recurring, x.due>> \notin dueKeys
              /\ dueKeys' = dueKeys \cup {<<x.recurring, x.due>>}
    PROVE  SpendingInv'
<1> DEFINE N == Len(expenses) + 1
<1>1. expenses \in Seq(Expense)
  BY DEF SpendingInv, SpendingShape
<1>2. /\ DOMAIN expenses' = DOMAIN expenses \cup {N} /\ N \notin DOMAIN expenses
      /\ expenses'[N] = x
      /\ \A j \in DOMAIN expenses : expenses'[j] = expenses[j]
  BY <1>1, OneAdded
<1>3. Settled(ledger', "expense_payment", ExpenseClaims(expenses'))
  <2> DEFINE c == ExpenseClaims(expenses)
             e == ExpenseClaims(expenses')
  <2>1. /\ DOMAIN c \subseteq DOMAIN e
        /\ \A d \in DOMAIN c : e[d].txn = c[d].txn /\ (c[d].txn # 0 => e[d].n = c[d].n)
        /\ \A d \in DOMAIN e \ DOMAIN c : e[d].txn = 0
    BY <1>2 DEF ExpenseClaims
  <2>2. Settled(ledger, "expense_payment", c)
    BY DEF SpendingInv
  <2> HIDE DEF c, e
  <2>3. Settled(ledger', "expense_payment", e)
    BY <2>1, <2>2, FinanceUnchanged, SettledGrows
  <2> QED
    BY <2>3 DEF e
<1>4. DueDatesDraftedOnce'
  <2> DEFINE drafted == {j \in DOMAIN expenses : expenses[j].recurring # 0}
             pair(j) == <<expenses[j].recurring, expenses[j].due>>
  <2>1. dueKeys = {pair(j) : j \in drafted}
    BY DEF SpendingInv, DueDatesDraftedOnce
  <2>2. \A j \in drafted : pair(j) \in dueKeys
    BY <2>1
  <2>3. ASSUME NEW i \in DOMAIN expenses', NEW j \in DOMAIN expenses',
               expenses'[i].recurring # 0, expenses'[i].recurring = expenses'[j].recurring,
               expenses'[i].due = expenses'[j].due
        PROVE  i = j
    <3>1. CASE i # N /\ j # N
      BY <1>2, <2>3, <3>1 DEF SpendingInv, DueDatesDraftedOnce
    <3>2. ASSUME NEW k \in DOMAIN expenses, expenses[k].recurring # 0,
                 expenses[k].recurring = x.recurring, expenses[k].due = x.due
          PROVE  FALSE
      BY <2>2, <3>2
    <3>3. CASE i = N /\ j # N
      BY <1>2, <2>3, <3>2, <3>3
    <3>4. CASE i # N /\ j = N
      BY <1>2, <2>3, <3>2, <3>4
    <3> QED
      BY <3>1, <3>3, <3>4
  <2>4. dueKeys' = {<<expenses'[i].recurring, expenses'[i].due>> :
                       i \in {j \in DOMAIN expenses' : expenses'[j].recurring # 0}}
    <3>1. CASE x.recurring = 0 /\ dueKeys' = dueKeys
      <4>1. {j \in DOMAIN expenses' : expenses'[j].recurring # 0} = drafted
        BY <1>2, <3>1
      <4> QED
        BY <1>2, <2>1, <3>1, <4>1
    <3>2. CASE x.recurring # 0 /\ dueKeys' = dueKeys \cup {<<x.recurring, x.due>>}
      <4>1. {j \in DOMAIN expenses' : expenses'[j].recurring # 0} = drafted \cup {N}
        BY <1>2, <3>2
      <4>2. \A j \in drafted : <<expenses'[j].recurring, expenses'[j].due>> = pair(j)
        BY <1>2
      <4> QED
        BY <1>2, <2>1, <3>2, <4>1, <4>2
    <3> QED
      BY <3>1, <3>2
  <2> QED
    BY <2>3, <2>4 DEF DueDatesDraftedOnce
<1> QED
  BY <1>3, <1>4 DEF SpendingInv

LEMMA StatusEdited ==
    ASSUME LedgerOK, SpendingInv, NEW i \in DOMAIN expenses,
           NEW action \in {"submit", "review", "approve", "reject", "cancel"},
           UpdateExpenseStatus(i, action)
    PROVE  SpendingInv'
<1> DEFINE x == [expenses[i] EXCEPT !.status = StatusAfter(action),
                                    !.reviewed = @ \/ action = "review"]
<1>1. expenses \in Seq(Expense) /\ expenses[i] \in Expense
  BY DEF SpendingInv, SpendingShape
<1>2. /\ x \in Expense /\ x.txn = expenses[i].txn /\ x.recurring = expenses[i].recurring
      /\ x.due = expenses[i].due /\ x.status # "paid"
  BY <1>1 DEF Expense, StatusAfter
<1>3. expenses[i].status # "paid"
  BY DEF UpdateExpenseStatus, Allowed, Cancellable
<1>4. /\ expenses' = [expenses EXCEPT ![i] = x]
      /\ UNCHANGED <<financeVars, categories, recurring, dueKeys, dueNow>>
  BY DEF UpdateExpenseStatus
<1> HIDE DEF x
<1> QED
  BY <1>2, <1>3, <1>4, ExpenseEdited

LEMMA AmountEdited ==
    ASSUME LedgerOK, SpendingInv, NEW i \in DOMAIN expenses, NEW n \in ExpenseAmounts,
           UpdateExpense(i, n)
    PROVE  SpendingInv'
<1> DEFINE x == [expenses[i] EXCEPT !.amount = n]
<1>1. expenses \in Seq(Expense) /\ expenses[i] \in Expense /\ n \in Amount
  BY SpendingAssumption DEF SpendingInv, SpendingShape
<1>2. expenses[i].status # "paid"
  BY DEF UpdateExpense, Editable
<1>3. /\ x \in Expense /\ x.txn = expenses[i].txn /\ x.recurring = expenses[i].recurring
      /\ x.due = expenses[i].due /\ x.status # "paid"
  BY <1>1, <1>2 DEF Expense
<1>4. /\ expenses' = [expenses EXCEPT ![i] = x]
      /\ UNCHANGED <<financeVars, categories, recurring, dueKeys, dueNow>>
  BY DEF UpdateExpense
<1> HIDE DEF x
<1> QED
  BY <1>2, <1>3, <1>4, ExpenseEdited

LEMMA ExpensePaid ==
    ASSUME LedgerOK, SpendingInv, NEW i \in DOMAIN expenses, NEW r \in PaymentIds,
           NEW a \in AccountIds, PayExpense(r, i, a)
    PROVE  SpendingInv' /\ LedgerOK' /\ Books("expense_payment", i, expenses[i].amount)
<1> DEFINE x == [expenses[i] EXCEPT !.status = "paid", !.txn = NextNumber]
<1>1. /\ expenses \in Seq(Expense) /\ expenses[i] \in Expense /\ expenses[i].amount \in Nat
      /\ i \in Nat /\ NextNumber = Len(ledger) + 1 /\ NextNumber \in Nat /\ NextNumber # 0
  <2>1. expenses \in Seq(Expense)
    BY DEF SpendingInv, SpendingShape
  <2>2. expenses[i] \in Expense /\ i \in Nat
    BY <2>1, OneOf
  <2> QED
    BY <2>1, <2>2, DayNumber DEF Expense, Amount, NextNumber
<1>2. /\ x \in Expense /\ x.txn = NextNumber /\ x.recurring = expenses[i].recurring
      /\ x.due = expenses[i].due /\ x.status = "paid" /\ x.amount = expenses[i].amount
  BY <1>1 DEF Expense
<1>3. /\ PostFor(r, "expense_payment", expenses[i].amount, a, None, i)
      /\ expenses' = [expenses EXCEPT ![i] = x]
      /\ UNCHANGED <<categories, recurring, dueKeys, dueNow>>
      /\ expenses[i].status # "paid"
  BY DEF PayExpense, PayOut
<1> HIDE DEF x
<1>4. Books("expense_payment", i, expenses[i].amount) /\ LedgerOK'
  <2>1. "expense_payment" \in PostingTypes
    BY DEF PostingTypes
  <2> QED
    BY <1>1, <1>3, <2>1, PayBooks
<1>5. /\ expenses' \in Seq(Expense) /\ DOMAIN expenses' = DOMAIN expenses /\ expenses'[i] = x
      /\ \A j \in DOMAIN expenses : j # i => expenses'[j] = expenses[j]
  BY <1>1, <1>2, <1>3, OneEdited
<1>6. SpendingShape'
  BY <1>1, <1>2, <1>3, <1>5 DEF SpendingInv, SpendingShape
<1>7. Settled(ledger', "expense_payment", ExpenseClaims(expenses'))
  <2> DEFINE c == ExpenseClaims(expenses)
             e == ExpenseClaims(expenses')
  <2>1. /\ DOMAIN e = DOMAIN c /\ i \in DOMAIN c /\ c[i].txn = 0
        /\ e[i].txn = Len(ledger) + 1 /\ e[i].n = expenses[i].amount
        /\ \A j \in DOMAIN c \ {i} : e[j].txn = c[j].txn /\ (c[j].txn # 0 => e[j].n = c[j].n)
    BY <1>1, <1>2, <1>3, <1>5 DEF ExpenseClaims, SpendingInv, SpendingShape
  <2>2. Settled(ledger, "expense_payment", c)
    BY DEF SpendingInv
  <2> HIDE DEF c, e
  <2>3. Settled(ledger', "expense_payment", e)
    BY <1>4, <2>1, <2>2, SettledPaid
  <2> QED
    BY <2>3 DEF e
<1>8. DueDatesDraftedOnce'
  BY <1>2, <1>3, <1>5 DEF SpendingInv, DueDatesDraftedOnce
<1> QED
  BY <1>4, <1>6, <1>7, <1>8 DEF SpendingInv

\* A reversed payment makes its expense approved again; another is none of its.
LEMMA ExpensesReversed ==
    ASSUME LedgerOK, SpendingInv, NEW i \in EntryNumbers, Unbooks({i}),
           ledger[i].type # "reversal", expenses' = ExpensesAfterReversing(ledger[i]),
           UNCHANGED <<categories, recurring, dueKeys, dueNow>>
    PROVE  SpendingInv'
<1>1. expenses \in Seq(Expense) /\ Settled(ledger, "expense_payment", ExpenseClaims(expenses))
  BY DEF SpendingInv, SpendingShape
<1>2. CASE ledger[i].type = "expense_payment"
  <2> DEFINE d == ledger[i].about
             x == [expenses[d] EXCEPT !.status = "approved", !.txn = 0]
             c == ExpenseClaims(expenses)
             e == ExpenseClaims(expenses')
  <2>1. d \in DOMAIN expenses
    BY <1>1, <1>2 DEF Settled, ExpenseClaims, EntryNumbers
  <2>2. expenses[d] \in Expense
    BY <1>1, <2>1
  <2>3. /\ x \in Expense /\ x.txn = 0 /\ x.recurring = expenses[d].recurring
        /\ x.due = expenses[d].due /\ x.status = "approved"
    BY <2>2 DEF Expense
  <2>4. expenses' = [expenses EXCEPT ![d] = x]
    BY <1>2 DEF ExpensesAfterReversing
  <2> HIDE DEF x
  <2>5. /\ expenses' \in Seq(Expense) /\ DOMAIN expenses' = DOMAIN expenses /\ expenses'[d] = x
        /\ \A j \in DOMAIN expenses : j # d => expenses'[j] = expenses[j]
    BY <1>1, <2>1, <2>3, <2>4, OneEdited
  <2>6. SpendingShape'
    BY <2>1, <2>3, <2>5 DEF SpendingInv, SpendingShape
  <2>7. /\ d \in DOMAIN c /\ DOMAIN e = DOMAIN c /\ e[d].txn = 0
        /\ \A j \in DOMAIN c \ {d} : e[j].txn = c[j].txn /\ (c[j].txn # 0 => e[j].n = c[j].n)
    BY <2>1, <2>3, <2>5 DEF ExpenseClaims
  <2>8. Settled(ledger', "expense_payment", e)
    <3> HIDE DEF c, e
    <3>1. Settled(ledger, "expense_payment", c)
      BY <1>1 DEF c
    <3> QED
      BY <1>2, <2>7, <3>1, SettledUnpaid
  <2>9. DueDatesDraftedOnce'
    BY <2>1, <2>3, <2>5 DEF SpendingInv, DueDatesDraftedOnce
  <2> QED
    BY <2>6, <2>8, <2>9 DEF SpendingInv
<1>3. CASE ledger[i].type # "expense_payment"
  <2>1. expenses' = expenses
    BY <1>3 DEF ExpensesAfterReversing
  <2>2. Spares("expense_payment")
    BY <1>3, UnbooksSpares
  <2>3. SameClaims(ExpenseClaims(expenses), ExpenseClaims(expenses))
    BY DEF SameClaims
  <2>4. Settled(ledger', "expense_payment", ExpenseClaims(expenses))
    BY <1>1, <2>2, <2>3, SettledSpared
  <2>5. SpendingShape' /\ DueDatesDraftedOnce'
    BY <2>1 DEF SpendingInv, SpendingShape, DueDatesDraftedOnce
  <2> QED
    BY <2>1, <2>4, <2>5 DEF SpendingInv
<1> QED
  BY <1>2, <1>3

\* Nothing another desk does disturbs the expenses.
LEMMA SpendingUndisturbed ==
    ASSUME LedgerOK, SpendingInv, UNCHANGED spendingVars, Spares("expense_payment")
    PROVE  SpendingInv'
<1>1. SameClaims(ExpenseClaims(expenses), ExpenseClaims(expenses))
  BY DEF SameClaims
<1>2. Settled(ledger', "expense_payment", ExpenseClaims(expenses))
  BY <1>1, SettledSpared DEF SpendingInv
<1>3. SpendingShape' /\ DueDatesDraftedOnce' /\ expenses' = expenses
  BY DEF spendingVars, SpendingInv, SpendingShape, DueDatesDraftedOnce
<1> QED
  BY <1>2, <1>3 DEF SpendingInv

LEMMA ExpenseCreated ==
    ASSUME LedgerOK, SpendingInv, NEW c \in Categories, NEW n \in ExpenseAmounts,
           NEW submit \in BOOLEAN, CreateExpense(c, n, submit)
    PROVE  SpendingInv'
<1> DEFINE x == NewExpense(IF submit THEN "pending_review" ELSE "draft", n, 0, 0)
<1>1. x \in Expense /\ x.txn = 0 /\ x.status # "paid" /\ x.recurring = 0
  BY SpendingAssumption DEF NewExpense, Expense
<1>2. expenses' = Append(expenses, x) /\ UNCHANGED <<financeVars, categories, recurring, dueKeys, dueNow>>
  BY DEF CreateExpense
<1> HIDE DEF x
<1>3. expenses \in Seq(Expense)
  BY DEF SpendingInv, SpendingShape
<1>4. SpendingShape'
  BY <1>1, <1>2, <1>3, OneAdded DEF SpendingInv, SpendingShape
<1> QED
  BY <1>1, <1>2, <1>4, ExpenseAdded

LEMMA RecurringSwept ==
    ASSUME LedgerOK, SpendingInv, NEW k \in DOMAIN recurring, SweepRecurring(k)
    PROVE  SpendingInv'
<1> DEFINE due == recurring[k].nextDue
           x == NewExpense("draft", recurring[k].amount, k, due)
           y == [recurring[k] EXCEPT !.nextDue = due + 1]
<1>1. /\ expenses \in Seq(Expense) /\ recurring \in Seq(Recurring) /\ recurring[k] \in Recurring
      /\ k \in Nat /\ k # 0 /\ due \in Nat /\ due > 0 /\ dueNow \in 0..MaxDue /\ MaxDue \in Nat
  <2>1. /\ expenses \in Seq(Expense) /\ recurring \in Seq(Recurring) /\ recurring[k].nextDue > 0
        /\ dueNow \in 0..MaxDue
    BY DEF SpendingInv, SpendingShape
  <2>2. recurring[k] \in Recurring /\ k \in Nat /\ k # 0
    BY <2>1, OneOf
  <2> QED
    BY <2>1, <2>2, SpendingAssumption DEF Recurring
<1>2. /\ expenses' = Append(expenses, x) /\ recurring' = [recurring EXCEPT ![k] = y]
      /\ dueKeys' = dueKeys \cup {<<k, due>>} /\ <<k, due>> \notin dueKeys /\ due <= dueNow
      /\ UNCHANGED financeVars /\ UNCHANGED categories /\ UNCHANGED dueNow
  BY DEF SweepRecurring, Undrafted
<1>3. /\ x \in Expense /\ x.txn = 0 /\ x.status # "paid" /\ x.recurring = k /\ x.due = due
      /\ y \in Recurring /\ y.nextDue = due + 1
  <2>1. recurring[k].amount \in Amount /\ due + 1 \in Nat
    BY <1>1 DEF Recurring
  <2>2. x \in Expense /\ x.txn = 0 /\ x.status # "paid" /\ x.recurring = k /\ x.due = due
    BY <1>1, <2>1 DEF NewExpense, Expense
  <2>3. y \in Recurring /\ y.nextDue = due + 1
    BY <1>1, <2>1 DEF Recurring
  <2> QED
    BY <2>2, <2>3
<1>4. due \in DueDates
  BY <1>1, <1>2 DEF DueDates
<1> HIDE DEF x, y, due
<1>5. /\ expenses' \in Seq(Expense)
      /\ \A i \in DOMAIN expenses' : expenses'[i].status = "paid" <=> expenses'[i].txn # 0
  BY <1>1, <1>2, <1>3, OneAdded DEF SpendingInv, SpendingShape
<1>6. /\ recurring' \in Seq(Recurring) /\ DOMAIN recurring' = DOMAIN recurring
      /\ \A j \in DOMAIN recurring' : recurring'[j].nextDue > 0
  BY <1>1, <1>2, <1>3, OneEdited DEF SpendingInv, SpendingShape
<1>7. SpendingShape'
  BY <1>2, <1>4, <1>5, <1>6 DEF SpendingInv, SpendingShape
<1> QED
  BY <1>1, <1>2, <1>3, <1>7, ExpenseAdded

LEMMA SpendingKept ==
    ASSUME LedgerOK, SpendingInv, SpendingStep
    PROVE  SpendingInv' /\ LedgerOK' /\ \A t : t # "expense_payment" => Spares(t)
<1>0. /\ recurring \in Seq(Recurring) /\ dueNow \in 0..MaxDue /\ MaxDue \in Nat
      /\ categories \in [Categories -> {"none", "active", "inactive"}]
      /\ \A k \in DOMAIN recurring : recurring[k].nextDue > 0
  BY SpendingAssumption DEF SpendingInv, SpendingShape
<1>1. ASSUME NEW c \in Categories, CreateExpenseCategory(c) PROVE SpendingInv'
  <2>1. categories' \in [Categories -> {"none", "active", "inactive"}]
    BY <1>0, <1>1 DEF CreateExpenseCategory
  <2> QED
    BY <1>0, <1>1, <2>1, SpendingPaperwork DEF CreateExpenseCategory
<1>2. ASSUME NEW c \in Categories, NEW active \in BOOLEAN, UpdateExpenseCategory(c, active)
      PROVE  SpendingInv'
  <2>1. categories' \in [Categories -> {"none", "active", "inactive"}]
    BY <1>0, <1>2 DEF UpdateExpenseCategory
  <2> QED
    BY <1>0, <1>2, <2>1, SpendingPaperwork DEF UpdateExpenseCategory
<1>3. ASSUME NEW c \in Categories, NEW n \in ExpenseAmounts, NEW due \in DueDates,
             CreateRecurringExpense(c, n, due)
      PROVE  SpendingInv'
  <2> DEFINE y == [active |-> TRUE, amount |-> n, category |-> c, nextDue |-> due]
  <2>1. y \in Recurring /\ y.nextDue > 0
    BY SpendingAssumption DEF Recurring, DueDates
  <2>2. recurring' = Append(recurring, y)
    BY <1>3 DEF CreateRecurringExpense
  <2> HIDE DEF y
  <2>3. /\ recurring' \in Seq(Recurring) /\ DOMAIN recurring \subseteq DOMAIN recurring'
        /\ \A k \in DOMAIN recurring' : recurring'[k].nextDue > 0
    BY <1>0, <2>1, <2>2, OneAdded
  <2> QED
    BY <1>0, <1>3, <2>3, SpendingPaperwork DEF CreateRecurringExpense
<1>4. ASSUME NEW k \in DOMAIN recurring, NEW active \in BOOLEAN, NEW due \in DueDates,
             UpdateRecurringExpense(k, active, due)
      PROVE  SpendingInv'
  <2> DEFINE y == [recurring[k] EXCEPT !.active = active, !.nextDue = due]
  <2>1. y \in Recurring /\ y.nextDue > 0
    <3>1. recurring[k] \in Recurring
      BY <1>0, OneOf
    <3>2. due \in Nat /\ due > 0
      BY SpendingAssumption DEF DueDates
    <3> QED
      BY <3>1, <3>2 DEF Recurring
  <2>2. recurring' = [recurring EXCEPT ![k] = y]
    BY <1>4 DEF UpdateRecurringExpense
  <2> HIDE DEF y
  <2>3. /\ recurring' \in Seq(Recurring) /\ DOMAIN recurring \subseteq DOMAIN recurring'
        /\ \A j \in DOMAIN recurring' : recurring'[j].nextDue > 0
    BY <1>0, <2>1, <2>2, OneEdited
  <2> QED
    BY <1>0, <1>4, <2>3, SpendingPaperwork DEF UpdateRecurringExpense
<1>5. ASSUME ReminderTimeComes PROVE SpendingInv'
  <2>1. dueNow' \in 0..MaxDue
    BY <1>0, <1>5 DEF ReminderTimeComes
  <2> QED
    BY <1>0, <1>5, <2>1, SpendingPaperwork DEF ReminderTimeComes
<1>6. ASSUME NEW i \in DOMAIN expenses, NEW r \in PaymentIds, NEW a \in AccountIds, PayExpense(r, i, a)
      PROVE  SpendingInv' /\ LedgerOK' /\ \A t : t # "expense_payment" => Spares(t)
  BY <1>6, ExpensePaid, BooksSpares
<1>7. ASSUME UNCHANGED financeVars PROVE LedgerOK' /\ \A t : Spares(t)
  BY <1>7, FinanceUnchanged
<1> QED
  BY <1>1, <1>2, <1>3, <1>4, <1>5, <1>6, <1>7, ExpenseCreated, RecurringSwept, StatusEdited, AmountEdited
  DEF SpendingStep, CreateExpenseCategory, UpdateExpenseCategory, CreateExpense,
      CreateRecurringExpense, UpdateExpense, UpdateExpenseStatus, UpdateRecurringExpense,
      SweepRecurring, ReminderTimeComes

-----------------------------------------------------------------------------
(* Stock *)

PurchaseClaims(ps) == [p \in DOMAIN ps |-> [txn |-> ps[p].txn, n |-> ps[p].total]]

\* What the movements in S change.
ChangeOf(mv, S) == SumFunction([i \in S |-> mv[i].change])
OfItem(mv, it) == {i \in DOMAIN mv : mv[i].item = it}
OnReceipt(mv, p) == {i \in DOMAIN mv : mv[i].purchase = p}
MirrorsIn(mv, i) == {j \in DOMAIN mv : mv[j].reversalOf = i}

StockShape ==
    /\ items \in [Items -> StockItem]
    /\ \A it \in Items : ~items[it].exists => items[it].quantity = 0
    /\ movements \in Seq(Movement)
    /\ suppliers \in [Suppliers -> {"none", "active", "inactive"}]
    /\ purchases \in Seq(Purchase)
    /\ \A p \in DOMAIN purchases :
          /\ purchases[p].paid /\ purchases[p].total > 0 <=> purchases[p].txn # 0
          /\ purchases[p].status = "cancelled" => ~purchases[p].paid \/ purchases[p].total = 0
          /\ \A it \in Items : purchases[p].lines[it] > 0 => items[it].exists
    /\ \A i \in DOMAIN movements :
          /\ items[movements[i].item].exists
          /\ movements[i].reversalOf \in {0} \cup DOMAIN movements
          /\ movements[i].purchase \in {0} \cup DOMAIN purchases

\* Quantities, reorder status and mirrors follow from the movements.
CountsHold ==
    /\ \A it \in Items :
          /\ items[it].quantity = ChangeOf(movements, OfItem(movements, it))
          /\ items[it].stockStatus = StockStatusFor(items[it].quantity, items[it].reorder)
    /\ \A i \in DOMAIN movements :
          IF movements[i].posted THEN MirrorsIn(movements, i) = {}
          ELSE \E j : MirrorsIn(movements, i) = {j}

\* What was ordered on a received purchase is in its movements.
Received ==
    \A p \in DOMAIN purchases :
        IF purchases[p].status = "received"
        THEN /\ \A i \in OnReceipt(movements, p) : movements[i].posted
             /\ \A it \in Items : purchases[p].lines[it] =
                   ChangeOf(movements, OnReceipt(movements, p) \cap OfItem(movements, it))
        ELSE OnReceipt(movements, p) = {}

\* The inductive invariant of the stock desk.
StockInv ==
    /\ StockShape
    /\ CountsHold
    /\ Received
    /\ Settled(ledger, "inventory_purchase_payment", PurchaseClaims(purchases))

LEMMA StockSays ==
    StockInv => /\ StockTypeOK /\ StockMatchesMovements
                /\ ReceiptsMatchPurchases /\ PurchasesMatchLedger
<1> SUFFICES ASSUME StockInv
             PROVE  /\ StockTypeOK /\ StockMatchesMovements
                    /\ ReceiptsMatchPurchases /\ PurchasesMatchLedger
  OBVIOUS
<1>1. StockTypeOK
  BY DEF StockInv, StockShape, StockTypeOK
<1>2. StockMatchesMovements
  <2>1. ASSUME NEW i \in DOMAIN movements
        PROVE  Cardinality({j \in DOMAIN movements : movements[j].reversalOf = i})
                  = IF movements[i].posted THEN 0 ELSE 1
    <3>1. IF movements[i].posted THEN MirrorsIn(movements, i) = {}
          ELSE \E j : MirrorsIn(movements, i) = {j}
      BY DEF StockInv, CountsHold
    <3> QED
      BY <3>1, FS_EmptySet, FS_Singleton DEF MirrorsIn
  <2> QED
    BY <2>1 DEF StockInv, CountsHold, StockMatchesMovements, ChangeOf, OfItem, MovementsOf
<1>3. ReceiptsMatchPurchases
  BY DEF StockInv, Received, ReceiptsMatchPurchases, ChangeOf, OfItem, OnReceipt, MovementsOf
<1>4. ASSUME NEW p \in DOMAIN purchases
      PROVE  /\ IF purchases[p].paid /\ purchases[p].total > 0
                THEN PaidBy(purchases[p].txn, "inventory_purchase_payment", p, purchases[p].total)
                ELSE NotPaid(purchases[p].txn, "inventory_purchase_payment", p)
             /\ purchases[p].status = "cancelled" => ~purchases[p].paid \/ purchases[p].total = 0
  <2>1. /\ purchases[p].paid /\ purchases[p].total > 0 <=> purchases[p].txn # 0
        /\ purchases[p].status = "cancelled" => ~purchases[p].paid \/ purchases[p].total = 0
    BY DEF StockInv, StockShape
  <2>2. IF purchases[p].txn # 0
        THEN /\ LiveIn(ledger, "inventory_purchase_payment", p) = {purchases[p].txn}
             /\ ledger[purchases[p].txn].amount = purchases[p].total
        ELSE LiveIn(ledger, "inventory_purchase_payment", p) = {}
    BY DEF StockInv, Settled, PurchaseClaims
  <2>3. LiveIn(ledger, "inventory_purchase_payment", p) = LiveFor("inventory_purchase_payment", p)
    BY DEF LiveIn, LiveFor, EntryNumbers
  <2> QED
    BY <2>1, <2>2, <2>3 DEF PaidBy, NotPaid
<1>5. PurchasesMatchLedger
  BY <1>4 DEF PurchasesMatchLedger
<1> QED
  BY <1>1, <1>2, <1>3, <1>5

LEMMA StockStarts == FinanceInit /\ StockInit => StockInv
<1> SUFFICES ASSUME FinanceInit, StockInit PROVE StockInv
  OBVIOUS
<1>1. /\ ledger = << >> /\ movements = << >> /\ purchases = << >>
      /\ \A it \in Items : items[it].quantity = 0 /\ items[it].stockStatus = "out_of_stock"
  BY DEF FinanceInit, StockInit
<1>2. StockShape
  BY <1>1 DEF StockInit, StockShape, StockItem
<1>3. CountsHold
  <2>1. ASSUME NEW it \in Items
        PROVE  items[it].quantity = ChangeOf(movements, OfItem(movements, it))
    <3>1. OfItem(movements, it) = {}
      BY <1>1 DEF OfItem
    <3> QED
      BY <1>1, <3>1, SumOfNone DEF ChangeOf
  <2> QED
    BY <1>1, <2>1 DEF CountsHold, StockStatusFor
<1>4. Received /\ Settled(ledger, "inventory_purchase_payment", PurchaseClaims(purchases))
  BY <1>1 DEF Received, Settled, PurchaseClaims
<1> QED
  BY <1>2, <1>3, <1>4 DEF StockInv

-----------------------------------------------------------------------------
(* Movements *)

LEMMA SomeMovements ==
    ASSUME NEW mv \in Seq(Movement), NEW S, S \subseteq DOMAIN mv
    PROVE  /\ IsFiniteSet(S) /\ \A i \in S : mv[i].change \in Int
           /\ ChangeOf(mv, S) \in Int
<1>1. IsFiniteSet(DOMAIN mv)
  BY LenProperties, FS_Interval
<1>2. IsFiniteSet(S)
  BY <1>1, FS_Subset
<1>3. ASSUME NEW i \in S PROVE mv[i].change \in Int
  <2>1. mv[i] \in Movement
    BY OneOf
  <2> QED
    BY <2>1 DEF Movement
<1> QED
  BY <1>2, <1>3, SumType DEF ChangeOf

\* The movements of mv are among those of nv, but for being reversed.
MovementsKept(mv, nv) ==
    /\ DOMAIN mv \subseteq DOMAIN nv
    /\ \A j \in DOMAIN mv : /\ nv[j].item = mv[j].item
                            /\ nv[j].change = mv[j].change
                            /\ nv[j].reversalOf = mv[j].reversalOf
                            /\ nv[j].purchase = mv[j].purchase

\* They change the same before and after.
LEMMA SameChange ==
    ASSUME NEW mv \in Seq(Movement), NEW nv, MovementsKept(mv, nv), NEW S, S \subseteq DOMAIN mv
    PROVE  ChangeOf(nv, S) = ChangeOf(mv, S)
<1>1. IsFiniteSet(S)
  BY SomeMovements
<1> QED
  BY <1>1, SumSame DEF ChangeOf, MovementsKept

\* And a movement more changes what it says.
LEMMA MoreChange ==
    ASSUME NEW mv \in Seq(Movement), NEW nv, MovementsKept(mv, nv), NEW S, S \subseteq DOMAIN mv,
           NEW z, z \notin S, nv[z].change \in Int
    PROVE  ChangeOf(nv, S \cup {z}) = ChangeOf(mv, S) + nv[z].change
<1> DEFINE f == [i \in S |-> mv[i].change]
           g == [i \in S \cup {z} |-> nv[i].change]
<1>1. IsFiniteSet(S) /\ \A i \in S : mv[i].change \in Int
  BY SomeMovements
<1>2. OneMore(f, g, z) /\ g[z] = nv[z].change
  BY <1>1 DEF OneMore, MovementsKept
<1> HIDE DEF f, g
<1>3. SumFunction(g) = SumFunction(f) + g[z]
  BY <1>2, SumAdds
<1> QED
  BY <1>2, <1>3 DEF ChangeOf, f, g

\* The sets the movements fall into: what there was, and what of the new ones is in them.
LEMMA OfItemAfter ==
    ASSUME NEW mv, NEW nv, MovementsKept(mv, nv), NEW x
    PROVE  \A k : k \in OfItem(nv, x) <=>
                    k \in OfItem(mv, x) \/ (k \in DOMAIN nv \ DOMAIN mv /\ nv[k].item = x)
BY DEF MovementsKept, OfItem

LEMMA OnReceiptAfter ==
    ASSUME NEW mv, NEW nv, MovementsKept(mv, nv), NEW x
    PROVE  \A k : k \in OnReceipt(nv, x) <=>
                    k \in OnReceipt(mv, x) \/ (k \in DOMAIN nv \ DOMAIN mv /\ nv[k].purchase = x)
BY DEF MovementsKept, OnReceipt

LEMMA MirrorsAfter ==
    ASSUME NEW mv, NEW nv, MovementsKept(mv, nv), NEW x
    PROVE  \A k : k \in MirrorsIn(nv, x) <=>
                    k \in MirrorsIn(mv, x) \/ (k \in DOMAIN nv \ DOMAIN mv /\ nv[k].reversalOf = x)
BY DEF MovementsKept, MirrorsIn


\* The movements but for movement i, if there is one, which is marked reversed.
Marking(i) == IF i = 0 THEN movements ELSE [movements EXCEPT ![i].posted = FALSE]

LEMMA MarkedMovements ==
    ASSUME movements \in Seq(Movement), NEW i \in {0} \cup DOMAIN movements
    PROVE  /\ Marking(i) \in Seq(Movement) /\ DOMAIN Marking(i) = DOMAIN movements
           /\ \A j \in DOMAIN movements :
                 /\ Marking(i)[j].item = movements[j].item
                 /\ Marking(i)[j].change = movements[j].change
                 /\ Marking(i)[j].reversalOf = movements[j].reversalOf
                 /\ Marking(i)[j].purchase = movements[j].purchase
                 /\ Marking(i)[j].posted <=> movements[j].posted /\ j # i
<1>0. 0 \notin DOMAIN movements /\ \A j \in DOMAIN movements : movements[j] \in Movement
  BY OneOf
<1>1. CASE i = 0
  BY <1>0, <1>1 DEF Marking
<1>2. CASE i # 0
  <2> DEFINE x == [movements[i] EXCEPT !.posted = FALSE]
  <2>1. i \in DOMAIN movements /\ movements[i] \in Movement
    BY <1>0, <1>2
  <2>2. /\ x \in Movement /\ ~x.posted /\ x.item = movements[i].item
        /\ x.change = movements[i].change /\ x.reversalOf = movements[i].reversalOf
        /\ x.purchase = movements[i].purchase
    BY <2>1 DEF Movement
  <2>3. Marking(i) = [movements EXCEPT ![i] = x]
    BY <1>2 DEF Marking
  <2> HIDE DEF x
  <2>4. /\ Marking(i) \in Seq(Movement) /\ DOMAIN Marking(i) = DOMAIN movements
        /\ Marking(i)[i] = x
        /\ \A j \in DOMAIN movements : j # i => Marking(i)[j] = movements[j]
    BY <2>1, <2>2, <2>3, OneEdited
  <2> QED
    BY <2>1, <2>2, <2>4
<1> QED
  BY <1>1, <1>2

\* A movement m of item it is written, perhaps the mirror of an earlier one, and the
\* item becomes x.
Moves(it, m, x) ==
    /\ m \in Movement /\ m.item = it /\ m.posted /\ m.purchase = 0
    /\ m.reversalOf # 0 => m.reversalOf \in DOMAIN movements /\ Reversible(movements[m.reversalOf])
    /\ movements' = Append(Marking(m.reversalOf), m)
    /\ x \in StockItem /\ items' = [items EXCEPT ![it] = x] /\ x.exists
    /\ x.quantity = items[it].quantity + m.change
    /\ x.stockStatus = StockStatusFor(x.quantity, x.reorder)

LEMMA OneMoved ==
    ASSUME StockInv, UNCHANGED <<financeVars, suppliers, purchases>>,
           NEW it \in Items, NEW m, NEW x, Moves(it, m, x)
    PROVE  StockInv'
<1> DEFINE i == m.reversalOf
           N == Len(movements) + 1
<1>1. /\ movements \in Seq(Movement) /\ items \in [Items -> StockItem] /\ purchases \in Seq(Purchase)
      /\ Len(movements) \in Nat /\ DOMAIN movements = 1..Len(movements) /\ N \notin DOMAIN movements
      /\ N # 0 /\ purchases' = purchases /\ ledger' = ledger /\ m.change \in Int
  BY LenProperties DEF StockInv, StockShape, financeVars, Movement, Moves
<1>0. 0 \notin DOMAIN movements
  BY <1>1
<1>2. /\ Marking(i) \in Seq(Movement) /\ DOMAIN Marking(i) = DOMAIN movements
      /\ \A j \in DOMAIN movements :
            /\ Marking(i)[j].item = movements[j].item
            /\ Marking(i)[j].change = movements[j].change
            /\ Marking(i)[j].reversalOf = movements[j].reversalOf
            /\ Marking(i)[j].purchase = movements[j].purchase
            /\ Marking(i)[j].posted <=> movements[j].posted /\ j # i
  <2>1. i \in {0} \cup DOMAIN movements
    BY DEF Moves
  <2> QED
    BY <1>1, <2>1, MarkedMovements
<1>3. /\ movements' \in Seq(Movement) /\ DOMAIN movements' = DOMAIN movements \cup {N}
      /\ movements'[N] = m
      /\ \A j \in DOMAIN movements : movements'[j] = Marking(i)[j]
  <2>1. Len(Marking(i)) = Len(movements)
    BY <1>1, <1>2, LenProperties
  <2>2. movements' = Append(Marking(i), m) /\ m \in Movement
    BY DEF Moves
  <2> QED
    BY <1>1, <1>2, <2>1, <2>2, OneAdded
<1>4. MovementsKept(movements, movements') /\ DOMAIN movements' \ DOMAIN movements = {N}
  BY <1>1, <1>2, <1>3 DEF MovementsKept
<1>5. \A j \in DOMAIN movements : movements'[j].posted <=> movements[j].posted /\ j # i
  BY <1>2, <1>3
<1>6. /\ items' \in [Items -> StockItem] /\ items'[it] = x
      /\ \A o \in Items : o # it => items'[o] = items[o]
      /\ x.exists /\ x.quantity = items[it].quantity + m.change
      /\ x.stockStatus = StockStatusFor(x.quantity, x.reorder)
  BY <1>1 DEF Moves
<1>7. i # 0 => i \in DOMAIN movements /\ movements[i].posted /\ movements[i].purchase = 0
  BY DEF Reversible, Moves
<1>8. /\ movements'[N].item = it /\ movements'[N].purchase = 0 /\ movements'[N].reversalOf = i
      /\ movements'[N].posted /\ movements'[N].change = m.change
      /\ i \in {0} \cup DOMAIN movements /\ movements'[N].change \in Int
  BY <1>1, <1>3 DEF Moves
<1> HIDE DEF N, i
<1>9. StockShape'
  <2>1. \A o \in Items : items[o].exists => items'[o].exists
    BY <1>6
  <2>2. ASSUME NEW j \in DOMAIN movements'
        PROVE  /\ items'[movements'[j].item].exists
               /\ movements'[j].reversalOf \in {0} \cup DOMAIN movements'
               /\ movements'[j].purchase \in {0} \cup DOMAIN purchases'
    <3>1. CASE j = N
      BY <1>3, <1>6, <1>8, <3>1
    <3>2. CASE j \in DOMAIN movements
      <4>1. movements[j] \in Movement
        BY <1>1, <3>2, OneOf
      <4>2. movements[j].item \in Items
        BY <4>1 DEF Movement
      <4>3. /\ items[movements[j].item].exists
            /\ movements[j].reversalOf \in {0} \cup DOMAIN movements
            /\ movements[j].purchase \in {0} \cup DOMAIN purchases
        BY <3>2 DEF StockInv, StockShape
      <4>4. /\ movements'[j].item = movements[j].item
            /\ movements'[j].reversalOf = movements[j].reversalOf
            /\ movements'[j].purchase = movements[j].purchase
        BY <1>4, <3>2 DEF MovementsKept
      <4> QED
        BY <1>1, <1>3, <2>1, <4>2, <4>3, <4>4
    <3> QED
      BY <1>3, <3>1, <3>2
  <2>3. \A o \in Items : ~items'[o].exists => items'[o].quantity = 0
    BY <1>6 DEF StockInv, StockShape
  <2>4. /\ suppliers' \in [Suppliers -> {"none", "active", "inactive"}]
        /\ \A p \in DOMAIN purchases' :
              /\ purchases'[p].paid /\ purchases'[p].total > 0 <=> purchases'[p].txn # 0
              /\ purchases'[p].status = "cancelled" => ~purchases'[p].paid \/ purchases'[p].total = 0
              /\ \A o \in Items : purchases'[p].lines[o] > 0 => items'[o].exists
    BY <1>1, <2>1 DEF StockInv, StockShape
  <2> QED
    BY <1>1, <1>3, <1>6, <2>2, <2>3, <2>4 DEF StockShape
<1>10. CountsHold'
  <2>1. ASSUME NEW o \in Items
        PROVE  /\ items'[o].quantity = ChangeOf(movements', OfItem(movements', o))
               /\ items'[o].stockStatus = StockStatusFor(items'[o].quantity, items'[o].reorder)
    <3>1. /\ items[o].quantity = ChangeOf(movements, OfItem(movements, o))
          /\ items[o].stockStatus = StockStatusFor(items[o].quantity, items[o].reorder)
      BY DEF StockInv, CountsHold
    <3>2. /\ OfItem(movements', o) = OfItem(movements, o) \cup IF o = it THEN {N} ELSE {}
          /\ OfItem(movements, o) \subseteq DOMAIN movements
      <4>1. \A k : k \in OfItem(movements', o) <=>
               \/ k \in OfItem(movements, o)
               \/ k \in DOMAIN movements' \ DOMAIN movements /\ movements'[k].item = o
        BY <1>4, OfItemAfter
      <4>2. OfItem(movements, o) \subseteq DOMAIN movements
        BY DEF OfItem
      <4> QED
        BY <1>4, <1>8, <4>1, <4>2
    <3>3. CASE o = it
      <4>1. OfItem(movements', o) = OfItem(movements, o) \cup {N} /\ N \notin OfItem(movements, o)
        BY <1>1, <1>8, <3>2, <3>3
      <4>2. ChangeOf(movements', OfItem(movements, o) \cup {N})
               = ChangeOf(movements, OfItem(movements, o)) + movements'[N].change
        BY <1>1, <1>4, <1>8, <3>2, <4>1, MoreChange
      <4> QED
        BY <1>6, <1>8, <3>1, <3>3, <4>1, <4>2
    <3>4. CASE o # it
      <4>1. OfItem(movements', o) = OfItem(movements, o)
        BY <1>8, <3>2, <3>4
      <4>2. ChangeOf(movements', OfItem(movements, o)) = ChangeOf(movements, OfItem(movements, o))
        BY <1>1, <1>4, <3>2, SameChange
      <4> QED
        BY <1>6, <3>1, <3>4, <4>1, <4>2
    <3> QED
      BY <3>3, <3>4
  <2>2. ASSUME NEW j \in DOMAIN movements'
        PROVE  IF movements'[j].posted THEN MirrorsIn(movements', j) = {}
               ELSE \E k : MirrorsIn(movements', j) = {k}
    <3>1. MirrorsIn(movements', j) = MirrorsIn(movements, j) \cup IF i = j THEN {N} ELSE {}
      <4>1. \A k : k \in MirrorsIn(movements', j) <=>
               \/ k \in MirrorsIn(movements, j)
               \/ k \in DOMAIN movements' \ DOMAIN movements /\ movements'[k].reversalOf = j
        BY <1>4, MirrorsAfter
      <4> QED
        BY <1>4, <1>8, <4>1
    <3>2. CASE j = N
      <4>1. MirrorsIn(movements, N) = {}
        BY <1>1 DEF StockInv, StockShape, MirrorsIn
      <4> QED
        BY <1>1, <1>8, <3>1, <3>2, <4>1
    <3>3. CASE j \in DOMAIN movements
      <4>1. IF movements[j].posted THEN MirrorsIn(movements, j) = {}
            ELSE \E k : MirrorsIn(movements, j) = {k}
        BY <3>3 DEF StockInv, CountsHold
      <4>2. movements'[j].posted <=> movements[j].posted /\ j # i
        BY <1>5, <3>3
      <4>3. CASE j = i
        <5>1. MirrorsIn(movements', j) = {N}
          BY <1>0, <1>7, <3>1, <3>3, <4>1, <4>3
        <5> QED
          BY <4>2, <4>3, <5>1
      <4>4. CASE j # i
        <5>1. MirrorsIn(movements', j) = MirrorsIn(movements, j)
          BY <3>1, <4>4
        <5> QED
          BY <4>1, <4>2, <4>4, <5>1
      <4> QED
        BY <4>3, <4>4
    <3> QED
      BY <1>3, <3>2, <3>3
  <2> QED
    BY <2>1, <2>2 DEF CountsHold
<1>11. Received'
  <2>1. ASSUME NEW p \in DOMAIN purchases
        PROVE  IF purchases[p].status = "received"
               THEN /\ \A j \in OnReceipt(movements', p) : movements'[j].posted
                    /\ \A o \in Items : purchases[p].lines[o] =
                          ChangeOf(movements', OnReceipt(movements', p) \cap OfItem(movements', o))
               ELSE OnReceipt(movements', p) = {}
    <3>1. p # 0
      BY <1>1, OneOf
    <3>2. /\ OnReceipt(movements', p) = OnReceipt(movements, p)
          /\ OnReceipt(movements, p) \subseteq DOMAIN movements
      <4>1. \A k : k \in OnReceipt(movements', p) <=>
               \/ k \in OnReceipt(movements, p)
               \/ k \in DOMAIN movements' \ DOMAIN movements /\ movements'[k].purchase = p
        BY <1>4, OnReceiptAfter
      <4>2. OnReceipt(movements, p) \subseteq DOMAIN movements
        BY DEF OnReceipt
      <4> QED
        BY <1>4, <1>8, <3>1, <4>1, <4>2
    <3>3. ASSUME NEW o \in Items
          PROVE  ChangeOf(movements', OnReceipt(movements', p) \cap OfItem(movements', o))
                   = ChangeOf(movements, OnReceipt(movements, p) \cap OfItem(movements, o))
      <4> DEFINE S == OnReceipt(movements, p) \cap OfItem(movements, o)
      <4>1. \A k : k \in OfItem(movements', o) <=>
               \/ k \in OfItem(movements, o)
               \/ k \in DOMAIN movements' \ DOMAIN movements /\ movements'[k].item = o
        BY <1>4, OfItemAfter
      <4>2. OnReceipt(movements', p) \cap OfItem(movements', o) = S /\ S \subseteq DOMAIN movements
        BY <3>2, <4>1
      <4> HIDE DEF S
      <4>3. ChangeOf(movements', S) = ChangeOf(movements, S)
        BY <1>1, <1>4, <4>2, SameChange
      <4> QED
        BY <4>2, <4>3 DEF S
    <3>4. \A j \in OnReceipt(movements, p) : movements'[j].posted <=> movements[j].posted
      BY <1>0, <1>5, <1>7, <3>1, <3>2 DEF OnReceipt
    <3> QED
      BY <3>2, <3>3, <3>4 DEF StockInv, Received
  <2> QED
    BY <1>1, <2>1 DEF Received
<1>12. Settled(ledger', "inventory_purchase_payment", PurchaseClaims(purchases'))
  BY <1>1 DEF StockInv
<1> QED
  BY <1>9, <1>10, <1>11, <1>12 DEF StockInv

LEMMA StockStatusOf ==
    ASSUME NEW q \in Nat, NEW r \in Nat
    PROVE  StockStatusFor(q, r) \in {"ok", "low", "out_of_stock"}
BY DEF StockStatusFor

LEMMA HoldingIs ==
    ASSUME NEW item \in StockItem, NEW q \in Nat
    PROVE  LET x == Holding(item, q)
           IN  /\ x \in StockItem /\ x.quantity = q /\ x.exists = item.exists
               /\ x.stockStatus = StockStatusFor(q, x.reorder) /\ x.reorder = item.reorder
<1>1. StockStatusFor(q, item.reorder) \in {"ok", "low", "out_of_stock"}
  BY StockStatusOf DEF StockItem
<1> QED
  BY <1>1 DEF Holding, StockItem

\* What writeMovement writes.
LEMMA Written ==
    ASSUME StockInv, UNCHANGED <<financeVars, suppliers, purchases>>,
           NEW it \in Items, items[it].exists, NEW type \in MovementTypes \cup {"reversal"},
           NEW change \in Int, NEW of, NEW earlier, earlier = Marking(of),
           of = 0 \/ (of \in DOMAIN movements /\ Reversible(movements[of])),
           WriteMovement(it, type, change, earlier, of)
    PROVE  StockInv'
<1> DEFINE after == items[it].quantity + change
           m == NewMovement(it, type, change, of, 0)
           x == Holding(items[it], after)
<1>1. /\ items[it] \in StockItem /\ after >= 0
      /\ items' = [items EXCEPT ![it] = x] /\ movements' = Append(earlier, m)
  BY DEF WriteMovement, StockInv, StockShape
<1>2. after \in Nat
  BY <1>1 DEF StockItem
<1>3. x \in StockItem /\ x.quantity = after /\ x.exists /\ x.stockStatus = StockStatusFor(after, x.reorder)
  BY <1>1, <1>2, HoldingIs
<1>4. of \in Nat
  <2>1. movements \in Seq(Movement)
    BY DEF StockInv, StockShape
  <2> QED
    BY <2>1, OneOf
<1>5. m \in Movement /\ m.item = it /\ m.posted /\ m.purchase = 0 /\ m.reversalOf = of /\ m.change = change
  BY <1>2, <1>4 DEF NewMovement, Movement
<1> HIDE DEF m, x
<1>6. Moves(it, m, x)
  BY <1>1, <1>3, <1>5 DEF Moves
<1> QED
  BY <1>6, OneMoved

\* An item is changed, its quantity not.
LEMMA ItemChanged ==
    ASSUME StockInv, UNCHANGED <<financeVars, movements, suppliers, purchases>>,
           NEW it \in Items, NEW x \in StockItem, items' = [items EXCEPT ![it] = x], x.exists,
           x.quantity = items[it].quantity, x.stockStatus = StockStatusFor(x.quantity, x.reorder)
    PROVE  StockInv'
<1>1. /\ items' \in [Items -> StockItem] /\ items'[it] = x
      /\ \A o \in Items : o # it => items'[o] = items[o]
      /\ \A o \in Items : items[o].exists => items'[o].exists
      /\ movements' = movements /\ purchases' = purchases /\ ledger' = ledger /\ suppliers' = suppliers
  BY DEF StockInv, StockShape, financeVars
<1>2. StockShape'
  <2>1. \A i \in DOMAIN movements : items'[movements[i].item].exists
    <3> SUFFICES ASSUME NEW i \in DOMAIN movements PROVE items'[movements[i].item].exists
      OBVIOUS
    <3>1. movements[i] \in Movement
      BY OneOf DEF StockInv, StockShape
    <3>2. movements[i].item \in Items
      BY <3>1 DEF Movement
    <3> QED
      BY <1>1, <3>2 DEF StockInv, StockShape
  <2>2. /\ items' \in [Items -> StockItem]
        /\ \A o \in Items : ~items'[o].exists => items'[o].quantity = 0
        /\ movements' \in Seq(Movement)
        /\ suppliers' \in [Suppliers -> {"none", "active", "inactive"}]
        /\ purchases' \in Seq(Purchase)
    BY <1>1 DEF StockInv, StockShape
  <2>3. \A p \in DOMAIN purchases' :
          /\ purchases'[p].paid /\ purchases'[p].total > 0 <=> purchases'[p].txn # 0
          /\ purchases'[p].status = "cancelled" => ~purchases'[p].paid \/ purchases'[p].total = 0
          /\ \A o \in Items : purchases'[p].lines[o] > 0 => items'[o].exists
    BY <1>1 DEF StockInv, StockShape
  <2>4. \A i \in DOMAIN movements' :
          /\ items'[movements'[i].item].exists
          /\ movements'[i].reversalOf \in {0} \cup DOMAIN movements'
          /\ movements'[i].purchase \in {0} \cup DOMAIN purchases'
    BY <1>1, <2>1 DEF StockInv, StockShape
  <2> QED
    BY <2>2, <2>3, <2>4 DEF StockShape
<1>3. CountsHold' /\ Received'
  <2>1. \A o \in Items : /\ items'[o].quantity = items[o].quantity
                         /\ items'[o].stockStatus = StockStatusFor(items'[o].quantity, items'[o].reorder)
    BY <1>1 DEF StockInv, CountsHold
  <2>2. CountsHold'
    <3>1. movements' = movements
      BY <1>1
    <3> QED
      BY <2>1, <3>1 DEF StockInv, CountsHold
  <2>3. Received'
    <3>1. movements' = movements /\ purchases' = purchases
      BY <1>1
    <3> QED
      BY <3>1 DEF StockInv, Received
  <2> QED
    BY <2>2, <2>3
<1> QED
  BY <1>1, <1>2, <1>3 DEF StockInv

LEMMA ItemCreated ==
    ASSUME StockInv, NEW it \in Items, NEW reorder \in Nat, NEW opening \in Nat,
           CreateInventoryItem(it, reorder, opening)
    PROVE  StockInv'
<1> DEFINE y == [exists |-> TRUE, active |-> TRUE, quantity |-> 0, reorder |-> reorder,
                 stockStatus |-> "out_of_stock"]
           x == Holding(y, opening)
           m == NewMovement(it, "stock_in", opening, 0, 0)
<1>1. y \in StockItem /\ y.exists
  BY DEF StockItem
<1>2. /\ items[it].quantity = 0 /\ items' = [items EXCEPT ![it] = x]
      /\ UNCHANGED <<financeVars, suppliers, purchases>>
      /\ IF opening = 0 THEN movements' = movements ELSE movements' = Append(movements, m)
  BY DEF CreateInventoryItem, StockInv, StockShape
<1> HIDE DEF y
<1>3. x \in StockItem /\ x.quantity = opening /\ x.exists /\ x.stockStatus = StockStatusFor(opening, x.reorder)
  BY <1>1, HoldingIs
<1>4. m \in Movement /\ m.item = it /\ m.posted /\ m.purchase = 0 /\ m.reversalOf = 0 /\ m.change = opening
  BY <1>2 DEF NewMovement, Movement, MovementTypes
<1> HIDE DEF m, x
<1>5. CASE opening = 0
  BY <1>2, <1>3, <1>5, ItemChanged
<1>6. CASE opening # 0
  <2>1. Moves(it, m, x)
    BY <1>2, <1>3, <1>4, <1>6 DEF Moves, Marking
  <2> QED
    BY <1>2, <2>1, OneMoved
<1> QED
  BY <1>5, <1>6

LEMMA ItemUpdated ==
    ASSUME StockInv, NEW it \in Items, NEW reorder \in Nat, NEW active \in BOOLEAN,
           UpdateInventoryItem(it, reorder, active)
    PROVE  StockInv'
<1> DEFINE x == [Relevelled(items[it], reorder) EXCEPT !.active = active]
<1>1. /\ items[it] \in StockItem /\ items[it].exists /\ items' = [items EXCEPT ![it] = x]
      /\ UNCHANGED <<financeVars, movements, suppliers, purchases>>
  BY DEF UpdateInventoryItem, StockInv, StockShape
<1>2. StockStatusFor(items[it].quantity, reorder) \in {"ok", "low", "out_of_stock"}
  BY <1>1, StockStatusOf DEF StockItem
<1>3. /\ x \in StockItem /\ x.exists /\ x.quantity = items[it].quantity
      /\ x.stockStatus = StockStatusFor(x.quantity, x.reorder)
  BY <1>1, <1>2 DEF Relevelled, StockItem
<1> HIDE DEF x
<1> QED
  BY <1>1, <1>3, ItemChanged

LEMMA StockCounted ==
    ASSUME StockInv, NEW it \in Items, NEW n \in Nat
    PROVE  /\ \A type \in {"stock_in", "usage", "stock_out", "return"} :
                 RecordStockMovement(it, type, n) => StockInv'
           /\ AdjustStock(it, n) => StockInv'
<1>1. movements = Marking(0) /\ items[it].quantity \in Nat
  BY DEF Marking, StockInv, StockShape, StockItem
<1>2. ASSUME NEW type \in {"stock_in", "usage", "stock_out", "return"}, RecordStockMovement(it, type, n)
      PROVE  StockInv'
  <2> DEFINE change == IF type = "stock_in" THEN n ELSE -n
  <2>1. /\ change \in Int /\ type \in MovementTypes /\ items[it].exists
        /\ WriteMovement(it, type, change, movements, 0)
        /\ UNCHANGED <<financeVars, suppliers, purchases>>
    BY <1>2 DEF RecordStockMovement, MovementTypes
  <2> HIDE DEF change
  <2> QED
    BY <1>1, <2>1, Written
<1>3. ASSUME AdjustStock(it, n) PROVE StockInv'
  <2> DEFINE change == n - items[it].quantity
             type == IF change > 0 THEN "adjustment_in" ELSE "adjustment_out"
  <2>1. /\ change \in Int /\ type \in MovementTypes /\ items[it].exists
        /\ WriteMovement(it, type, change, movements, 0)
        /\ UNCHANGED <<financeVars, suppliers, purchases>>
    BY <1>1, <1>3 DEF AdjustStock, MovementTypes
  <2> HIDE DEF change, type
  <2> QED
    BY <1>1, <2>1, Written
<1> QED
  BY <1>2, <1>3

LEMMA StockReversed ==
    ASSUME StockInv, NEW i \in DOMAIN movements, ReverseStockMovement(i)
    PROVE  StockInv'
<1> DEFINE it == movements[i].item
           change == -movements[i].change
           earlier == [movements EXCEPT ![i].posted = FALSE]
<1>1. movements[i] \in Movement /\ i # 0
  BY OneOf DEF StockInv, StockShape
<1>2. /\ it \in Items /\ change \in Int /\ earlier = Marking(i) /\ items[it].exists
      /\ Reversible(movements[i])
      /\ WriteMovement(it, "reversal", change, earlier, i)
      /\ UNCHANGED <<financeVars, suppliers, purchases>>
  BY <1>1 DEF ReverseStockMovement, Movement, Marking, StockInv, StockShape
<1> HIDE DEF it, change, earlier
<1> QED
  BY <1>2, Written

-----------------------------------------------------------------------------
(* Deliveries *)

Covers(order, S) ==
    /\ order \in [1..Cardinality(S) -> S]
    /\ \A it \in S : \E k \in 1..Cardinality(S) : order[k] = it

OneFor(order, S, it) ==
    \E k \in 1..Cardinality(S) : \A j \in 1..Cardinality(S) : order[j] = it <=> j = k

\* As many receipts as lines, one for each line: an item is on one of them.
LEMMA OneReceiptALine ==
    ASSUME NEW S, IsFiniteSet(S), NEW order, Covers(order, S), NEW it \in S
    PROVE  OneFor(order, S, it)
<1> DEFINE n == Cardinality(S)
<1>1. n \in Nat
  BY FS_CardinalityType
<1>2. IsFiniteSet(1..n) /\ Cardinality(1..n) = n
  <2>1. Cardinality(1..n) = IF 1 > n THEN 0 ELSE n - 1 + 1
    BY <1>1, FS_Interval
  <2> QED
    BY <1>1, <2>1, FS_Interval
<1>3. order \in Surjection(1..n, S)
  BY DEF Surjection, Covers
<1> HIDE DEF n
<1>4. n = Cardinality(S)
  BY DEF n
<1>5. order \in Injection(1..n, S)
  BY <1>2, <1>3, <1>4, FS_SurjSameCardinalityImpliesInj
<1>6. \A j, k \in 1..n : order[j] = order[k] => j = k
  BY <1>5 DEF Injection, IsInjective
<1>7. PICK k \in 1..n : order[k] = it
  BY DEF n, Covers
<1> QED
  BY <1>4, <1>6, <1>7 DEF OneFor

NewMovements == DOMAIN movements' \ DOMAIN movements

\* The delivery of purchase p: every line goes into stock by a movement of its own.
Delivers(p) ==
    /\ items' = [it \in Items |-> Holding(items[it], items[it].quantity + purchases[p].lines[it])]
    /\ movements' \in Seq(Movement)
    /\ MovementsKept(movements, movements')
    /\ \A j \in DOMAIN movements : movements'[j].posted = movements[j].posted
    /\ \A k \in NewMovements :
          /\ movements'[k].item \in OnPurchase(purchases[p])
          /\ movements'[k].change = purchases[p].lines[movements'[k].item]
          /\ movements'[k].posted /\ movements'[k].purchase = p /\ movements'[k].reversalOf = 0
    /\ \A it \in OnPurchase(purchases[p]) :
          \E k \in NewMovements : \A j \in NewMovements : movements'[j].item = it <=> j = k

LEMMA LinesOf ==
    ASSUME StockInv, NEW p \in DOMAIN purchases
    PROVE  /\ purchases[p] \in Purchase /\ p \in Nat /\ p # 0
           /\ \A it \in Items : purchases[p].lines[it] \in Nat
           /\ OnPurchase(purchases[p]) \subseteq Items /\ IsFiniteSet(OnPurchase(purchases[p]))
           /\ \A it \in Items : it \notin OnPurchase(purchases[p]) => purchases[p].lines[it] = 0
<1>0. purchases \in Seq(Purchase)
  BY DEF StockInv, StockShape
<1>1. purchases[p] \in Purchase /\ p \in Nat /\ p # 0
  BY <1>0, OneOf
<1>2. \A it \in Items : purchases[p].lines[it] \in Nat
  <2>1. purchases[p].lines \in [Items -> Quantities \cup {0}]
    BY <1>1 DEF Purchase, Lines
  <2>2. Quantities \cup {0} \subseteq Nat
    BY StockAssumption
  <2> QED
    BY <2>1, <2>2
<1>3. OnPurchase(purchases[p]) \subseteq Items
  BY DEF OnPurchase
<1>4. IsFiniteSet(OnPurchase(purchases[p]))
  BY <1>3, StockAssumption, FS_Subset
<1> QED
  BY <1>1, <1>2, <1>3, <1>4 DEF OnPurchase

LEMMA Delivery ==
    ASSUME StockInv, NEW p \in DOMAIN purchases, Receive(p)
    PROVE  Delivers(p)
<1> DEFINE S == OnPurchase(purchases[p])
           n == Cardinality(S)
           L == Len(movements)
<1>1. /\ movements \in Seq(Movement) /\ L \in Nat /\ DOMAIN movements = 1..L
      /\ items \in [Items -> StockItem]
  BY LenProperties DEF StockInv, StockShape
<1>2. /\ p \in Nat /\ S \subseteq Items /\ IsFiniteSet(S)
      /\ \A it \in Items : purchases[p].lines[it] \in Nat
  BY LinesOf
<1>3. n \in Nat
  BY <1>2, FS_CardinalityType
<1>4. PICK order \in [1..n -> S] :
          /\ \A it \in S : \E k \in DOMAIN order : order[k] = it
          /\ movements' = movements \o ReceiptsOf(p, order)
  BY DEF Receive
<1> DEFINE rs == ReceiptsOf(p, order)
<1> HIDE DEF S, n
<1>5. /\ DOMAIN rs = 1..n
      /\ \A k \in 1..n : /\ rs[k].item = order[k] /\ rs[k].change = purchases[p].lines[order[k]]
                         /\ rs[k].posted /\ rs[k].purchase = p /\ rs[k].reversalOf = 0
                         /\ rs[k] \in Movement
  <2>1. DOMAIN order = 1..n
    OBVIOUS
  <2>2. ASSUME NEW it \in S PROVE NewMovement(it, "stock_in", purchases[p].lines[it], 0, p) \in Movement
    <3>1. it \in Items /\ purchases[p].lines[it] \in Nat /\ items[it].quantity \in Nat
      BY <1>1, <1>2 DEF StockItem
    <3> QED
      BY <1>2, <3>1 DEF NewMovement, Movement, MovementTypes
  <2>3. \A k \in 1..n : order[k] \in S
    OBVIOUS
  <2> QED
    BY <2>1, <2>2, <2>3 DEF ReceiptsOf, NewMovement
<1>6. rs \in Seq(Movement) /\ Len(rs) = n
  <2>1. rs \in [1..n -> Movement]
    BY <1>5 DEF ReceiptsOf
  <2> QED
    BY <1>3, <2>1, LenProperties
<1> HIDE DEF rs
<1>7. /\ movements' \in Seq(Movement) /\ Len(movements') = L + n
      /\ \A i \in 1..L + n : movements'[i] = IF i <= L THEN movements[i] ELSE rs[i - L]
  <2>1. movements' = movements \o rs
    BY <1>4 DEF rs
  <2> QED
    BY <1>1, <1>6, <2>1, ConcatProperties
<1>8. DOMAIN movements' = 1..(L + n)
  BY <1>7, LenProperties
<1>9. /\ MovementsKept(movements, movements')
      /\ \A j \in DOMAIN movements : movements'[j].posted = movements[j].posted
  BY <1>1, <1>3, <1>7, <1>8 DEF MovementsKept
<1>10. NewMovements = (L + 1)..(L + n)
  BY <1>1, <1>3, <1>8 DEF NewMovements
<1>11. \A k \in NewMovements : k - L \in 1..n /\ movements'[k] = rs[k - L]
  BY <1>1, <1>3, <1>7, <1>10
<1>12. \A k \in NewMovements :
          /\ movements'[k].item \in S
          /\ movements'[k].change = purchases[p].lines[movements'[k].item]
          /\ movements'[k].posted /\ movements'[k].purchase = p /\ movements'[k].reversalOf = 0
  BY <1>5, <1>11
<1>13. ASSUME NEW it \in S
       PROVE  \E k \in NewMovements : \A j \in NewMovements : movements'[j].item = it <=> j = k
  <2>1. PICK k \in 1..n : \A j \in 1..n : order[j] = it <=> j = k
    <3>1. DOMAIN order = 1..n /\ order \in [1..n -> S]
      OBVIOUS
    <3>2. Covers(order, S)
      BY <1>4, <3>1 DEF n, Covers
    <3>3. IsFiniteSet(S)
      BY <1>2
    <3>4. OneFor(order, S, it)
      BY <3>2, <3>3, OneReceiptALine
    <3> QED
      BY <3>4 DEF n, OneFor
  <2>2. L + k \in NewMovements
    BY <1>1, <1>3, <1>10
  <2>3. ASSUME NEW j \in NewMovements PROVE movements'[j].item = it <=> j = L + k
    <3>1. j \in Int /\ j - L \in 1..n /\ movements'[j].item = order[j - L]
      BY <1>5, <1>10, <1>11
    <3>2. order[j - L] = it <=> j - L = k
      BY <2>1, <3>1
    <3> QED
      BY <1>1, <3>1, <3>2
  <2> QED
    BY <2>2, <2>3
<1>14. items' = [it \in Items |-> Holding(items[it], items[it].quantity + purchases[p].lines[it])]
  BY DEF Receive
<1> QED
  BY <1>7, <1>9, <1>12, <1>13, <1>14 DEF Delivers, S

\* A purchase becomes x: it may be paid and cancelled, not receive other lines.
EditsPurchase(p, x) ==
    /\ x \in Purchase /\ x.lines = purchases[p].lines
    /\ x.paid /\ x.total > 0 <=> x.txn # 0
    /\ x.status = "cancelled" => ~x.paid \/ x.total = 0
    /\ purchases' = [purchases EXCEPT ![p] = x]
    /\ UNCHANGED suppliers

LEMMA PurchaseEdits ==
    ASSUME StockInv, NEW p \in DOMAIN purchases, NEW x, EditsPurchase(p, x)
    PROVE  /\ purchases' \in Seq(Purchase) /\ DOMAIN purchases' = DOMAIN purchases
           /\ purchases'[p] = x /\ x.lines = purchases[p].lines
           /\ \A q \in DOMAIN purchases : q # p => purchases'[q] = purchases[q]
           /\ \A q \in DOMAIN purchases : purchases'[q].lines = purchases[q].lines
           /\ \A q \in DOMAIN purchases' :
                 /\ purchases'[q].paid /\ purchases'[q].total > 0 <=> purchases'[q].txn # 0
                 /\ purchases'[q].status = "cancelled" => ~purchases'[q].paid \/ purchases'[q].total = 0
           /\ suppliers' \in [Suppliers -> {"none", "active", "inactive"}]
<1>1. purchases \in Seq(Purchase)
  BY DEF StockInv, StockShape
<1>2. x \in Purchase /\ purchases' = [purchases EXCEPT ![p] = x]
  BY DEF EditsPurchase
<1>3. /\ purchases' \in Seq(Purchase) /\ DOMAIN purchases' = DOMAIN purchases
      /\ purchases'[p] = x
      /\ \A q \in DOMAIN purchases : q # p => purchases'[q] = purchases[q]
  BY <1>1, <1>2, OneEdited
<1>4. suppliers' \in [Suppliers -> {"none", "active", "inactive"}]
  BY DEF EditsPurchase, StockInv, StockShape
<1>5. ASSUME NEW q \in DOMAIN purchases'
      PROVE  /\ purchases'[q].paid /\ purchases'[q].total > 0 <=> purchases'[q].txn # 0
             /\ purchases'[q].status = "cancelled" => ~purchases'[q].paid \/ purchases'[q].total = 0
  <2>1. CASE q = p
    BY <1>3, <2>1 DEF EditsPurchase
  <2>2. CASE q # p
    BY <1>3, <2>2 DEF StockInv, StockShape
  <2> QED
    BY <2>1, <2>2
<1>6. x.lines = purchases[p].lines
  BY DEF EditsPurchase
<1>7. \A q \in DOMAIN purchases : purchases'[q].lines = purchases[q].lines
  BY <1>3, <1>6
<1> QED
  BY <1>3, <1>4, <1>5, <1>6, <1>7

\* It is not received by that.
LEMMA PurchaseEdited ==
    ASSUME StockInv, UNCHANGED <<items, movements>>, NEW p \in DOMAIN purchases, NEW x,
           EditsPurchase(p, x), x.status = "received" <=> purchases[p].status = "received",
           Settled(ledger', "inventory_purchase_payment", PurchaseClaims(purchases'))
    PROVE  StockInv'
<1>1. /\ purchases' \in Seq(Purchase) /\ DOMAIN purchases' = DOMAIN purchases
      /\ purchases'[p] = x
      /\ \A q \in DOMAIN purchases : q # p => purchases'[q] = purchases[q]
      /\ \A q \in DOMAIN purchases : purchases'[q].lines = purchases[q].lines
      /\ \A q \in DOMAIN purchases' :
            /\ purchases'[q].paid /\ purchases'[q].total > 0 <=> purchases'[q].txn # 0
            /\ purchases'[q].status = "cancelled" => ~purchases'[q].paid \/ purchases'[q].total = 0
      /\ suppliers' \in [Suppliers -> {"none", "active", "inactive"}]
  BY PurchaseEdits
<1>2. StockShape'
  <2>1. \A q \in DOMAIN purchases' : \A it \in Items : purchases'[q].lines[it] > 0 => items'[it].exists
    BY <1>1 DEF StockInv, StockShape
  <2> QED
    BY <1>1, <2>1 DEF StockInv, StockShape
<1>3. CountsHold'
  <2>1. items' = items /\ movements' = movements
    OBVIOUS
  <2> QED
    BY <2>1 DEF StockInv, CountsHold
<1>4. Received'
  <2>1. \A q \in DOMAIN purchases : /\ purchases'[q].lines = purchases[q].lines
                                    /\ purchases'[q].status = "received" <=> purchases[q].status = "received"
    BY <1>1
  <2>2. movements' = movements /\ DOMAIN purchases' = DOMAIN purchases
    BY <1>1
  <2> QED
    BY <2>1, <2>2 DEF StockInv, Received
<1> QED
  BY <1>2, <1>3, <1>4 DEF StockInv

\* Or it is, by a delivery.
LEMMA PurchaseReceived ==
    ASSUME StockInv, NEW p \in DOMAIN purchases, NEW x, EditsPurchase(p, x), Delivers(p),
           x.status = "received", purchases[p].status # "received",
           Settled(ledger', "inventory_purchase_payment", PurchaseClaims(purchases'))
    PROVE  StockInv'
<1> DEFINE S == OnPurchase(purchases[p])
           lines == purchases[p].lines
<1>1. /\ purchases' \in Seq(Purchase) /\ DOMAIN purchases' = DOMAIN purchases
      /\ purchases'[p] = x /\ x.lines = lines
      /\ \A q \in DOMAIN purchases : q # p => purchases'[q] = purchases[q]
      /\ \A q \in DOMAIN purchases : purchases'[q].lines = purchases[q].lines
      /\ \A q \in DOMAIN purchases' :
            /\ purchases'[q].paid /\ purchases'[q].total > 0 <=> purchases'[q].txn # 0
            /\ purchases'[q].status = "cancelled" => ~purchases'[q].paid \/ purchases'[q].total = 0
      /\ suppliers' \in [Suppliers -> {"none", "active", "inactive"}]
  BY PurchaseEdits
<1>2. /\ p # 0 /\ S \subseteq Items /\ \A it \in Items : lines[it] \in Nat
      /\ \A it \in Items : it \notin S => lines[it] = 0
      /\ \A it \in S : items[it].exists
  <2>1. \A it \in S : items[it].exists
    BY DEF OnPurchase, StockInv, StockShape
  <2> QED
    BY <2>1, LinesOf
<1>3. /\ movements' \in Seq(Movement) /\ MovementsKept(movements, movements')
      /\ \A j \in DOMAIN movements : movements'[j].posted = movements[j].posted
      /\ DOMAIN movements' = DOMAIN movements \cup NewMovements
      /\ NewMovements \cap DOMAIN movements = {}
  BY DEF Delivers, NewMovements, MovementsKept
<1>4. \A k \in NewMovements :
         /\ movements'[k].item \in S
         /\ movements'[k].change = lines[movements'[k].item]
         /\ movements'[k].posted /\ movements'[k].purchase = p /\ movements'[k].reversalOf = 0
  BY DEF Delivers
<1>5. \A it \in S : \E k \in NewMovements : \A j \in NewMovements : movements'[j].item = it <=> j = k
  BY DEF Delivers
<1>6. /\ movements \in Seq(Movement) /\ items \in [Items -> StockItem] /\ 0 \notin DOMAIN movements
      /\ 0 \notin DOMAIN movements'
  <2>1. movements \in Seq(Movement) /\ items \in [Items -> StockItem]
    BY DEF StockInv, StockShape
  <2> QED
    BY <1>3, <2>1, OneOf
<1>7. ASSUME NEW it \in Items
      PROVE  /\ items'[it] \in StockItem /\ items'[it].quantity = items[it].quantity + lines[it]
             /\ items'[it].exists = items[it].exists
             /\ items'[it].stockStatus = StockStatusFor(items'[it].quantity, items'[it].reorder)
             /\ items[it].quantity \in Nat
  <2> DEFINE q == items[it].quantity + lines[it]
             y == Holding(items[it], q)
  <2>1. items[it] \in StockItem /\ q \in Nat /\ items[it].quantity \in Nat
    BY <1>2, <1>6 DEF StockItem
  <2>2. items'[it] = y
    BY DEF Delivers
  <2>3. y \in StockItem /\ y.quantity = q /\ y.exists = items[it].exists
        /\ y.stockStatus = StockStatusFor(q, y.reorder)
    BY <2>1, HoldingIs
  <2> QED
    BY <2>1, <2>2, <2>3
<1> HIDE DEF S, lines
<1>8. StockShape'
  <2>1. items' \in [Items -> StockItem]
    BY <1>7 DEF Delivers
  <2>2. \A it \in Items : ~items'[it].exists => items'[it].quantity = 0
    BY <1>2, <1>7 DEF StockInv, StockShape
  <2>3. \A q \in DOMAIN purchases' : \A it \in Items : purchases'[q].lines[it] > 0 => items'[it].exists
    BY <1>1, <1>7 DEF StockInv, StockShape
  <2>4. ASSUME NEW j \in DOMAIN movements'
        PROVE  /\ items'[movements'[j].item].exists
               /\ movements'[j].reversalOf \in {0} \cup DOMAIN movements'
               /\ movements'[j].purchase \in {0} \cup DOMAIN purchases'
    <3>1. CASE j \in NewMovements
      BY <1>1, <1>2, <1>4, <1>7, <3>1
    <3>2. CASE j \in DOMAIN movements
      <4>1. movements[j] \in Movement
        BY <1>6, <3>2, OneOf
      <4>2. movements[j].item \in Items
        BY <4>1 DEF Movement
      <4>3. /\ items[movements[j].item].exists
            /\ movements[j].reversalOf \in {0} \cup DOMAIN movements
            /\ movements[j].purchase \in {0} \cup DOMAIN purchases
        BY <3>2 DEF StockInv, StockShape
      <4>4. /\ movements'[j].item = movements[j].item
            /\ movements'[j].reversalOf = movements[j].reversalOf
            /\ movements'[j].purchase = movements[j].purchase
        BY <1>3, <3>2 DEF MovementsKept
      <4> QED
        BY <1>1, <1>3, <1>7, <4>2, <4>3, <4>4
    <3> QED
      BY <1>3, <3>1, <3>2
  <2> QED
    BY <1>1, <1>3, <2>1, <2>2, <2>3, <2>4 DEF StockShape
\* The one movement that brought an item of the purchase.
<1>9. ASSUME NEW it \in Items, NEW T, T \subseteq DOMAIN movements,
             NEW U, \A k : k \in U <=> k \in T \/ (k \in NewMovements /\ movements'[k].item = it)
      PROVE  ChangeOf(movements', U) = ChangeOf(movements, T) + lines[it]
  <2>1. CASE it \in S
    <3>1. PICK k \in NewMovements : \A j \in NewMovements : movements'[j].item = it <=> j = k
      BY <1>5, <2>1
    <3>2. movements'[k].item = it /\ movements'[k].change = lines[it] /\ lines[it] \in Int
      BY <1>2, <1>4, <3>1
    <3>3. U = T \cup {k} /\ k \notin T
      BY <1>3, <1>9, <3>1, <3>2
    <3>4. ChangeOf(movements', T \cup {k}) = ChangeOf(movements, T) + movements'[k].change
      BY <1>3, <1>6, <1>9, <3>2, <3>3, MoreChange
    <3> QED
      BY <3>2, <3>3, <3>4
  <2>2. CASE it \notin S
    <3>1. U = T /\ lines[it] = 0
      BY <1>2, <1>4, <1>9, <2>2
    <3>2. ChangeOf(movements', T) = ChangeOf(movements, T) /\ ChangeOf(movements, T) \in Int
      BY <1>3, <1>6, <1>9, SameChange, SomeMovements
    <3> QED
      BY <3>1, <3>2
  <2> QED
    BY <2>1, <2>2
<1>10. CountsHold'
  <2>1. ASSUME NEW it \in Items
        PROVE  /\ items'[it].quantity = ChangeOf(movements', OfItem(movements', it))
               /\ items'[it].stockStatus = StockStatusFor(items'[it].quantity, items'[it].reorder)
    <3>1. \A k : k \in OfItem(movements', it) <=>
             \/ k \in OfItem(movements, it)
             \/ (k \in DOMAIN movements' \ DOMAIN movements /\ movements'[k].item = it)
      BY <1>3, OfItemAfter
    <3>2. OfItem(movements, it) \subseteq DOMAIN movements
      BY DEF OfItem
    <3>3. ChangeOf(movements', OfItem(movements', it))
             = ChangeOf(movements, OfItem(movements, it)) + lines[it]
      BY <1>9, <3>1, <3>2 DEF NewMovements
    <3> QED
      BY <1>7, <3>3 DEF StockInv, CountsHold
  <2>2. ASSUME NEW j \in DOMAIN movements'
        PROVE  IF movements'[j].posted THEN MirrorsIn(movements', j) = {}
               ELSE \E k : MirrorsIn(movements', j) = {k}
    <3>1. MirrorsIn(movements', j) = MirrorsIn(movements, j)
      <4>1. \A k : k \in MirrorsIn(movements', j) <=>
               \/ k \in MirrorsIn(movements, j)
               \/ (k \in DOMAIN movements' \ DOMAIN movements /\ movements'[k].reversalOf = j)
        BY <1>3, MirrorsAfter
      <4> QED
        BY <1>4, <1>6, <4>1 DEF NewMovements
    <3>2. CASE j \in NewMovements
      <4>1. MirrorsIn(movements, j) = {}
        BY <1>3, <1>6, <3>2 DEF StockInv, StockShape, MirrorsIn
      <4> QED
        BY <1>4, <3>1, <3>2, <4>1
    <3>3. CASE j \in DOMAIN movements
      BY <1>3, <3>1, <3>3 DEF StockInv, CountsHold
    <3> QED
      BY <1>3, <3>2, <3>3
  <2> QED
    BY <2>1, <2>2 DEF CountsHold
<1>11. Received'
  <2>1. ASSUME NEW q \in DOMAIN purchases'
        PROVE  IF purchases'[q].status = "received"
               THEN /\ \A j \in OnReceipt(movements', q) : movements'[j].posted
                    /\ \A it \in Items : purchases'[q].lines[it] =
                          ChangeOf(movements', OnReceipt(movements', q) \cap OfItem(movements', it))
               ELSE OnReceipt(movements', q) = {}
    <3>1. \A k : k \in OnReceipt(movements', q) <=>
             \/ k \in OnReceipt(movements, q)
             \/ (k \in DOMAIN movements' \ DOMAIN movements /\ movements'[k].purchase = q)
      BY <1>3, OnReceiptAfter
    <3>2. ASSUME NEW it \in Items
          PROVE  \A k : k \in OfItem(movements', it) <=>
             \/ k \in OfItem(movements, it)
             \/ (k \in DOMAIN movements' \ DOMAIN movements /\ movements'[k].item = it)
      BY <1>3, OfItemAfter
    <3>3. OnReceipt(movements, q) \subseteq DOMAIN movements
      BY DEF OnReceipt
    <3>4. CASE q = p
      <4>1. OnReceipt(movements, p) = {}
        BY <1>1 DEF StockInv, Received
      <4>2. \A k : k \in OnReceipt(movements', p) <=> k \in NewMovements
        BY <1>4, <3>1, <3>4, <4>1 DEF NewMovements
      <4>3. ASSUME NEW it \in Items
            PROVE  lines[it] = ChangeOf(movements', OnReceipt(movements', p) \cap OfItem(movements', it))
        <5> DEFINE U == OnReceipt(movements', p) \cap OfItem(movements', it)
        <5>1. \A k : k \in U <=> k \in {} \/ (k \in NewMovements /\ movements'[k].item = it)
          BY <1>3, <3>2, <4>2 DEF NewMovements, OfItem
        <5> HIDE DEF U
        <5>2. ChangeOf(movements', U) = ChangeOf(movements, {}) + lines[it]
          BY <1>9, <5>1
        <5>3. ChangeOf(movements, {}) = 0
          BY SumOfNone DEF ChangeOf
        <5>4. lines[it] \in Nat
          BY <1>2
        <5> QED
          BY <5>2, <5>3, <5>4 DEF U
      <4>4. \A j \in OnReceipt(movements', p) : movements'[j].posted
        BY <1>4, <4>2
      <4>5. purchases'[p].status = "received" /\ purchases'[p].lines = lines
        BY <1>1
      <4> QED
        BY <3>4, <4>3, <4>4, <4>5
    <3>5. CASE q # p
      <4>1. OnReceipt(movements', q) = OnReceipt(movements, q)
        <5>1. \A k : k \in NewMovements => movements'[k].purchase # q
          BY <1>4, <3>5
        <5>2. \A k : k \in OnReceipt(movements', q) <=> k \in OnReceipt(movements, q)
          BY <3>1, <5>1 DEF NewMovements
        <5>3. /\ OnReceipt(movements', q) \subseteq OnReceipt(movements, q)
              /\ OnReceipt(movements, q) \subseteq OnReceipt(movements', q)
          BY <5>2
        <5> QED
          BY <5>3
      <4>2. ASSUME NEW it \in Items
            PROVE  ChangeOf(movements', OnReceipt(movements', q) \cap OfItem(movements', it))
                      = ChangeOf(movements, OnReceipt(movements, q) \cap OfItem(movements, it))
        <5> DEFINE U == OnReceipt(movements, q) \cap OfItem(movements, it)
        <5>1. OnReceipt(movements', q) \cap OfItem(movements', it) = U /\ U \subseteq DOMAIN movements
          BY <3>2, <3>3, <4>1
        <5> HIDE DEF U
        <5>2. ChangeOf(movements', U) = ChangeOf(movements, U)
          BY <1>3, <1>6, <5>1, SameChange
        <5> QED
          BY <5>1, <5>2 DEF U
      <4>3. purchases'[q] = purchases[q] /\ q \in DOMAIN purchases
        BY <1>1, <3>5
      <4>4. \A j \in OnReceipt(movements, q) : movements'[j].posted = movements[j].posted
        BY <1>3, <3>3
      <4> QED
        BY <4>1, <4>2, <4>3, <4>4 DEF StockInv, Received
    <3> QED
      BY <3>4, <3>5
  <2> QED
    BY <2>1 DEF Received
<1> QED
  BY <1>8, <1>10, <1>11 DEF StockInv

-----------------------------------------------------------------------------
(* Purchases *)

PurchaseType == "inventory_purchase_payment"

LEMMA PurchaseCreated ==
    ASSUME LedgerOK, StockInv, NEW s \in Suppliers, NEW lines \in Lines, NEW cost \in UnitCosts,
           NEW approved \in BOOLEAN, CreatePurchase(s, lines, cost, approved)
    PROVE  StockInv'
<1> DEFINE total == cost * SumFunction(lines)
           x == [status |-> IF approved THEN "approved" ELSE "pending_approval",
                 paid |-> total = 0, total |-> total, lines |-> lines, txn |-> 0]
           N == Len(purchases) + 1
<1>1. total \in Nat
  <2>1. \A it \in Items : lines[it] \in Nat
    <3>1. lines \in [Items -> Quantities \cup {0}] /\ Quantities \cup {0} \subseteq Nat
      BY StockAssumption DEF Lines
    <3> QED
      BY <3>1
  <2>2. DOMAIN lines = Items
    BY DEF Lines
  <2>3. SumFunction(lines) \in Nat
    BY <2>1, <2>2, StockAssumption, SumType
  <2>4. cost \in Nat
    BY StockAssumption
  <2> HIDE DEF total
  <2>5. \A n \in Nat : cost * n \in Nat
    BY <2>4
  <2> QED
    BY <2>3, <2>5 DEF total
<1>2. /\ x \in Purchase /\ x.txn = 0 /\ ~(x.paid /\ x.total > 0)
      /\ x.status # "cancelled" /\ x.status # "received" /\ x.lines = lines
  <2> DEFINE status == IF approved THEN "approved" ELSE "pending_approval"
             paid == total = 0
  <2>1. status \in {"pending_approval", "approved"} /\ paid \in BOOLEAN /\ ~(paid /\ total > 0)
    BY <1>1
  <2> HIDE DEF total, status, paid
  <2>2. x = [status |-> status, paid |-> paid, total |-> total, lines |-> lines, txn |-> 0]
    BY DEF status, paid
  <2> HIDE DEF x
  <2> QED
    BY <1>1, <2>1, <2>2 DEF Purchase
<1>3. /\ purchases' = Append(purchases, x) /\ UNCHANGED <<financeVars, items, movements, suppliers>>
      /\ \A it \in Items : lines[it] > 0 => items[it].exists
  BY DEF CreatePurchase
<1> HIDE DEF x, total
<1>4. purchases \in Seq(Purchase)
  BY DEF StockInv, StockShape
<1>5. /\ purchases' \in Seq(Purchase) /\ DOMAIN purchases' = DOMAIN purchases \cup {N}
      /\ N \notin DOMAIN purchases /\ N # 0
      /\ \A q \in DOMAIN purchases : purchases'[q] = purchases[q]
      /\ purchases'[N] = x
  BY <1>2, <1>3, <1>4, OneAdded
<1> HIDE DEF N
<1>6. StockShape'
  <2>1. \A q \in DOMAIN purchases' :
           /\ purchases'[q].paid /\ purchases'[q].total > 0 <=> purchases'[q].txn # 0
           /\ purchases'[q].status = "cancelled" => ~purchases'[q].paid \/ purchases'[q].total = 0
           /\ \A it \in Items : purchases'[q].lines[it] > 0 => items'[it].exists
    <3> SUFFICES ASSUME NEW q \in DOMAIN purchases'
                 PROVE  /\ purchases'[q].paid /\ purchases'[q].total > 0 <=> purchases'[q].txn # 0
                        /\ purchases'[q].status = "cancelled" => ~purchases'[q].paid \/ purchases'[q].total = 0
                        /\ \A it \in Items : purchases'[q].lines[it] > 0 => items'[it].exists
      OBVIOUS
    <3>1. CASE q = N
      BY <1>2, <1>3, <1>5, <3>1
    <3>2. CASE q \in DOMAIN purchases
      BY <1>3, <1>5, <3>2 DEF StockInv, StockShape
    <3> QED
      BY <1>5, <3>1, <3>2
  <2>2. \A i \in DOMAIN movements' : movements'[i].purchase \in {0} \cup DOMAIN purchases'
    BY <1>3, <1>5 DEF StockInv, StockShape
  <2> QED
    BY <1>3, <1>5, <2>1, <2>2 DEF StockInv, StockShape
<1>7. CountsHold'
  <2>1. items' = items /\ movements' = movements
    BY <1>3
  <2> QED
    BY <2>1 DEF StockInv, CountsHold
<1>8. Received'
  <2>1. movements' = movements
    BY <1>3
  <2>2. OnReceipt(movements, N) = {}
    BY <1>5 DEF StockInv, StockShape, OnReceipt
  <2> QED
    BY <1>2, <1>5, <2>1, <2>2 DEF StockInv, Received
<1>9. Settled(ledger', PurchaseType, PurchaseClaims(purchases'))
  <2> DEFINE c == PurchaseClaims(purchases)
             e == PurchaseClaims(purchases')
  <2>1. /\ DOMAIN c \subseteq DOMAIN e
        /\ \A d \in DOMAIN c : e[d].txn = c[d].txn /\ (c[d].txn # 0 => e[d].n = c[d].n)
        /\ \A d \in DOMAIN e \ DOMAIN c : e[d].txn = 0
    BY <1>2, <1>5 DEF PurchaseClaims
  <2>2. Settled(ledger, PurchaseType, c)
    BY DEF StockInv, PurchaseType
  <2>3. Spares(PurchaseType)
    BY <1>3, FinanceUnchanged
  <2> HIDE DEF c, e
  <2>4. Settled(ledger', PurchaseType, e)
    BY <2>1, <2>2, <2>3, SettledGrows
  <2> QED
    BY <2>4 DEF e
<1> QED
  BY <1>6, <1>7, <1>8, <1>9 DEF StockInv, PurchaseType

\* The claims of a purchase that is not paid and not reversed stay.
LEMMA PurchaseClaimStays ==
    ASSUME LedgerOK, StockInv, NEW p \in DOMAIN purchases, NEW x, EditsPurchase(p, x),
           x.txn = purchases[p].txn, x.total = purchases[p].total, Spares(PurchaseType)
    PROVE  Settled(ledger', "inventory_purchase_payment", PurchaseClaims(purchases'))
<1> DEFINE c == PurchaseClaims(purchases)
           e == PurchaseClaims(purchases')
<1>1. /\ DOMAIN purchases' = DOMAIN purchases /\ purchases'[p] = x
      /\ \A q \in DOMAIN purchases : q # p => purchases'[q] = purchases[q]
  BY PurchaseEdits
<1>2. SameClaims(c, e)
  BY <1>1 DEF SameClaims, PurchaseClaims
<1>3. Settled(ledger, PurchaseType, c)
  BY DEF StockInv, PurchaseType
<1> HIDE DEF c, e
<1>4. Settled(ledger', PurchaseType, e)
  BY <1>2, <1>3, SettledSpared
<1> QED
  BY <1>4 DEF PurchaseType, e

\* The claim of the one that is paid is the entry that pays it.
LEMMA PurchaseClaimPaid ==
    ASSUME LedgerOK, StockInv, NEW p \in DOMAIN purchases, NEW x, EditsPurchase(p, x),
           x.txn = Len(ledger) + 1, x.total = purchases[p].total, purchases[p].txn = 0,
           Books(PurchaseType, p, purchases[p].total)
    PROVE  Settled(ledger', "inventory_purchase_payment", PurchaseClaims(purchases'))
<1> DEFINE c == PurchaseClaims(purchases)
           e == PurchaseClaims(purchases')
<1>1. /\ DOMAIN purchases' = DOMAIN purchases /\ purchases'[p] = x
      /\ \A q \in DOMAIN purchases : q # p => purchases'[q] = purchases[q]
  BY PurchaseEdits
<1>2. /\ DOMAIN e = DOMAIN c /\ p \in DOMAIN c /\ c[p].txn = 0
      /\ e[p].txn = Len(ledger) + 1 /\ e[p].n = purchases[p].total
      /\ \A q \in DOMAIN c \ {p} : e[q].txn = c[q].txn /\ (c[q].txn # 0 => e[q].n = c[q].n)
  BY <1>1 DEF PurchaseClaims
<1>3. Settled(ledger, PurchaseType, c)
  BY DEF StockInv, PurchaseType
<1> HIDE DEF c, e
<1>4. Settled(ledger', PurchaseType, e)
  BY <1>2, <1>3, SettledPaid
<1> QED
  BY <1>4 DEF PurchaseType, e

LEMMA PurchaseDecided ==
    ASSUME LedgerOK, StockInv, NEW p \in DOMAIN purchases, ApprovePurchase(p) \/ CancelPurchase(p)
    PROVE  StockInv'
<1> DEFINE x == [purchases[p] EXCEPT !.status = IF ApprovePurchase(p) THEN "approved" ELSE "cancelled"]
<1>1. /\ purchases[p] \in Purchase
      /\ purchases[p].paid /\ purchases[p].total > 0 <=> purchases[p].txn # 0
  BY LinesOf DEF StockInv, StockShape
<1>2. purchases' = [purchases EXCEPT ![p] = x] /\ UNCHANGED <<financeVars, items, movements, suppliers>>
  BY DEF ApprovePurchase, CancelPurchase
<1>3. purchases[p].status \in {"pending_approval", "approved"}
  BY DEF ApprovePurchase, CancelPurchase
<1>4. ~ApprovePurchase(p) => ~purchases[p].paid \/ purchases[p].total = 0
  BY DEF CancelPurchase, WorthCancelling
<1>5. /\ x \in Purchase /\ x.lines = purchases[p].lines /\ x.txn = purchases[p].txn
      /\ x.total = purchases[p].total /\ x.paid = purchases[p].paid
      /\ x.status = IF ApprovePurchase(p) THEN "approved" ELSE "cancelled"
  BY <1>1 DEF Purchase
<1> HIDE DEF x
<1>6. EditsPurchase(p, x)
  BY <1>1, <1>2, <1>4, <1>5 DEF EditsPurchase
<1>7. Spares(PurchaseType)
  BY <1>2, FinanceUnchanged
<1>8. Settled(ledger', "inventory_purchase_payment", PurchaseClaims(purchases'))
  BY <1>5, <1>6, <1>7, PurchaseClaimStays
<1> QED
  BY <1>2, <1>3, <1>5, <1>6, <1>8, PurchaseEdited

LEMMA PurchaseDelivered ==
    ASSUME LedgerOK, StockInv, NEW p \in DOMAIN purchases, ReceivePurchase(p)
    PROVE  StockInv'
<1> DEFINE x == [purchases[p] EXCEPT !.status = "received"]
<1>1. /\ purchases[p] \in Purchase
      /\ purchases[p].paid /\ purchases[p].total > 0 <=> purchases[p].txn # 0
  BY LinesOf DEF StockInv, StockShape
<1>2. /\ purchases' = [purchases EXCEPT ![p] = x] /\ UNCHANGED <<financeVars, suppliers>>
      /\ Receive(p) /\ purchases[p].status = "approved"
  BY DEF ReceivePurchase, Receive
<1>3. /\ x \in Purchase /\ x.lines = purchases[p].lines /\ x.txn = purchases[p].txn
      /\ x.total = purchases[p].total /\ x.paid = purchases[p].paid /\ x.status = "received"
  BY <1>1 DEF Purchase
<1> HIDE DEF x
<1>4. EditsPurchase(p, x)
  BY <1>1, <1>2, <1>3 DEF EditsPurchase
<1>5. Spares(PurchaseType)
  BY <1>2, FinanceUnchanged
<1>6. Settled(ledger', "inventory_purchase_payment", PurchaseClaims(purchases'))
  BY <1>3, <1>4, <1>5, PurchaseClaimStays
<1>7. Delivers(p)
  BY <1>2, Delivery
<1> QED
  BY <1>2, <1>3, <1>4, <1>6, <1>7, PurchaseReceived

\* A purchase is paid, alone or on delivery.
LEMMA PurchasePaid ==
    ASSUME LedgerOK, StockInv, NEW p \in DOMAIN purchases, NEW r \in PaymentIds, NEW a \in AccountIds,
           ReceiveAndPay(r, p, a) \/ PayPurchase(r, p, a)
    PROVE  StockInv' /\ LedgerOK' /\ Books(PurchaseType, p, purchases[p].total)
<1> DEFINE status == IF ReceiveAndPay(r, p, a) THEN "received" ELSE purchases[p].status
           x == [purchases[p] EXCEPT !.status = status, !.paid = TRUE, !.txn = NextNumber]
<1>1. /\ purchases[p] \in Purchase /\ p \in Nat /\ purchases[p].total \in Nat
      /\ NextNumber = Len(ledger) + 1 /\ NextNumber \in Nat /\ NextNumber # 0
      /\ purchases[p].paid /\ purchases[p].total > 0 <=> purchases[p].txn # 0
  <2>1. purchases[p] \in Purchase /\ p \in Nat
    BY LinesOf
  <2> QED
    BY <2>1, DayNumber DEF NextNumber, Purchase, StockInv, StockShape
<1>2. /\ PostFor(r, PurchaseType, purchases[p].total, a, None, p)
      /\ ~purchases[p].paid /\ suppliers' = suppliers
  BY DEF ReceiveAndPay, PayPurchase, PayOut, Payable, Receive, PurchaseType
<1>3. status \in {"approved", "received"} /\ purchases[p].status \in {"approved", "received"}
  BY DEF ReceiveAndPay, PayPurchase, Payable, Receive
<1>4. purchases' = [purchases EXCEPT ![p] = x]
  <2>1. CASE ReceiveAndPay(r, p, a)
    BY <2>1 DEF ReceiveAndPay
  <2>2. CASE ~ReceiveAndPay(r, p, a)
    <3>1. purchases' = [purchases EXCEPT ![p].paid = TRUE, ![p].txn = NextNumber]
      BY <2>2 DEF PayPurchase
    <3>2. [purchases[p] EXCEPT !.paid = TRUE, !.txn = NextNumber] = x
      BY <1>1, <2>2 DEF Purchase
    <3> QED
      BY <3>1, <3>2
  <2> QED
    BY <2>1, <2>2
<1>5. /\ x \in Purchase /\ x.lines = purchases[p].lines /\ x.txn = NextNumber
      /\ x.total = purchases[p].total /\ x.paid /\ x.status = status
  <2> HIDE DEF status
  <2> QED
    BY <1>1, <1>3 DEF Purchase
<1> HIDE DEF x
<1>6. Books(PurchaseType, p, purchases[p].total) /\ LedgerOK'
  <2>1. PurchaseType \in PostingTypes
    BY DEF PostingTypes, PurchaseType
  <2> QED
    BY <1>1, <1>2, <2>1, PayBooks
<1>7. purchases[p].total > 0
  <2>1. Commit(accounts, ledger, [NewEntry(PurchaseType, purchases[p].total, a, None) EXCEPT !.about = p, !.request = r])
    BY <1>2 DEF PostFor, Post
  <2>2. WellFormed([NewEntry(PurchaseType, purchases[p].total, a, None) EXCEPT !.about = p, !.request = r])
    BY <2>1 DEF Commit
  <2> QED
    BY <2>2 DEF WellFormed, NewEntry
<1>8. EditsPurchase(p, x)
  BY <1>1, <1>2, <1>3, <1>4, <1>5, <1>7 DEF EditsPurchase
<1>9. Settled(ledger', "inventory_purchase_payment", PurchaseClaims(purchases'))
  BY <1>1, <1>2, <1>5, <1>6, <1>8, PurchaseClaimPaid
<1>10. CASE ReceiveAndPay(r, p, a)
  <2>1. Receive(p) /\ purchases[p].status = "approved" /\ x.status = "received"
    BY <1>5, <1>10 DEF ReceiveAndPay, Receive
  <2>2. Delivers(p)
    BY <2>1, Delivery
  <2> QED
    BY <1>6, <1>8, <1>9, <2>1, <2>2, PurchaseReceived
<1>11. CASE ~ReceiveAndPay(r, p, a)
  <2>1. UNCHANGED <<items, movements>> /\ x.status = purchases[p].status
    BY <1>5, <1>11 DEF PayPurchase
  <2> QED
    BY <1>6, <1>8, <1>9, <2>1, PurchaseEdited
<1> QED
  BY <1>10, <1>11

\* A reversed payment makes its purchase unpaid again; another is none of its.
LEMMA PurchasesReversed ==
    ASSUME LedgerOK, StockInv, NEW i \in EntryNumbers, Unbooks({i}),
           ledger[i].type # "reversal", purchases' = PurchasesAfterReversing(ledger[i]),
           UNCHANGED <<items, movements, suppliers>>
    PROVE  StockInv'
<1>1. /\ purchases \in Seq(Purchase) /\ Settled(ledger, PurchaseType, PurchaseClaims(purchases))
      /\ \A p \in DOMAIN purchases : purchases[p].paid /\ purchases[p].total > 0 <=> purchases[p].txn # 0
  BY DEF StockInv, StockShape, PurchaseType
<1>2. CASE ledger[i].type = PurchaseType
  <2> DEFINE d == ledger[i].about
             x == [purchases[d] EXCEPT !.paid = FALSE, !.txn = 0]
             c == PurchaseClaims(purchases)
             e == PurchaseClaims(purchases')
  <2>1. d \in DOMAIN purchases
    BY <1>1, <1>2 DEF Settled, PurchaseClaims, EntryNumbers
  <2>2. purchases[d] \in Purchase
    BY <1>1, <2>1
  <2>3. /\ x \in Purchase /\ x.txn = 0 /\ ~x.paid /\ x.lines = purchases[d].lines
        /\ x.status = purchases[d].status
    BY <2>2 DEF Purchase
  <2>4. purchases' = [purchases EXCEPT ![d] = x]
    BY <1>2 DEF PurchasesAfterReversing, PurchaseType
  <2> HIDE DEF x
  <2>5. EditsPurchase(d, x)
    BY <2>3, <2>4 DEF EditsPurchase
  <2>6. /\ DOMAIN purchases' = DOMAIN purchases /\ purchases'[d] = x
        /\ \A j \in DOMAIN purchases : j # d => purchases'[j] = purchases[j]
    BY <2>1, <2>5, PurchaseEdits
  <2>7. /\ d \in DOMAIN c /\ DOMAIN e = DOMAIN c /\ e[d].txn = 0
        /\ \A j \in DOMAIN c \ {d} : e[j].txn = c[j].txn /\ (c[j].txn # 0 => e[j].n = c[j].n)
    BY <2>1, <2>3, <2>6 DEF PurchaseClaims
  <2>8. Settled(ledger', PurchaseType, e)
    <3> HIDE DEF c, e
    <3>1. Settled(ledger, PurchaseType, c)
      BY <1>1 DEF c
    <3>2. PurchaseType # "reversal"
      BY DEF PurchaseType
    <3> QED
      BY <1>2, <2>7, <3>1, <3>2, SettledUnpaid
  <2> HIDE DEF d
  <2> QED
    BY <2>1, <2>3, <2>5, <2>8, PurchaseEdited DEF PurchaseType
<1>3. CASE ledger[i].type # PurchaseType
  <2>1. purchases' = purchases
    BY <1>3 DEF PurchasesAfterReversing, PurchaseType
  <2>2. Spares(PurchaseType)
    <3>1. PurchaseType # "reversal"
      BY DEF PurchaseType
    <3> QED
      BY <1>3, <3>1, UnbooksSpares
  <2>3. SameClaims(PurchaseClaims(purchases), PurchaseClaims(purchases))
    BY DEF SameClaims
  <2>4. Settled(ledger', PurchaseType, PurchaseClaims(purchases))
    BY <1>1, <2>2, <2>3, SettledSpared
  <2>5. StockShape' /\ CountsHold' /\ Received'
    <3>1. UNCHANGED <<items, movements, suppliers, purchases>>
      BY <2>1
    <3> QED
      BY <3>1 DEF StockInv, StockShape, CountsHold, Received
  <2> QED
    BY <2>1, <2>4, <2>5 DEF StockInv, PurchaseType
<1> QED
  BY <1>2, <1>3

\* Nothing another desk does disturbs the stock.
LEMMA StockUndisturbed ==
    ASSUME LedgerOK, StockInv, UNCHANGED stockVars, Spares("inventory_purchase_payment")
    PROVE  StockInv'
<1>1. SameClaims(PurchaseClaims(purchases), PurchaseClaims(purchases))
  BY DEF SameClaims
<1>2. Settled(ledger', "inventory_purchase_payment", PurchaseClaims(purchases))
  BY <1>1, SettledSpared DEF StockInv
<1>3. UNCHANGED <<items, movements, suppliers, purchases>>
  BY DEF stockVars
<1>4. StockShape' /\ CountsHold' /\ Received' /\ purchases' = purchases
  BY <1>3 DEF StockInv, StockShape, CountsHold, Received
<1> QED
  BY <1>2, <1>4 DEF StockInv

LEMMA SuppliersChanged ==
    ASSUME LedgerOK, StockInv, NEW s \in Suppliers,
           CreateSupplier(s) \/ \E active \in BOOLEAN : UpdateSupplier(s, active)
    PROVE  StockInv'
<1>1. suppliers' \in [Suppliers -> {"none", "active", "inactive"}]
  BY DEF CreateSupplier, UpdateSupplier, StockInv, StockShape
<1>2. UNCHANGED <<items, movements, purchases, ledger>>
  BY DEF CreateSupplier, UpdateSupplier, financeVars
<1>3. StockShape' /\ CountsHold' /\ Received'
  BY <1>1, <1>2 DEF StockInv, StockShape, CountsHold, Received
<1>4. Settled(ledger', "inventory_purchase_payment", PurchaseClaims(purchases'))
  BY <1>2 DEF StockInv
<1> QED
  BY <1>3, <1>4 DEF StockInv

LEMMA StockKept ==
    ASSUME LedgerOK, StockInv, StockStep
    PROVE  StockInv' /\ LedgerOK' /\ \A t : t # PurchaseType => Spares(t)
<1>1. ASSUME NEW it \in Items, NEW reorder \in ReorderLevels, NEW n \in Quantities \cup {0},
             NEW active \in BOOLEAN
      PROVE  /\ CreateInventoryItem(it, reorder, n) => StockInv'
             /\ UpdateInventoryItem(it, reorder, active) => StockInv'
  <2>1. reorder \in Nat /\ n \in Nat
    BY StockAssumption
  <2> QED
    BY <2>1, ItemCreated, ItemUpdated
<1>2. ASSUME NEW it \in Items, NEW n \in Quantities \cup {0}
      PROVE  /\ \A type \in {"stock_in", "usage", "stock_out", "return"} :
                   RecordStockMovement(it, type, n) => StockInv'
             /\ AdjustStock(it, n) => StockInv'
  <2>1. n \in Nat
    BY StockAssumption
  <2> QED
    BY <2>1, StockCounted
<1>3. ASSUME NEW p \in DOMAIN purchases, NEW r \in PaymentIds, NEW a \in AccountIds,
             ReceiveAndPay(r, p, a) \/ PayPurchase(r, p, a)
      PROVE  StockInv' /\ LedgerOK' /\ \A t : t # PurchaseType => Spares(t)
  BY <1>3, PurchasePaid, BooksSpares
<1>4. ASSUME UNCHANGED financeVars PROVE LedgerOK' /\ \A t : Spares(t)
  BY <1>4, FinanceUnchanged
<1>5. \/ StockInv' /\ UNCHANGED financeVars
      \/ \E p \in DOMAIN purchases, r \in PaymentIds, a \in AccountIds :
            ReceiveAndPay(r, p, a) \/ PayPurchase(r, p, a)
  <2>1. ASSUME NEW it \in Items, NEW reorder \in ReorderLevels, NEW n \in Quantities \cup {0},
               CreateInventoryItem(it, reorder, n)
        PROVE  StockInv' /\ UNCHANGED financeVars
    BY <1>1, <2>1 DEF CreateInventoryItem
  <2>2. ASSUME NEW it \in Items, NEW reorder \in ReorderLevels, NEW active \in BOOLEAN,
               UpdateInventoryItem(it, reorder, active)
        PROVE  StockInv' /\ UNCHANGED financeVars
    <3>1. 0 \in Quantities \cup {0}
      OBVIOUS
    <3> QED
      BY <1>1, <2>2, <3>1 DEF UpdateInventoryItem
  <2>3. ASSUME NEW it \in Items, NEW type \in {"stock_in", "usage", "stock_out", "return"},
               NEW n \in Quantities, RecordStockMovement(it, type, n)
        PROVE  StockInv' /\ UNCHANGED financeVars
    BY <1>2, <2>3 DEF RecordStockMovement
  <2>4. ASSUME NEW it \in Items, NEW n \in Quantities \cup {0}, AdjustStock(it, n)
        PROVE  StockInv' /\ UNCHANGED financeVars
    BY <1>2, <2>4 DEF AdjustStock
  <2>5. ASSUME NEW i \in DOMAIN movements, ReverseStockMovement(i)
        PROVE  StockInv' /\ UNCHANGED financeVars
    BY <2>5, StockReversed DEF ReverseStockMovement
  <2>6. ASSUME NEW s \in Suppliers, CreateSupplier(s) \/ \E active \in BOOLEAN : UpdateSupplier(s, active)
        PROVE  StockInv' /\ UNCHANGED financeVars
    BY <2>6, SuppliersChanged DEF CreateSupplier, UpdateSupplier
  <2>7. ASSUME NEW s \in Suppliers, NEW lines \in Lines, NEW cost \in UnitCosts, NEW approved \in BOOLEAN,
               CreatePurchase(s, lines, cost, approved)
        PROVE  StockInv' /\ UNCHANGED financeVars
    BY <2>7, PurchaseCreated DEF CreatePurchase
  <2>8. ASSUME NEW p \in DOMAIN purchases, ApprovePurchase(p) \/ CancelPurchase(p)
        PROVE  StockInv' /\ UNCHANGED financeVars
    BY <2>8, PurchaseDecided DEF ApprovePurchase, CancelPurchase
  <2>9. ASSUME NEW p \in DOMAIN purchases, ReceivePurchase(p)
        PROVE  StockInv' /\ UNCHANGED financeVars
    BY <2>9, PurchaseDelivered DEF ReceivePurchase
  <2> QED
    BY <2>1, <2>2, <2>3, <2>4, <2>5, <2>6, <2>7, <2>8, <2>9 DEF StockStep
<1> QED
  BY <1>3, <1>4, <1>5

-----------------------------------------------------------------------------
(* Pay: what it is that holds *)

PayrollDoc == [slot: Slots, status: PayrollStatuses, reviewed: BOOLEAN,
               items: UNION {[W -> PayItem] : W \in SUBSET Staff},
               earnings: Seq(Earning), total: Nat, txn: Nat]

Live == Open \cup {"paid"}

\* The payrolls ps: which are paid, what they list, which of them pay allowance k,
\* and what they take from deduction d.
IsPaid(ps, p) == ps[p].status \in {"paid", "locked"}
ListedOn(ps, p) == UNION {item.allowances : item \in {ps[p].items[w] : w \in DOMAIN ps[p].items}}
Paying(ps, k) == {p \in DOMAIN ps : IsPaid(ps, p) /\ k \in ListedOn(ps, p)}
Take(ps, p, d) == SumFunction([w \in DOMAIN ps[p].items |-> ps[p].items[w].takes[d]])
PayrollClaims(ps) == [p \in DOMAIN ps |-> [txn |-> ps[p].txn, n |-> ps[p].total]]

\* The allowances al: those entry i paid, and what those in S were approved for.
BatchOf(al, i) == {k \in DOMAIN al : al[k].status = "paid" /\ al[k].via = "direct" /\ al[k].txn = i}
Approved(al, S) == SumFunction([k \in S |-> al[k].approvedAmount])

\* The deductions ds: those for incident q, and what they recovered.
ForIncident(ds, q) == {n \in DOMAIN ds : ds[n].incident = q}
RecoveredOn(ds, q) == SumFunction([d \in ForIncident(ds, q) |-> ds[d].recovered])

AllowanceShape ==
    /\ attendance \in [Staff -> Attendance]
    /\ allowances \in Seq(Allowance)
    /\ Len(allowances) <= MaxAllowances
    /\ \A w \in Staff :
          /\ attendance[w].allowance # 0 =>
                attendance[w].allowance \in DOMAIN allowances
                /\ allowances[attendance[w].allowance].staff = w
          /\ attendance[w].verification = "none" => attendance[w].allowance = 0
    /\ OneAllowanceADay

PayrollShape ==
    /\ salaries \in [Staff -> Salary]
    /\ payrolls \in Seq(PayrollDoc)
    /\ Len(payrolls) <= MaxPayrolls
    /\ \A p \in DOMAIN payrolls :
          /\ payrolls[p].txn # 0 <=> IsPaid(payrolls, p) /\ payrolls[p].total > 0
          /\ ListedOn(payrolls, p) \subseteq DOMAIN allowances
          /\ \A w \in DOMAIN payrolls[p].items :
                \A d \in DeductionNumbers \ DOMAIN deductions : payrolls[p].items[w].takes[d] = 0

LossShape ==
    /\ incidents \in Seq(Incident)
    /\ deductions \in Seq(Deduction)
    /\ Len(deductions) <= MaxDeductions
    /\ \A q \in DOMAIN incidents :
          /\ Undecided(q) => incidents[q].approved = 0
          /\ incidents[q].approved > 0 => incidents[q].staff # None
          /\ incidents[q].status # "cancelled" => incidents[q].cancelledOutstanding = 0
          /\ incidents[q].deduction \in {0} \cup DOMAIN deductions
    /\ \A d \in DOMAIN deductions : deductions[d].incident \in {0} \cup DOMAIN incidents

\* Each allowance and the payroll or the entry that paid it.
AllowancesPaid ==
    /\ \A k \in DOMAIN allowances :
          /\ Paying(payrolls, k) = IF allowances[k].status = "paid" /\ allowances[k].via = "payroll"
                                   THEN {allowances[k].payroll} ELSE {}
          /\ allowances[k].status = "paid" /\ allowances[k].via = "payroll" =>
                allowances[k].txn = payrolls[allowances[k].payroll].txn
          /\ allowances[k].status = "paid" /\ allowances[k].via = "direct" =>
                allowances[k].txn \in EntryNumbers
                /\ ledger[allowances[k].txn].type = "allowance_payment"
    /\ \A i \in EntryNumbers : ledger[i].type = "allowance_payment" =>
          (IF ledger[i].posted THEN ledger[i].amount ELSE 0) = Approved(allowances, BatchOf(allowances, i))

\* Deductions and what the payrolls took from them.
DeductionsAddUp ==
    \A d \in DOMAIN deductions :
        /\ deductions[d].total = deductions[d].recovered + deductions[d].remaining
        /\ deductions[d].recovered = SumFunction(deductions[d].applied)
        /\ \A p \in PayrollNumbers : deductions[d].applied[p] =
              IF p \in DOMAIN payrolls /\ IsPaid(payrolls, p) THEN Take(payrolls, p, d) ELSE 0

\* Incidents and what their deductions recovered.
IncidentsAddUp ==
    \A q \in DOMAIN incidents :
        /\ incidents[q].approved = incidents[q].recovered + incidents[q].outstanding
                                      + incidents[q].cancelledOutstanding
        /\ incidents[q].recovered = RecoveredOn(deductions, q)

\* The inductive invariant of the pay desk.
PayInv ==
    /\ AllowanceShape /\ PayrollShape /\ LossShape
    /\ Settled(ledger, "payroll_payment", PayrollClaims(payrolls))
    /\ AllowancesPaid /\ DeductionsAddUp /\ IncidentsAddUp

LEMMA PayrollDocIs ==
    ASSUME NEW ps \in Seq(PayrollDoc), NEW p \in DOMAIN ps
    PROVE  /\ ps[p] \in PayrollDoc /\ p \in Nat /\ p # 0
           /\ DOMAIN ps[p].items \subseteq Staff /\ IsFiniteSet(DOMAIN ps[p].items)
           /\ \A w \in DOMAIN ps[p].items : ps[p].items[w] \in PayItem
           /\ ps[p].earnings \in Seq(Earning) /\ ps[p].total \in Nat /\ ps[p].txn \in Nat
           /\ ps[p].slot \in Slots /\ ps[p].status \in PayrollStatuses /\ ps[p].reviewed \in BOOLEAN
<1>1. ps[p] \in PayrollDoc /\ p \in Nat /\ p # 0
  BY OneOf
<1>2. /\ ps[p].items \in UNION {[W -> PayItem] : W \in SUBSET Staff}
      /\ ps[p].earnings \in Seq(Earning) /\ ps[p].total \in Nat /\ ps[p].txn \in Nat
      /\ ps[p].slot \in Slots /\ ps[p].status \in PayrollStatuses /\ ps[p].reviewed \in BOOLEAN
  BY <1>1 DEF PayrollDoc
<1>3. PICK W \in SUBSET Staff : ps[p].items \in [W -> PayItem]
  BY <1>2
<1>4. DOMAIN ps[p].items \subseteq Staff /\ \A w \in DOMAIN ps[p].items : ps[p].items[w] \in PayItem
  BY <1>3
<1>5. IsFiniteSet(DOMAIN ps[p].items)
  BY <1>4, AllowanceAssumption, FS_Subset
<1> QED
  BY <1>1, <1>2, <1>4, <1>5

LEMMA TakeType ==
    ASSUME NEW ps \in Seq(PayrollDoc), NEW p \in DOMAIN ps, NEW d \in DeductionNumbers
    PROVE  Take(ps, p, d) \in Nat
<1>1. IsFiniteSet(DOMAIN ps[p].items) /\ \A w \in DOMAIN ps[p].items : ps[p].items[w] \in PayItem
  BY PayrollDocIs
<1>2. \A w \in DOMAIN ps[p].items : ps[p].items[w].takes[d] \in Nat
  BY <1>1 DEF PayItem
<1> QED
  BY <1>1, <1>2, SumType DEF Take

\* What the invariant says of pay is what the runs check.
LEMMA PaySays ==
    LedgerOK /\ PayInv =>
        AllowanceTypeOK /\ PayrollTypeOK /\ OneAllowanceADay /\ PayMatchesLedger /\ RecoveriesAddUp
<1> SUFFICES ASSUME LedgerOK, PayInv
             PROVE  AllowanceTypeOK /\ PayrollTypeOK /\ OneAllowanceADay /\ PayMatchesLedger /\ RecoveriesAddUp
  OBVIOUS
<1>1. /\ payrolls \in Seq(PayrollDoc) /\ incidents \in Seq(Incident) /\ deductions \in Seq(Deduction)
      /\ allowances \in Seq(Allowance)
  BY DEF PayInv, AllowanceShape, PayrollShape, LossShape
<1>2. AllowanceTypeOK /\ OneAllowanceADay
  BY <1>1, OneOf DEF PayInv, AllowanceShape, AllowanceTypeOK
<1>3. PayrollTypeOK
  <2>1. ASSUME NEW p \in DOMAIN payrolls
        PROVE  /\ payrolls[p].slot \in Slots
               /\ payrolls[p].status \in PayrollStatuses
               /\ payrolls[p].reviewed \in BOOLEAN
               /\ DOMAIN payrolls[p].items \subseteq Staff
               /\ \A w \in DOMAIN payrolls[p].items : payrolls[p].items[w] \in PayItem
               /\ \A e \in DOMAIN payrolls[p].earnings : payrolls[p].earnings[e] \in Earning
               /\ payrolls[p].total \in Nat /\ payrolls[p].txn \in Nat
    BY <1>1, PayrollDocIs, OneOf
  <2>2. /\ \A q \in DOMAIN incidents : incidents[q] \in Incident
        /\ \A d \in DOMAIN deductions : deductions[d] \in Deduction
    BY <1>1, OneOf
  <2>3. salaries \in [Staff -> Salary]
    BY DEF PayInv, PayrollShape
  <2> QED
    BY <2>1, <2>2, <2>3 DEF PayrollTypeOK
<1>4. \A p \in DOMAIN payrolls : IsPaid(payrolls, p) <=> PaidOut(p)
  BY DEF IsPaid, PaidOut
<1>5. PayMatchesLedger
  <2>1. ASSUME NEW p \in DOMAIN payrolls
        PROVE  IF PaidOut(p) /\ payrolls[p].total > 0
               THEN PaidBy(payrolls[p].txn, "payroll_payment", p, payrolls[p].total)
               ELSE NotPaid(payrolls[p].txn, "payroll_payment", p)
    <3>1. payrolls[p].txn # 0 <=> PaidOut(p) /\ payrolls[p].total > 0
      BY <1>4 DEF PayInv, PayrollShape
    <3>2. IF payrolls[p].txn # 0
          THEN /\ LiveIn(ledger, "payroll_payment", p) = {payrolls[p].txn}
               /\ ledger[payrolls[p].txn].amount = payrolls[p].total
          ELSE LiveIn(ledger, "payroll_payment", p) = {}
      BY DEF PayInv, Settled, PayrollClaims
    <3>3. LiveIn(ledger, "payroll_payment", p) = LiveFor("payroll_payment", p)
      BY DEF LiveIn, LiveFor, EntryNumbers
    <3> QED
      BY <3>1, <3>2, <3>3 DEF PaidBy, NotPaid
  <2>2. ASSUME NEW k \in DOMAIN allowances
        PROVE  {p \in DOMAIN payrolls : PaidOut(p) /\ k \in AllowancesOf(p)}
                  = IF allowances[k].status = "paid" /\ allowances[k].via = "payroll"
                    THEN {allowances[k].payroll} ELSE {}
    <3>1. {p \in DOMAIN payrolls : PaidOut(p) /\ k \in AllowancesOf(p)} = Paying(payrolls, k)
      BY <1>4 DEF Paying, ListedOn, AllowancesOf, ItemsOf
    <3> QED
      BY <3>1 DEF PayInv, AllowancesPaid
  <2>3. ASSUME NEW i \in EntryNumbers, ledger[i].type = "allowance_payment"
        PROVE  (IF ledger[i].posted THEN ledger[i].amount ELSE 0)
                  = ApprovedIn({k \in DOMAIN allowances : /\ allowances[k].status = "paid"
                                                          /\ allowances[k].via = "direct"
                                                          /\ allowances[k].txn = i})
    BY <2>3 DEF PayInv, AllowancesPaid, Approved, ApprovedIn, BatchOf
  <2> QED
    BY <2>1, <2>2, <2>3 DEF PayMatchesLedger
<1>6. RecoveriesAddUp
  <2>1. ASSUME NEW d \in DOMAIN deductions
        PROVE  /\ deductions[d].total = deductions[d].recovered + deductions[d].remaining
               /\ deductions[d].remaining >= 0
               /\ deductions[d].recovered = SumFunction(deductions[d].applied)
               /\ \A p \in PayrollNumbers : deductions[d].applied[p] =
                     IF p \in DOMAIN payrolls /\ PaidOut(p) THEN TakeOf(p, d) ELSE 0
    <3>1. deductions[d].remaining \in Nat
      <4>1. deductions[d] \in Deduction
        BY <1>1, OneOf
      <4> QED
        BY <4>1 DEF Deduction
    <3>2. \A p \in DOMAIN payrolls : Take(payrolls, p, d) = TakeOf(p, d)
      BY DEF Take, TakeOf
    <3> QED
      BY <1>4, <3>1, <3>2 DEF PayInv, DeductionsAddUp
  <2>2. ASSUME NEW q \in DOMAIN incidents
        PROVE  /\ incidents[q].approved = incidents[q].recovered + incidents[q].outstanding
                                             + incidents[q].cancelledOutstanding
               /\ incidents[q].outstanding >= 0
               /\ incidents[q].recovered =
                     SumFunction([d \in {n \in DOMAIN deductions : deductions[n].incident = q} |->
                                     deductions[d].recovered])
    <3>1. incidents[q].outstanding \in Nat
      <4>1. incidents[q] \in Incident
        BY <1>1, OneOf
      <4> QED
        BY <4>1 DEF Incident
    <3> QED
      BY <3>1 DEF PayInv, IncidentsAddUp, RecoveredOn, ForIncident
  <2> QED
    BY <2>1, <2>2 DEF RecoveriesAddUp
<1> QED
  BY <1>2, <1>3, <1>5, <1>6

LEMMA PayStarts == FinanceInit /\ PayInit => PayInv
<1> SUFFICES ASSUME FinanceInit, PayInit PROVE PayInv
  OBVIOUS
<1>1. /\ ledger = << >> /\ allowances = << >> /\ payrolls = << >>
      /\ incidents = << >> /\ deductions = << >>
  BY DEF FinanceInit, PayInit, AllowanceInit
<1>2. AllowanceShape
  <2>1. attendance \in [Staff -> Attendance] /\ \A w \in Staff : attendance[w].allowance = 0
    BY DEF PayInit, AllowanceInit, Attendance
  <2> QED
    BY <1>1, <2>1, AllowanceAssumption DEF AllowanceShape, OneAllowanceADay
<1>3. PayrollShape
  <2>1. Frequencies # {}
    BY PayrollAssumption DEF Frequencies
  <2>2. (CHOOSE f \in Frequencies : TRUE) \in Frequencies
    BY <2>1
  <2>3. salaries \in [Staff -> Salary]
    BY <2>2 DEF PayInit, Salary
  <2> QED
    BY <1>1, <2>3, PayrollAssumption DEF PayrollShape
<1>4. LossShape
  BY <1>1, PayrollAssumption DEF LossShape
<1>5. Settled(ledger, "payroll_payment", PayrollClaims(payrolls))
  BY <1>1 DEF Settled, PayrollClaims
<1>6. AllowancesPaid /\ DeductionsAddUp /\ IncidentsAddUp
  BY <1>1 DEF AllowancesPaid, DeductionsAddUp, IncidentsAddUp, EntryNumbers
<1> QED
  BY <1>2, <1>3, <1>4, <1>5, <1>6 DEF PayInv

-----------------------------------------------------------------------------
(* Allowances *)

\* All documents of a sequence are rewritten, each to one of its kind.
LEMMA AllRewritten ==
    ASSUME NEW S, NEW s \in Seq(S), NEW t, t = [k \in DOMAIN s |-> t[k]], \A k \in DOMAIN s : t[k] \in S
    PROVE  t \in Seq(S) /\ DOMAIN t = DOMAIN s /\ Len(t) = Len(s)
<1>1. DOMAIN s = 1..Len(s) /\ Len(s) \in Nat
  BY LenProperties
<1>2. t \in [1..Len(s) -> S]
  BY <1>1
<1>3. t \in Seq(S)
  BY <1>1, <1>2, SeqDef
<1> QED
  BY <1>1, <1>2, <1>3, LenProperties

LEMMA SeqDomain == ASSUME NEW S, NEW s \in Seq(S) PROVE DOMAIN s = 1..Len(s) /\ Len(s) \in Nat /\ IsFiniteSet(DOMAIN s)
<1>1. DOMAIN s = 1..Len(s) /\ Len(s) \in Nat
  BY LenProperties
<1> QED
  BY <1>1, FS_Interval

\* What is approved is a number, and no allowances are approved for nothing.
LEMMA ApprovedType ==
    ASSUME NEW al \in Seq(Allowance), NEW S, S \subseteq DOMAIN al
    PROVE  Approved(al, S) \in Nat /\ (S = {} => Approved(al, S) = 0)
<1>1. IsFiniteSet(S)
  BY SeqDomain, FS_Subset
<1>2. \A k \in S : al[k].approvedAmount \in Nat
  <2>1. \A k \in S : al[k] \in Allowance
    BY OneOf
  <2> QED
    BY <2>1 DEF Allowance
<1>3. Approved(al, S) \in Nat
  BY <1>1, <1>2, SumType DEF Approved
<1> QED
  BY <1>3, SumOfNone DEF Approved

LEMMA ApprovedSame ==
    ASSUME NEW al \in Seq(Allowance), NEW bl, NEW S, S \subseteq DOMAIN al,
           \A k \in S : bl[k].approvedAmount = al[k].approvedAmount
    PROVE  Approved(bl, S) = Approved(al, S)
<1>1. IsFiniteSet(S)
  BY SeqDomain, FS_Subset
<1> QED
  BY <1>1, SumSame DEF Approved

\* One record of attendance, or one allowance, is edited or added, and none that is
\* paid, or becomes so: nothing moves that the ledger knows of.
LEMMA AllowancePaperwork ==
    ASSUME LedgerOK, PayInv, UNCHANGED <<financeVars, salaries, payrolls, lossVars>>, AllowanceShape',
           DOMAIN allowances \subseteq DOMAIN allowances',
           \A k \in DOMAIN allowances :
              \/ allowances'[k] = allowances[k]
              \/ allowances[k].status # "paid" /\ allowances'[k].status # "paid",
           \A k \in DOMAIN allowances' \ DOMAIN allowances : allowances'[k].status # "paid"
    PROVE  PayInv'
<1>1. /\ ledger' = ledger /\ salaries' = salaries /\ payrolls' = payrolls
      /\ incidents' = incidents /\ deductions' = deductions
  BY DEF financeVars, lossVars
<1>2. PayrollShape'
  <2>1. PayrollShape
    BY DEF PayInv
  <2> QED
    BY <1>1, <2>1 DEF PayrollShape, IsPaid, ListedOn
<1>3. LossShape' /\ DeductionsAddUp' /\ IncidentsAddUp'
  BY <1>1 DEF PayInv, LossShape, DeductionsAddUp, IncidentsAddUp, Undecided
<1>4. Settled(ledger', "payroll_payment", PayrollClaims(payrolls'))
  BY <1>1 DEF PayInv
<1>5. allowances \in Seq(Allowance) /\ allowances' \in Seq(Allowance) /\ AllowancesPaid
  BY DEF PayInv, AllowanceShape
<1>6. ASSUME NEW k \in DOMAIN allowances'
      PROVE  /\ Paying(payrolls, k) = IF allowances'[k].status = "paid" /\ allowances'[k].via = "payroll"
                                      THEN {allowances'[k].payroll} ELSE {}
             /\ allowances'[k].status = "paid" /\ allowances'[k].via = "payroll" =>
                   allowances'[k].txn = payrolls[allowances'[k].payroll].txn
             /\ allowances'[k].status = "paid" /\ allowances'[k].via = "direct" =>
                   allowances'[k].txn \in EntryNumbers
                   /\ ledger[allowances'[k].txn].type = "allowance_payment"
  <2>1. CASE k \in DOMAIN allowances
    BY <1>5, <2>1 DEF AllowancesPaid
  <2>2. CASE k \notin DOMAIN allowances
    <3>1. Paying(payrolls, k) = {}
      BY <2>2 DEF PayInv, PayrollShape, Paying
    <3> QED
      BY <2>2, <3>1
  <2> QED
    BY <2>1, <2>2
<1>7. ASSUME NEW i PROVE Approved(allowances', BatchOf(allowances', i)) = Approved(allowances, BatchOf(allowances, i))
  <2>1. \A k : k \in BatchOf(allowances', i) <=> k \in BatchOf(allowances, i)
    BY DEF BatchOf
  <2>2. BatchOf(allowances', i) = BatchOf(allowances, i)
    BY <2>1
  <2>3. \A k \in BatchOf(allowances, i) : allowances'[k].approvedAmount = allowances[k].approvedAmount
    BY DEF BatchOf
  <2>4. BatchOf(allowances, i) \subseteq DOMAIN allowances
    BY DEF BatchOf
  <2> QED
    BY <1>5, <2>2, <2>3, <2>4, ApprovedSame
<1>8. AllowancesPaid'
  BY <1>1, <1>5, <1>6, <1>7 DEF AllowancesPaid, EntryNumbers
<1> QED
  BY <1>2, <1>3, <1>4, <1>8 DEF PayInv

\* The record of employee w changes, not what it says of the allowance.
LEMMA RecordEdited ==
    ASSUME LedgerOK, PayInv, NEW w \in Staff, NEW x \in Attendance, x.allowance = attendance[w].allowance,
           x.verification # "none", attendance' = [attendance EXCEPT ![w] = x],
           UNCHANGED <<financeVars, salaries, payrolls, lossVars, allowances>>
    PROVE  PayInv'
<1>1. AllowanceShape
  BY DEF PayInv
<1>2. attendance' \in [Staff -> Attendance] /\ \A v \in Staff : attendance'[v].allowance = attendance[v].allowance
  BY <1>1 DEF AllowanceShape
<1>3. \A v \in Staff : attendance'[v].verification = "none" => attendance'[v].allowance = 0
  BY <1>1 DEF AllowanceShape
<1>4. OneAllowanceADay'
  <2>1. \A k \in DOMAIN allowances : allowances[k].staff \in Staff
    <3>1. \A k \in DOMAIN allowances : allowances[k] \in Allowance
      BY <1>1, OneOf DEF AllowanceShape
    <3> QED
      BY <3>1 DEF Allowance
  <2> QED
    BY <1>1, <1>2, <2>1 DEF AllowanceShape, OneAllowanceADay
<1>5. AllowanceShape'
  BY <1>1, <1>2, <1>3, <1>4 DEF AllowanceShape
<1> QED
  BY <1>5, AllowancePaperwork

LEMMA AttendanceRecorded ==
    ASSUME LedgerOK, PayInv, UNCHANGED lossVars, NEW w \in Staff,
           NEW arrival \in {"on_time", "late", "absent"}, NEW clockedOut \in BOOLEAN,
           RecordAttendance(w, arrival, clockedOut)
    PROVE  PayInv'
<1> DEFINE x == [verification |-> "pending", arrival |-> arrival, clockedOut |-> clockedOut, allowance |-> 0]
<1>1. /\ attendance' = [attendance EXCEPT ![w] = x] /\ attendance[w].verification = "none"
      /\ UNCHANGED <<financeVars, salaries, payrolls, lossVars, allowances>>
  BY DEF RecordAttendance, PayUnchanged
<1>2. attendance[w].allowance = 0
  BY <1>1 DEF PayInv, AllowanceShape
<1>3. x \in Attendance /\ x.allowance = 0 /\ x.verification # "none"
  BY DEF Attendance
<1> HIDE DEF x
<1> QED
  BY <1>1, <1>2, <1>3, RecordEdited

LEMMA AttendanceMoved ==
    ASSUME LedgerOK, PayInv, UNCHANGED lossVars, NEW w \in Staff,
           ClockOut(w) \/ \E approve \in BOOLEAN : VerifyAttendance(w, approve)
    PROVE  PayInv'
<1>1. attendance \in [Staff -> Attendance] /\ attendance[w] \in Attendance
  BY DEF PayInv, AllowanceShape
<1>2. \E x \in Attendance : /\ x.allowance = attendance[w].allowance /\ x.verification # "none"
                            /\ attendance' = [attendance EXCEPT ![w] = x]
  <2>1. CASE ClockOut(w)
    <3> DEFINE x == [attendance[w] EXCEPT !.clockedOut = TRUE]
    <3>1. x \in Attendance /\ x.allowance = attendance[w].allowance /\ x.verification # "none"
      BY <1>1, <2>1 DEF Attendance, ClockOut
    <3>2. attendance' = [attendance EXCEPT ![w] = x]
      BY <2>1 DEF ClockOut
    <3> QED
      BY <3>1, <3>2
  <2>2. ASSUME NEW approve \in BOOLEAN, VerifyAttendance(w, approve)
        PROVE  \E x \in Attendance : /\ x.allowance = attendance[w].allowance /\ x.verification # "none"
                                     /\ attendance' = [attendance EXCEPT ![w] = x]
    <3> DEFINE x == [attendance[w] EXCEPT !.verification = IF approve THEN "approved" ELSE "rejected"]
    <3>1. x \in Attendance /\ x.allowance = attendance[w].allowance /\ x.verification # "none"
      BY <1>1 DEF Attendance
    <3>2. attendance' = [attendance EXCEPT ![w] = x]
      BY <2>2 DEF VerifyAttendance
    <3> QED
      BY <3>1, <3>2
  <2> QED
    BY <2>1, <2>2
<1>3. UNCHANGED <<financeVars, salaries, payrolls, lossVars, allowances>>
  BY DEF ClockOut, VerifyAttendance, PayUnchanged
<1> QED
  BY <1>2, <1>3, RecordEdited

\* An allowance changes its status, or what it is approved for.
LEMMA AllowanceEdited ==
    ASSUME LedgerOK, PayInv, UNCHANGED <<financeVars, salaries, payrolls, lossVars, attendance>>,
           NEW k \in DOMAIN allowances, NEW x \in Allowance, x.staff = allowances[k].staff,
           allowances[k].status \in Open, x.status # "paid",
           allowances' = [allowances EXCEPT ![k] = x]
    PROVE  PayInv'
<1>1. AllowanceShape
  BY DEF PayInv
<1>2. allowances \in Seq(Allowance)
  BY <1>1 DEF AllowanceShape
<1>3. /\ allowances' \in Seq(Allowance) /\ DOMAIN allowances' = DOMAIN allowances /\ allowances'[k] = x
      /\ \A j \in DOMAIN allowances : j # k => allowances'[j] = allowances[j]
  BY <1>2, OneEdited
<1>4. Len(allowances') = Len(allowances)
  BY <1>2, <1>3, LenProperties, SeqDomain
<1>5. AllowanceShape'
  BY <1>1, <1>3, <1>4 DEF AllowanceShape, OneAllowanceADay
<1>6. allowances[k].status # "paid"
  BY DEF Open
<1> QED
  BY <1>3, <1>5, <1>6, AllowancePaperwork

LEMMA AllowanceReviewed ==
    ASSUME LedgerOK, PayInv, UNCHANGED lossVars, NEW k \in DOMAIN allowances, NEW final \in BOOLEAN,
           ReviewAllowance(k, final)
    PROVE  PayInv'
<1>1. allowances[k] \in Allowance
  BY OneOf DEF PayInv, AllowanceShape
<1>2. PICK deduction \in Nat : Decide(k, deduction, final)
  BY <1>1, AllowanceAssumption DEF ReviewAllowance, Allowance, Amount
<1> DEFINE n == allowances[k].calculated
           x == IF ~final THEN [allowances[k] EXCEPT !.status = "pending_approval"]
                ELSE [allowances[k] EXCEPT !.status = IF deduction = n THEN "rejected" ELSE "approved",
                                           !.approvedAmount = n - deduction]
<1>3. /\ deduction <= n /\ allowances[k].status \in Open
      /\ UNCHANGED <<financeVars, salaries, payrolls, lossVars, attendance>>
  BY <1>2 DEF Decide, PayUnchanged, Open
<1>4. n \in Nat /\ n - deduction \in Nat
  BY <1>1, <1>3 DEF Allowance, Amount
<1>5. x \in Allowance /\ x.staff = allowances[k].staff /\ x.status # "paid"
  <2>1. CASE final
    BY <1>1, <1>4, <2>1 DEF Allowance
  <2>2. CASE ~final
    BY <1>1, <2>2 DEF Allowance
  <2> QED
    BY <2>1, <2>2
<1>6. allowances' = [allowances EXCEPT ![k] = x]
  <2>1. CASE ~final
    BY <1>2, <2>1 DEF Decide
  <2>2. CASE final
    <3>1. allowances' = [allowances EXCEPT ![k].status = IF deduction = n THEN "rejected" ELSE "approved",
                                           ![k].approvedAmount = n - deduction]
      BY <1>2, <2>2 DEF Decide
    <3>2. DOMAIN allowances' = DOMAIN allowances
      BY <3>1
    <3> QED
      BY <2>2, <3>1
  <2> QED
    BY <2>1, <2>2
<1> HIDE DEF x
<1> QED
  BY <1>3, <1>5, <1>6, AllowanceEdited

\* The record of employee w is corrected, or its allowance cancelled: the one that
\* was live is not, and the record names none or one that is not live.
LEMMA AllowanceCancelled ==
    ASSUME LedgerOK, PayInv, UNCHANGED <<financeVars, salaries, payrolls, lossVars>>,
           NEW k \in DOMAIN allowances, NEW w \in Staff, allowances[k].staff = w,
           attendance[w].allowance = k, allowances[k].status \in Open,
           allowances' = [allowances EXCEPT ![k].status = "cancelled"],
           NEW x \in Attendance, x.allowance = 0, attendance' = [attendance EXCEPT ![w] = x]
    PROVE  PayInv'
<1> DEFINE y == [allowances[k] EXCEPT !.status = "cancelled"]
<1>1. AllowanceShape /\ allowances \in Seq(Allowance) /\ allowances[k] \in Allowance
  BY OneOf DEF PayInv, AllowanceShape
<1>2. y \in Allowance /\ y.staff = w /\ y.status = "cancelled"
  BY <1>1 DEF Allowance
<1>3. allowances' = [allowances EXCEPT ![k] = y]
  OBVIOUS
<1> HIDE DEF y
<1>4. /\ allowances' \in Seq(Allowance) /\ DOMAIN allowances' = DOMAIN allowances /\ allowances'[k] = y
      /\ \A j \in DOMAIN allowances : j # k => allowances'[j] = allowances[j]
  BY <1>1, <1>2, <1>3, OneEdited
<1>5. Len(allowances') = Len(allowances)
  BY <1>1, <1>4, LenProperties, SeqDomain
<1>6. /\ attendance' \in [Staff -> Attendance] /\ attendance'[w] = x
      /\ \A v \in Staff \ {w} : attendance'[v] = attendance[v]
  BY <1>1 DEF AllowanceShape
<1>7. ASSUME NEW j \in DOMAIN allowances', allowances'[j].status \in Open \cup {"paid"}
      PROVE  attendance'[allowances'[j].staff].allowance = j
  <2>1. j # k /\ allowances'[j] = allowances[j]
    BY <1>2, <1>4, <1>7 DEF Open
  <2>2. attendance[allowances[j].staff].allowance = j
    BY <1>1, <1>4, <1>7, <2>1 DEF AllowanceShape, OneAllowanceADay
  <2>3. allowances[j] \in Allowance /\ j \in DOMAIN allowances
    BY <1>1, <1>4, OneOf
  <2>4. allowances[j].staff \in Staff \ {w}
    BY <2>1, <2>2, <2>3 DEF Allowance
  <2> QED
    BY <1>6, <2>1, <2>2, <2>4
<1>8. AllowanceShape'
  <2>1. OneAllowanceADay'
    BY <1>7 DEF OneAllowanceADay
  <2>2. ASSUME NEW v \in Staff
        PROVE  /\ attendance'[v].allowance # 0 =>
                    attendance'[v].allowance \in DOMAIN allowances'
                    /\ allowances'[attendance'[v].allowance].staff = v
               /\ attendance'[v].verification = "none" => attendance'[v].allowance = 0
    <3>1. CASE v = w
      BY <1>6, <3>1
    <3>2. CASE v # w
      <4>1. attendance'[v] = attendance[v]
        BY <1>6, <3>2
      <4>2. \A j \in DOMAIN allowances : allowances'[j].staff = allowances[j].staff
        BY <1>2, <1>4
      <4> QED
        BY <1>1, <1>4, <4>1, <4>2 DEF AllowanceShape
    <3> QED
      BY <3>1, <3>2
  <2> QED
    BY <1>1, <1>4, <1>5, <1>6, <2>1, <2>2 DEF AllowanceShape
<1>9. allowances[k].status # "paid" /\ allowances'[k].status # "paid"
  BY <1>2, <1>4 DEF Open
<1> QED
  BY <1>4, <1>8, <1>9, AllowancePaperwork

LEMMA AttendanceCorrected ==
    ASSUME LedgerOK, PayInv, UNCHANGED lossVars, NEW w \in Staff,
           NEW arrival \in {"on_time", "late", "absent"}, NEW clockedOut \in BOOLEAN,
           CorrectAttendance(w, arrival, clockedOut)
    PROVE  PayInv'
<1> DEFINE k == attendance[w].allowance
           open == k # 0 /\ allowances[k].status \in Open
           x == [verification |-> "pending", arrival |-> arrival, clockedOut |-> clockedOut,
                 allowance |-> IF open THEN 0 ELSE k]
<1>1. /\ attendance' = [attendance EXCEPT ![w] = x]
      /\ allowances' = IF open THEN [allowances EXCEPT ![k].status = "cancelled"] ELSE allowances
      /\ UNCHANGED <<financeVars, salaries, payrolls, lossVars>>
  BY DEF CorrectAttendance, PayUnchanged
<1>2. attendance[w] \in Attendance /\ (k # 0 => k \in DOMAIN allowances /\ allowances[k].staff = w)
  BY DEF PayInv, AllowanceShape
<1>3. k \in Nat
  BY <1>2 DEF Attendance
<1>4. x \in Attendance /\ x.verification # "none"
  BY <1>3 DEF Attendance
<1>5. CASE open
  <2>1. x.allowance = 0
    BY <1>5
  <2> HIDE DEF x
  <2> QED
    BY <1>1, <1>2, <1>4, <1>5, <2>1, AllowanceCancelled
<1>6. CASE ~open
  <2>1. x.allowance = k /\ allowances' = allowances
    BY <1>1, <1>6
  <2> HIDE DEF x
  <2> QED
    BY <1>1, <1>4, <2>1, RecordEdited
<1> QED
  BY <1>5, <1>6

LEMMA AllowanceStopped ==
    ASSUME LedgerOK, PayInv, UNCHANGED lossVars, NEW k \in DOMAIN allowances, CancelAllowance(k)
    PROVE  PayInv'
<1> DEFINE w == allowances[k].staff
           x == [attendance[w] EXCEPT !.allowance = 0]
<1>1. /\ allowances' = [allowances EXCEPT ![k].status = "cancelled"]
      /\ attendance' = IF attendance[w].allowance = k
                       THEN [attendance EXCEPT ![w].allowance = 0] ELSE attendance
      /\ UNCHANGED <<financeVars, salaries, payrolls, lossVars>>
      /\ allowances[k].status \in Open
  BY DEF CancelAllowance, PayUnchanged
<1>2. attendance[w].allowance = k
  BY <1>1 DEF PayInv, AllowanceShape, OneAllowanceADay
<1>3. w \in Staff
  <2>1. allowances[k] \in Allowance
    BY OneOf DEF PayInv, AllowanceShape
  <2> QED
    BY <2>1 DEF Allowance
<1>4. x \in Attendance /\ x.allowance = 0 /\ attendance' = [attendance EXCEPT ![w] = x]
  <2>1. attendance[w] \in Attendance
    BY <1>3 DEF PayInv, AllowanceShape
  <2> QED
    BY <1>1, <1>2, <2>1 DEF Attendance
<1> HIDE DEF x
<1> QED
  BY <1>1, <1>2, <1>3, <1>4, AllowanceCancelled

LEMMA AllowanceEarned ==
    ASSUME LedgerOK, PayInv, UNCHANGED lossVars, NEW w \in Staff, CalculateAllowance(w)
    PROVE  PayInv'
<1> DEFINE auto == attendance[w].arrival # "late" /\ ~ApprovalRequired
           x == [staff |-> w, calculated |-> AllowanceOf[w],
                 approvedAmount |-> IF auto THEN AllowanceOf[w] ELSE 0,
                 status |-> IF auto THEN "approved" ELSE "calculated",
                 via |-> "none", txn |-> 0, payroll |-> 0]
           N == Len(allowances) + 1
           y == [attendance[w] EXCEPT !.allowance = N]
<1>1. /\ allowances' = Append(allowances, x) /\ attendance' = [attendance EXCEPT ![w].allowance = N]
      /\ UNCHANGED <<financeVars, salaries, payrolls, lossVars>>
      /\ Len(allowances) < MaxAllowances /\ attendance[w].allowance = 0
      /\ attendance[w].verification = "approved" /\ AllowanceOf[w] > 0
  BY DEF CalculateAllowance, PayUnchanged, Eligible
<1>2. AllowanceShape /\ allowances \in Seq(Allowance)
  BY DEF PayInv, AllowanceShape
<1>3. x \in Allowance /\ x.staff = w /\ x.status # "paid"
  BY <1>1, AllowanceAssumption DEF Allowance, Amount
<1> HIDE DEF x
<1>4. /\ allowances' \in Seq(Allowance) /\ Len(allowances) \in Nat /\ DOMAIN allowances = 1..Len(allowances)
      /\ DOMAIN allowances' = DOMAIN allowances \cup {N} /\ N \notin DOMAIN allowances
      /\ \A j \in DOMAIN allowances : allowances'[j] = allowances[j]
      /\ allowances'[N] = x
  BY <1>1, <1>2, <1>3, OneAdded
<1>5. Len(allowances') = Len(allowances) + 1
  BY <1>1, <1>2, <1>3, AppendProperties
<1>6. Len(allowances') <= MaxAllowances
  BY <1>1, <1>4, <1>5, AllowanceAssumption
<1>7. y \in Attendance /\ y.allowance = N /\ y.verification # "none" /\ attendance' = [attendance EXCEPT ![w] = y]
  <2>1. attendance[w] \in Attendance
    BY <1>2 DEF AllowanceShape
  <2> QED
    BY <1>1, <1>4, <2>1 DEF Attendance
<1> HIDE DEF y
<1>8. /\ attendance' \in [Staff -> Attendance] /\ attendance'[w] = y
      /\ \A v \in Staff \ {w} : attendance'[v] = attendance[v]
  BY <1>2, <1>7 DEF AllowanceShape
<1>9. ASSUME NEW j \in DOMAIN allowances', allowances'[j].status \in Open \cup {"paid"}
      PROVE  attendance'[allowances'[j].staff].allowance = j
  <2>1. CASE j = N
    BY <1>3, <1>4, <1>7, <1>8, <2>1
  <2>2. CASE j # N
    <3>1. j \in DOMAIN allowances /\ allowances'[j] = allowances[j]
      BY <1>4, <2>2
    <3>2. attendance[allowances[j].staff].allowance = j
      BY <1>2, <1>9, <3>1 DEF AllowanceShape, OneAllowanceADay
    <3>3. allowances[j] \in Allowance /\ j # 0
      BY <1>2, <3>1, OneOf
    <3>4. allowances[j].staff \in Staff \ {w}
      BY <1>1, <3>2, <3>3 DEF Allowance
    <3> QED
      BY <1>8, <3>1, <3>2, <3>4
  <2> QED
    BY <2>1, <2>2
<1>10. AllowanceShape'
  <2>1. OneAllowanceADay'
    BY <1>9 DEF OneAllowanceADay
  <2>2. ASSUME NEW v \in Staff
        PROVE  /\ attendance'[v].allowance # 0 =>
                    attendance'[v].allowance \in DOMAIN allowances'
                    /\ allowances'[attendance'[v].allowance].staff = v
               /\ attendance'[v].verification = "none" => attendance'[v].allowance = 0
    <3>1. CASE v = w
      BY <1>3, <1>4, <1>7, <1>8, <3>1
    <3>2. CASE v # w
      <4>1. attendance'[v] = attendance[v]
        BY <1>8, <3>2
      <4> QED
        BY <1>2, <1>4, <4>1 DEF AllowanceShape
    <3> QED
      BY <3>1, <3>2
  <2> QED
    BY <1>4, <1>6, <1>8, <2>1, <2>2 DEF AllowanceShape
<1> QED
  BY <1>1, <1>3, <1>4, <1>10, AllowancePaperwork

\* Steps that leave the payrolls and the losses alone, and reverse no payroll.
LEMMA PayrollsStay ==
    ASSUME LedgerOK, PayInv, UNCHANGED <<salaries, payrolls, lossVars>>, Spares("payroll_payment"),
           DOMAIN allowances' = DOMAIN allowances
    PROVE  /\ PayrollShape' /\ LossShape' /\ DeductionsAddUp' /\ IncidentsAddUp'
           /\ Settled(ledger', "payroll_payment", PayrollClaims(payrolls'))
<1>1. /\ salaries' = salaries /\ payrolls' = payrolls
      /\ incidents' = incidents /\ deductions' = deductions
  BY DEF lossVars
<1>2. PayrollShape'
  <2>1. PayrollShape
    BY DEF PayInv
  <2> QED
    BY <1>1, <2>1 DEF PayrollShape, IsPaid, ListedOn
<1>3. LossShape' /\ DeductionsAddUp' /\ IncidentsAddUp'
  BY <1>1 DEF PayInv, LossShape, DeductionsAddUp, IncidentsAddUp, Undecided
<1>4. SameClaims(PayrollClaims(payrolls), PayrollClaims(payrolls))
  BY DEF SameClaims
<1>5. Settled(ledger', "payroll_payment", PayrollClaims(payrolls))
  BY <1>4, SettledSpared DEF PayInv
<1> QED
  BY <1>1, <1>2, <1>3, <1>5

\* Allowances are paid or unpaid: live ones stay live, whoever's they are.
LEMMA AllowancesRewritten ==
    ASSUME AllowanceShape, UNCHANGED attendance,
           allowances' = [k \in DOMAIN allowances |-> allowances'[k]],
           \A k \in DOMAIN allowances :
              /\ allowances'[k] \in Allowance /\ allowances'[k].staff = allowances[k].staff
              /\ allowances'[k].status \in Live => allowances[k].status \in Live
    PROVE  AllowanceShape' /\ allowances' \in Seq(Allowance) /\ DOMAIN allowances' = DOMAIN allowances
<1>1. allowances \in Seq(Allowance) /\ attendance' = attendance
  BY DEF AllowanceShape
<1>2. allowances' \in Seq(Allowance) /\ DOMAIN allowances' = DOMAIN allowances /\ Len(allowances') = Len(allowances)
  BY <1>1, AllRewritten
<1>3. OneAllowanceADay'
  BY <1>1, <1>2 DEF AllowanceShape, OneAllowanceADay, Live
<1>4. \A w \in Staff : attendance[w].allowance # 0 =>
         attendance[w].allowance \in DOMAIN allowances' /\ allowances'[attendance[w].allowance].staff = w
  BY <1>2 DEF AllowanceShape
<1> QED
  BY <1>1, <1>2, <1>3, <1>4 DEF AllowanceShape

LEMMA AllowancesPaidOut ==
    ASSUME LedgerOK, PayInv, UNCHANGED lossVars, NEW batch \in SUBSET (DOMAIN allowances),
           NEW r \in PaymentIds, NEW a \in AccountIds, PayAllowances(r, batch, a)
    PROVE  /\ PayInv' /\ LedgerOK'
           /\ Books("allowance_payment", 0, ApprovedIn(batch))
<1> DEFINE n == ApprovedIn(batch)
           N == Len(ledger) + 1
<1>1. /\ \A k \in batch : allowances[k].status = "approved"
      /\ PostFor(r, "allowance_payment", n, a, None, 0)
      /\ allowances' = [k \in DOMAIN allowances |->
            IF k \notin batch THEN allowances[k]
            ELSE [allowances[k] EXCEPT !.status = "paid", !.via = "direct", !.txn = N]]
      /\ UNCHANGED <<salaries, payrolls, lossVars>> /\ UNCHANGED attendance
  BY DEF PayAllowances, PayOut, PayUnchanged, NextNumber
<1>2. AllowanceShape /\ allowances \in Seq(Allowance) /\ AllowancesPaid
  BY DEF PayInv, AllowanceShape
<1>3. n \in Nat /\ n = Approved(allowances, batch)
  BY <1>2, ApprovedType DEF ApprovedIn, Approved
<1> HIDE DEF n
<1>4. Books("allowance_payment", 0, n) /\ LedgerOK'
  <2>1. "allowance_payment" \in PostingTypes
    BY DEF PostingTypes, PayTypes
  <2> QED
    BY <1>1, <1>3, <2>1, PayBooks
<1>5. /\ ledger \in Seq(Entry) /\ N \in Nat /\ N # 0 /\ N \notin EntryNumbers /\ EntryNumbers = 1..Len(ledger)
  BY DayNumber DEF LedgerOK
<1>6. \A k \in DOMAIN allowances :
         /\ allowances[k] \in Allowance
         /\ k \notin batch => allowances'[k] = allowances[k]
         /\ k \in batch => /\ allowances[k].status = "approved" /\ allowances'[k].status = "paid"
                           /\ allowances'[k].via = "direct" /\ allowances'[k].txn = N
                           /\ allowances'[k].approvedAmount = allowances[k].approvedAmount
                           /\ allowances'[k].staff = allowances[k].staff
                           /\ allowances'[k] \in Allowance
  <2>1. \A k \in DOMAIN allowances : allowances[k] \in Allowance
    BY <1>2, OneOf
  <2>2. ASSUME NEW k \in batch
        PROVE  /\ allowances'[k] = [allowances[k] EXCEPT !.status = "paid", !.via = "direct", !.txn = N]
    BY <1>1
  <2>3. \A k \in DOMAIN allowances : k \notin batch => allowances'[k] = allowances[k]
    BY <1>1
  <2>4. ASSUME NEW k \in batch
        PROVE  LET x == [allowances[k] EXCEPT !.status = "paid", !.via = "direct", !.txn = N]
               IN  /\ x.status = "paid" /\ x.via = "direct" /\ x.txn = N /\ x \in Allowance
                   /\ x.approvedAmount = allowances[k].approvedAmount /\ x.staff = allowances[k].staff
    <3>1. allowances[k] \in Allowance
      BY <2>1
    <3> QED
      BY <1>5, <3>1 DEF Allowance
  <2> QED
    BY <1>1, <2>1, <2>2, <2>3, <2>4
<1>7. allowances' = [k \in DOMAIN allowances |-> allowances'[k]]
  BY <1>1
<1>8. AllowanceShape' /\ allowances' \in Seq(Allowance) /\ DOMAIN allowances' = DOMAIN allowances
  <2>1. \A k \in DOMAIN allowances :
           /\ allowances'[k] \in Allowance /\ allowances'[k].staff = allowances[k].staff
           /\ allowances'[k].status \in Live => allowances[k].status \in Live
    BY <1>6 DEF Live, Open
  <2> QED
    BY <1>1, <1>2, <1>7, <2>1, AllowancesRewritten
<1>9. /\ DOMAIN ledger' = EntryNumbers \cup {N}
      /\ \A i \in EntryNumbers : /\ ledger'[i].type = ledger[i].type /\ ledger'[i].amount = ledger[i].amount
                                 /\ ledger'[i].posted <=> ledger[i].posted
      /\ ledger'[N].type = "allowance_payment" /\ ledger'[N].amount = n /\ ledger'[N].posted
  BY <1>4, <1>5 DEF Books, Turns, Added, EntryNumbers
<1>10. ASSUME NEW i \in EntryNumbers PROVE Approved(allowances', BatchOf(allowances', i)) = Approved(allowances, BatchOf(allowances, i))
  <2>1. \A k : k \in BatchOf(allowances', i) <=> k \in BatchOf(allowances, i)
    BY <1>5, <1>6, <1>8 DEF BatchOf
  <2>2. BatchOf(allowances', i) = BatchOf(allowances, i) /\ BatchOf(allowances, i) \subseteq DOMAIN allowances
    BY <2>1 DEF BatchOf
  <2>3. \A k \in BatchOf(allowances, i) : allowances'[k].approvedAmount = allowances[k].approvedAmount
    BY <1>6 DEF BatchOf
  <2> QED
    BY <1>2, <2>2, <2>3, ApprovedSame
<1>11. Approved(allowances', BatchOf(allowances', N)) = n
  <2>1. \A k : k \in BatchOf(allowances', N) <=> k \in batch
    BY <1>2, <1>5, <1>6, <1>8 DEF BatchOf, AllowancesPaid
  <2>2. BatchOf(allowances', N) = batch
    BY <2>1
  <2>3. \A k \in batch : allowances'[k].approvedAmount = allowances[k].approvedAmount
    BY <1>6
  <2> QED
    BY <1>2, <1>3, <2>2, <2>3, ApprovedSame
<1>12. ASSUME NEW k \in DOMAIN allowances'
       PROVE  /\ Paying(payrolls, k) = IF allowances'[k].status = "paid" /\ allowances'[k].via = "payroll"
                                       THEN {allowances'[k].payroll} ELSE {}
              /\ allowances'[k].status = "paid" /\ allowances'[k].via = "payroll" =>
                    allowances'[k].txn = payrolls[allowances'[k].payroll].txn
              /\ allowances'[k].status = "paid" /\ allowances'[k].via = "direct" =>
                    allowances'[k].txn \in EntryNumbers \cup {N}
                    /\ ledger'[allowances'[k].txn].type = "allowance_payment"
  <2>1. CASE k \in batch
    BY <1>2, <1>6, <1>8, <1>9, <2>1 DEF AllowancesPaid
  <2>2. CASE k \notin batch
    <3>1. allowances'[k] = allowances[k] /\ k \in DOMAIN allowances
      BY <1>6, <1>8, <2>2
    <3> QED
      BY <1>2, <1>9, <3>1 DEF AllowancesPaid
  <2> QED
    BY <2>1, <2>2
<1>13. ASSUME NEW i \in DOMAIN ledger', ledger'[i].type = "allowance_payment"
       PROVE  (IF ledger'[i].posted THEN ledger'[i].amount ELSE 0) = Approved(allowances', BatchOf(allowances', i))
  <2>1. CASE i = N
    BY <1>9, <1>11, <2>1
  <2>2. CASE i # N
    BY <1>2, <1>9, <1>10, <1>13, <2>2 DEF AllowancesPaid
  <2> QED
    BY <2>1, <2>2
<1>14. AllowancesPaid'
  <2>1. payrolls' = payrolls
    BY <1>1
  <2> QED
    BY <1>8, <1>9, <1>12, <1>13, <2>1 DEF AllowancesPaid, EntryNumbers
<1>15. Spares("payroll_payment")
  BY <1>4, BooksSpares
<1> QED
  BY <1>1, <1>4, <1>8, <1>14, <1>15, PayrollsStay DEF PayInv, n

LEMMA AllowancesReversed ==
    ASSUME LedgerOK, PayInv, UNCHANGED lossVars, NEW i \in EntryNumbers, ReverseAllowancePayment(i)
    PROVE  PayInv' /\ LedgerOK' /\ Unbooks({i}) /\ ledger[i].type = "allowance_payment"
<1> DEFINE back(k) == allowances[k].status = "paid" /\ allowances[k].txn = i
<1>1. /\ ledger[i].type = "allowance_payment" /\ ReverseEntry(i)
      /\ allowances' = [k \in DOMAIN allowances |-> IF back(k) THEN UnpaidAgain(k) ELSE allowances[k]]
      /\ UNCHANGED <<salaries, payrolls, lossVars>> /\ UNCHANGED attendance
  BY DEF ReverseAllowancePayment, PayUnchanged
<1>2. AllowanceShape /\ allowances \in Seq(Allowance) /\ AllowancesPaid
  BY DEF PayInv, AllowanceShape
<1>3. Unbooks({i}) /\ LedgerOK'
  BY <1>1, EntryUnbooks
<1>4. \A k \in DOMAIN allowances :
         /\ allowances[k] \in Allowance
         /\ ~back(k) => allowances'[k] = allowances[k]
         /\ back(k) => /\ allowances'[k].status = "approved"
                       /\ allowances'[k].staff = allowances[k].staff
                       /\ allowances'[k] \in Allowance
  <2>1. \A k \in DOMAIN allowances : allowances[k] \in Allowance
    BY <1>2, OneOf
  <2>2. \A k \in DOMAIN allowances : back(k) => allowances'[k] = UnpaidAgain(k)
    BY <1>1
  <2>3. \A k \in DOMAIN allowances : ~back(k) => allowances'[k] = allowances[k]
    BY <1>1
  <2>4. ASSUME NEW k \in DOMAIN allowances
        PROVE  UnpaidAgain(k).status = "approved" /\ UnpaidAgain(k).staff = allowances[k].staff
               /\ UnpaidAgain(k) \in Allowance
    <3>1. allowances[k] \in Allowance
      BY <2>1
    <3> QED
      BY <3>1 DEF Allowance, UnpaidAgain
  <2> HIDE DEF back
  <2> QED
    BY <2>1, <2>2, <2>3, <2>4
<1>5. allowances' = [k \in DOMAIN allowances |-> allowances'[k]]
  BY <1>1
<1>6. AllowanceShape' /\ allowances' \in Seq(Allowance) /\ DOMAIN allowances' = DOMAIN allowances
  <2>1. \A k \in DOMAIN allowances :
           /\ allowances'[k] \in Allowance /\ allowances'[k].staff = allowances[k].staff
           /\ allowances'[k].status \in Live => allowances[k].status \in Live
    BY <1>4 DEF Live, Open
  <2> QED
    BY <1>1, <1>2, <1>5, <2>1, AllowancesRewritten
<1>7. /\ EntryNumbers \subseteq DOMAIN ledger'
      /\ \A j \in EntryNumbers : /\ ledger'[j].type = ledger[j].type /\ ledger'[j].amount = ledger[j].amount
                                 /\ ledger'[j].posted <=> ledger[j].posted /\ j # i
      /\ \A j \in DOMAIN ledger' \ EntryNumbers : ledger'[j].type # "allowance_payment"
      /\ ledger[i].posted
  BY <1>3 DEF Unbooks, Turns, Added, EntryNumbers
<1>8. ASSUME NEW k \in DOMAIN allowances, back(k) PROVE Paying(payrolls, k) = {}
  <2>1. CASE allowances[k].via = "payroll"
    <3> DEFINE p == allowances[k].payroll
    <3>1. p \in Paying(payrolls, k) /\ payrolls[p].txn = i
      BY <1>2, <1>8, <2>1 DEF AllowancesPaid
    <3>2. p \in DOMAIN payrolls
      BY <3>1 DEF Paying
    <3>3. i # 0
      BY DayNumber
    <3>4. LiveIn(ledger, "payroll_payment", p) = {i}
      BY <3>1, <3>2, <3>3 DEF PayInv, Settled, PayrollClaims
    <3> QED
      BY <1>1, <3>4 DEF LiveIn
  <2>2. CASE allowances[k].via # "payroll"
    BY <1>2, <2>2 DEF AllowancesPaid
  <2> QED
    BY <2>1, <2>2
<1>9. ASSUME NEW j \in EntryNumbers, j # i
      PROVE  Approved(allowances', BatchOf(allowances', j)) = Approved(allowances, BatchOf(allowances, j))
  <2>1. \A k : k \in BatchOf(allowances', j) <=> k \in BatchOf(allowances, j)
    BY <1>4, <1>6, <1>9 DEF BatchOf
  <2>2. BatchOf(allowances', j) = BatchOf(allowances, j) /\ BatchOf(allowances, j) \subseteq DOMAIN allowances
    BY <2>1 DEF BatchOf
  <2>3. \A k \in BatchOf(allowances, j) : allowances'[k].approvedAmount = allowances[k].approvedAmount
    BY <1>4, <1>9 DEF BatchOf
  <2> QED
    BY <1>2, <2>2, <2>3, ApprovedSame
<1>10. Approved(allowances', BatchOf(allowances', i)) = 0
  <2>1. BatchOf(allowances', i) = {}
    BY <1>4, <1>6 DEF BatchOf
  <2> QED
    BY <1>6, <2>1, ApprovedType
<1>11. ASSUME NEW k \in DOMAIN allowances'
       PROVE  /\ Paying(payrolls, k) = IF allowances'[k].status = "paid" /\ allowances'[k].via = "payroll"
                                       THEN {allowances'[k].payroll} ELSE {}
              /\ allowances'[k].status = "paid" /\ allowances'[k].via = "payroll" =>
                    allowances'[k].txn = payrolls[allowances'[k].payroll].txn
              /\ allowances'[k].status = "paid" /\ allowances'[k].via = "direct" =>
                    allowances'[k].txn \in EntryNumbers
                    /\ ledger'[allowances'[k].txn].type = "allowance_payment"
  <2>1. CASE back(k)
    <3>1. allowances'[k].status = "approved" /\ Paying(payrolls, k) = {}
      BY <1>4, <1>6, <1>8, <2>1
    <3> QED
      BY <3>1
  <2>2. CASE ~back(k)
    <3>1. allowances'[k] = allowances[k] /\ k \in DOMAIN allowances
      BY <1>4, <1>6, <2>2
    <3> QED
      BY <1>2, <1>7, <3>1 DEF AllowancesPaid
  <2> QED
    BY <2>1, <2>2
<1>12. ASSUME NEW j \in DOMAIN ledger', ledger'[j].type = "allowance_payment"
       PROVE  (IF ledger'[j].posted THEN ledger'[j].amount ELSE 0) = Approved(allowances', BatchOf(allowances', j))
  <2>1. CASE j = i
    BY <1>7, <1>10, <2>1
  <2>2. CASE j # i
    BY <1>2, <1>7, <1>9, <1>12, <2>2 DEF AllowancesPaid
  <2> QED
    BY <2>1, <2>2
<1>13. AllowancesPaid'
  <2>1. payrolls' = payrolls
    BY <1>1
  <2> QED
    BY <1>6, <1>7, <1>11, <1>12, <2>1 DEF AllowancesPaid, EntryNumbers
<1>14. Spares("payroll_payment")
  BY <1>1, <1>3, UnbooksSpares
<1> QED
  BY <1>1, <1>3, <1>6, <1>13, <1>14, PayrollsStay DEF PayInv

\* The allowances desk, and what it leaves of the ledger.
LEMMA AllowancesKept ==
    ASSUME LedgerOK, PayInv, AllowanceStep, UNCHANGED lossVars
    PROVE  PayInv' /\ LedgerOK' /\ \A t : t # "allowance_payment" /\ t # "reversal" => Spares(t)
<1>1. CASE UNCHANGED financeVars
  <2>1. LedgerOK' /\ \A t : Spares(t)
    BY <1>1, FinanceUnchanged
  <2>2. ASSUME NEW w \in Staff, NEW arrival \in {"on_time", "late", "absent"}, NEW clockedOut \in BOOLEAN,
               RecordAttendance(w, arrival, clockedOut)
        PROVE  PayInv'
    BY <2>2, AttendanceRecorded
  <2>3. ASSUME NEW w \in Staff, NEW arrival \in {"on_time", "late", "absent"}, NEW clockedOut \in BOOLEAN,
               CorrectAttendance(w, arrival, clockedOut)
        PROVE  PayInv'
    BY <2>3, AttendanceCorrected
  <2>4. ASSUME NEW w \in Staff, ClockOut(w) \/ \E approve \in BOOLEAN : VerifyAttendance(w, approve)
        PROVE  PayInv'
    BY <2>4, AttendanceMoved
  <2>5. ASSUME NEW w \in Staff, CalculateAllowance(w) PROVE PayInv'
    BY <2>5, AllowanceEarned
  <2>6. ASSUME NEW k \in DOMAIN allowances, NEW final \in BOOLEAN, ReviewAllowance(k, final) PROVE PayInv'
    BY <2>6, AllowanceReviewed
  <2>7. ASSUME NEW k \in DOMAIN allowances, CancelAllowance(k) PROVE PayInv'
    BY <2>7, AllowanceStopped
  <2>8. ASSUME NEW batch \in SUBSET (DOMAIN allowances), NEW r \in PaymentIds, NEW a \in AccountIds,
               PayAllowances(r, batch, a)
        PROVE  PayInv'
    BY <2>8, AllowancesPaidOut
  <2>9. ASSUME NEW i \in EntryNumbers, ReverseAllowancePayment(i) PROVE PayInv'
    BY <2>9, AllowancesReversed
  <2>10. CASE \E w \in Staff :
                 \/ \E arrival \in {"on_time", "late", "absent"}, clockedOut \in BOOLEAN :
                       \/ RecordAttendance(w, arrival, clockedOut)
                       \/ CorrectAttendance(w, arrival, clockedOut)
                 \/ ClockOut(w)
                 \/ \E approve \in BOOLEAN : VerifyAttendance(w, approve)
                 \/ CalculateAllowance(w)
    BY <2>1, <2>2, <2>3, <2>4, <2>5, <2>10
  <2>11. CASE \E k \in DOMAIN allowances : \/ \E final \in BOOLEAN : ReviewAllowance(k, final)
                                           \/ CancelAllowance(k)
    BY <2>1, <2>6, <2>7, <2>11
  <2> QED
    BY <2>1, <2>8, <2>9, <2>10, <2>11 DEF AllowanceStep
<1>2. CASE ~UNCHANGED financeVars
  <2>1. CASE \E batch \in SUBSET (DOMAIN allowances), r \in PaymentIds, a \in AccountIds :
                PayAllowances(r, batch, a)
    BY <2>1, AllowancesPaidOut, BooksSpares
  <2>2. CASE \E i \in EntryNumbers : ReverseAllowancePayment(i)
    <3>1. PICK i \in EntryNumbers : ReverseAllowancePayment(i)
      BY <2>2
    <3>2. PayInv' /\ LedgerOK' /\ Unbooks({i}) /\ ledger[i].type = "allowance_payment"
      BY <3>1, AllowancesReversed
    <3> QED
      BY <3>2, UnbooksSpares
  <2>3. \/ \E batch \in SUBSET (DOMAIN allowances), r \in PaymentIds, a \in AccountIds :
              PayAllowances(r, batch, a)
        \/ \E i \in EntryNumbers : ReverseAllowancePayment(i)
    <3>1. \A w \in Staff : \A arrival, clockedOut, approve :
             /\ ~RecordAttendance(w, arrival, clockedOut) /\ ~CorrectAttendance(w, arrival, clockedOut)
             /\ ~ClockOut(w) /\ ~VerifyAttendance(w, approve) /\ ~CalculateAllowance(w)
      BY <1>2 DEF RecordAttendance, CorrectAttendance, ClockOut, VerifyAttendance, CalculateAllowance
    <3>2. \A k, final : ~ReviewAllowance(k, final) /\ ~CancelAllowance(k)
      BY <1>2 DEF ReviewAllowance, Decide, CancelAllowance
    <3> QED
      BY <3>1, <3>2 DEF AllowanceStep
  <2> QED
    BY <2>1, <2>2, <2>3
<1> QED
  BY <1>1, <1>2

-----------------------------------------------------------------------------
(* What a payroll is worked out to be *)

\* What holds of 0, and of n + 1 when it holds of n, holds up to m.
LEMMA IntervalInduction ==
    ASSUME NEW m \in Nat, NEW G, 0 \in G, \A n \in 0..m : n \in G /\ n # m => n + 1 \in G
    PROVE  0..m \subseteq G
<1> DEFINE Good == {T \in SUBSET (0..m) : T # {} => \E x \in T : \A y \in T : x <= y}
           C == (0..m) \ G
<1>1. {} \in Good
  OBVIOUS
<1>2. ASSUME NEW T \in SUBSET C, NEW z \in C, T \in Good, z \notin T PROVE T \cup {z} \in Good
  <2>1. CASE T = {}
    BY <2>1
  <2>2. CASE T # {}
    <3>1. PICK x \in T : \A y \in T : x <= y
      BY <1>2, <2>2
    <3>2. CASE z <= x
      <4>1. \A y \in T \cup {z} : z <= y
        BY <3>1, <3>2
      <4> QED
        BY <4>1
    <3>3. CASE ~(z <= x)
      <4>1. \A y \in T \cup {z} : x <= y
        BY <3>1, <3>3
      <4> QED
        BY <3>1, <4>1
    <3> QED
      BY <3>2, <3>3
  <2> QED
    BY <2>1, <2>2
<1>3. IsFiniteSet(C)
  <2>1. IsFiniteSet(0..m) /\ C \subseteq 0..m
    BY FS_Interval
  <2> HIDE DEF C
  <2> QED
    BY <2>1, FS_Subset
<1> HIDE DEF Good
<1>4. C \in Good
  BY <1>1, <1>2, <1>3, FiniteInduction
<1>5. ASSUME C # {} PROVE FALSE
  <2>1. PICK x \in C : \A y \in C : x <= y
    BY <1>4, <1>5 DEF Good
  <2>2. x # 0 /\ x - 1 \in 0..m /\ x - 1 # m /\ (x - 1) + 1 = x
    OBVIOUS
  <2>3. x - 1 \in G
    BY <2>1, <2>2
  <2> QED
    BY <2>2, <2>3
<1> QED
  BY <1>5

\* From l, what the numbers in D take in their turn: as much as P says, or what is left.
Turn(f, D, P, d) == IF d \in D THEN f[d - 1] - Least(P[d], f[d - 1]) ELSE f[d - 1]
LeavesOf(f, n, l, D, P) == f = [d \in 0..n |-> IF d = 0 THEN l ELSE Turn(f, D, P, d)]

LEMMA LeavesExist ==
    ASSUME NEW m \in Nat, NEW l, NEW D, NEW P
    PROVE  \E f : LeavesOf(f, m, l, D, P)
<1> DEFINE G == {n \in 0..m : \E f : LeavesOf(f, n, l, D, P)}
<1>1. 0 \in G
  <2>1. LeavesOf([d \in 0..0 |-> l], 0, l, D, P)
    BY DEF LeavesOf
  <2> QED
    BY <2>1
<1>2. ASSUME NEW n \in 0..m, n \in G, n # m PROVE n + 1 \in G
  <2>1. PICK f : LeavesOf(f, n, l, D, P)
    BY <1>2
  <2> DEFINE g == [d \in 0..(n + 1) |-> IF d = n + 1 THEN Turn(f, D, P, d) ELSE f[d]]
  <2>2. \A d \in 0..n : g[d] = f[d] /\ f[d] = IF d = 0 THEN l ELSE Turn(f, D, P, d)
    BY <2>1 DEF LeavesOf
  <2>3. \A d \in 1..(n + 1) : Turn(g, D, P, d) = Turn(f, D, P, d)
    <3>1. \A d \in 1..(n + 1) : d - 1 \in 0..n
      OBVIOUS
    <3> HIDE DEF g
    <3> QED
      BY <2>2, <3>1 DEF Turn
  <2>4. \A d \in 0..(n + 1) : g[d] = IF d = 0 THEN l ELSE Turn(g, D, P, d)
    <3>1. ASSUME NEW d \in 0..(n + 1), d = n + 1 PROVE g[d] = Turn(g, D, P, d) /\ d # 0
      BY <2>3, <3>1
    <3>2. ASSUME NEW d \in 0..(n + 1), d # n + 1 PROVE g[d] = IF d = 0 THEN l ELSE Turn(g, D, P, d)
      <4>1. d \in 0..n /\ (d # 0 => d \in 1..(n + 1))
        BY <3>2
      <4> HIDE DEF g
      <4> QED
        BY <2>2, <2>3, <4>1
    <3> HIDE DEF g
    <3> QED
      BY <3>1, <3>2
  <2>5. g = [d \in 0..(n + 1) |-> g[d]]
    OBVIOUS
  <2>6. LeavesOf(g, n + 1, l, D, P)
    <3> HIDE DEF g
    <3> QED
      BY <2>4, <2>5 DEF LeavesOf
  <2>7. n + 1 \in 0..m
    BY <1>2
  <2> QED
    BY <2>6, <2>7
<1> HIDE DEF G
<1>3. m \in G
  BY <1>1, <1>2, IntervalInduction
<1> QED
  BY <1>3 DEF G

\* f starts at l and never rises, and falls only where D says.
Falls(f, m, l, D) ==
    /\ f \in [0..m -> Nat] /\ f[0] = l /\ f[m] <= l
    /\ \A d \in 1..m : f[d] <= f[d - 1] /\ (d \notin D => f[d] = f[d - 1])

LEMMA LeavesFall ==
    ASSUME NEW m \in Nat, NEW l \in Nat, NEW D, NEW P \in [D -> Nat],
           NEW f, LeavesOf(f, m, l, D, P)
    PROVE  Falls(f, m, l, D)
<1>1. /\ DOMAIN f = 0..m /\ f[0] = l
      /\ \A d \in 1..m : f[d] = Turn(f, D, P, d)
  BY DEF LeavesOf
<1>2. \A d \in 1..m : f[d - 1] \in Nat =>
         f[d] \in Nat /\ f[d] <= f[d - 1] /\ (d \notin D => f[d] = f[d - 1])
  BY <1>1 DEF Turn, Least
<1> DEFINE G == {n \in 0..m : f[n] \in Nat /\ f[n] <= l}
<1>3. 0 \in G
  BY <1>1
<1>4. ASSUME NEW n \in 0..m, n \in G, n # m PROVE n + 1 \in G
  <2>1. n + 1 \in 1..m /\ (n + 1) - 1 = n
    BY <1>4
  <2>2. f[n + 1] \in Nat /\ f[n + 1] <= f[n]
    BY <1>2, <1>4, <2>1
  <2> QED
    BY <1>4, <2>1, <2>2
<1> HIDE DEF G
<1>5. 0..m \subseteq G
  BY <1>3, <1>4, IntervalInduction
<1>6. \A n \in 0..m : f[n] \in Nat /\ f[n] <= l
  BY <1>5 DEF G
<1>7. \A d \in 1..m : d - 1 \in 0..m
  OBVIOUS
<1>8. f = [n \in 0..m |-> f[n]]
  BY DEF LeavesOf
<1>9. f \in [0..m -> Nat] /\ m \in 0..m
  BY <1>6, <1>8
<1>10. \A d \in 1..m : f[d] <= f[d - 1] /\ (d \notin D => f[d] = f[d - 1])
  BY <1>2, <1>6, <1>7
<1> QED
  BY <1>1, <1>6, <1>9, <1>10 DEF Falls

LEMMA GrossType ==
    ASSUME PayInv, NEW p \in DOMAIN payrolls, NEW earnings \in Seq(Earning), NEW w \in Staff
    PROVE  Gross(p, earnings, w) \in Nat /\ AllowancesFor(p, w) \subseteq DOMAIN allowances
<1>1. AllowancesFor(p, w) \subseteq DOMAIN allowances /\ allowances \in Seq(Allowance)
  BY DEF AllowancesFor, PayInv, AllowanceShape
<1>2. ApprovedIn(AllowancesFor(p, w)) \in Nat
  <2>1. Approved(allowances, AllowancesFor(p, w)) \in Nat
    BY <1>1, ApprovedType
  <2> QED
    BY <2>1 DEF Approved, ApprovedIn
<1>3. EarningsFor(earnings, w) \in Nat
  <2> DEFINE E == {n \in DOMAIN earnings : earnings[n].staff = w}
  <2>1. IsFiniteSet(E)
    BY SeqDomain, FS_Subset
  <2>2. \A e \in E : earnings[e].amount \in Nat
    <3>1. \A e \in E : earnings[e] \in Earning
      BY OneOf
    <3> QED
      BY <3>1 DEF Earning, Amount
  <2> HIDE DEF E
  <2>3. SumFunction([e \in E |-> earnings[e].amount]) \in Nat
    BY <2>1, <2>2, SumType
  <2> QED
    BY <2>3 DEF E, EarningsFor
<1>4. salaries[w].basic \in Nat
  BY DEF PayInv, PayrollShape, Salary
<1> QED
  BY <1>1, <1>2, <1>3, <1>4 DEF Gross

LEMMA PlannedType ==
    ASSUME PayInv, NEW p, NEW w, NEW d, Due(p, w, d)
    PROVE  Planned(d) \in Nat
<1>1. /\ d \in DOMAIN deductions /\ deductions \in Seq(Deduction) /\ incidents \in Seq(Incident)
      /\ deductions[d].incident \in {0} \cup DOMAIN incidents
  BY DEF Due, PayInv, LossShape
<1>2. deductions[d].instalment \in Nat /\ deductions[d].remaining \in Nat
  <2>1. deductions[d] \in Deduction
    BY <1>1, OneOf
  <2> QED
    BY <2>1 DEF Deduction, Amount
<1>3. deductions[d].incident # 0 => incidents[deductions[d].incident].outstanding \in Nat
  <2>1. deductions[d].incident # 0 => incidents[deductions[d].incident] \in Incident
    BY <1>1, OneOf
  <2> QED
    BY <2>1 DEF Incident
<1> QED
  BY <1>2, <1>3 DEF Planned, Least

\* What is left after each deduction falls, from a share of gross, by what it takes.
LEMMA LeftIs ==
    ASSUME PayInv, NEW p \in DOMAIN payrolls, NEW earnings \in Seq(Earning), NEW w \in Staff,
           NEW left, left = LeftAfter(p, earnings, w)
    PROVE  /\ left \in [0..MaxDeductions -> Nat] /\ left[0] <= Gross(p, earnings, w)
           /\ left[MaxDeductions] <= left[0]
           /\ \A d \in DeductionNumbers : /\ left[d] <= left[d - 1]
                                          /\ d \notin DOMAIN deductions => left[d] = left[d - 1]
<1> DEFINE g == Gross(p, earnings, w)
           l == (g * CapPercent) \div 100
           D == {d \in DeductionNumbers : Due(p, w, d)}
           P == [d \in D |-> Planned(d)]
<1>1. g \in Nat /\ MaxDeductions \in Nat /\ CapPercent \in 0..100
  BY GrossType, PayrollAssumption
<1> HIDE DEF g
<1>2. l \in Nat /\ l <= g
  <2>1. g * CapPercent \in Nat /\ g * CapPercent <= g * 100
    BY <1>1
  <2> DEFINE n == g * CapPercent
  <2> HIDE DEF n
  <2>2. n \in Nat /\ n <= g * 100
    BY <2>1 DEF n
  <2>3. n \div 100 \in Nat /\ n \div 100 <= g
    BY <1>1, <2>2
  <2> QED
    BY <2>3 DEF n
<1>3. P \in [D -> Nat]
  BY PlannedType
<1>4. \A d \in 1..MaxDeductions : d \in D <=> Due(p, w, d)
  BY DEF DeductionNumbers
<1> DEFINE Is(f) == f = [d \in 0..MaxDeductions |->
                            IF d = 0 THEN (Gross(p, earnings, w) * CapPercent) \div 100
                            ELSE IF Due(p, w, d) THEN f[d - 1] - Least(Planned(d), f[d - 1])
                            ELSE f[d - 1]]
<1>5. ASSUME NEW f PROVE Is(f) <=> LeavesOf(f, MaxDeductions, l, D, P)
  <2>1. ASSUME NEW d \in 0..MaxDeductions
        PROVE  (IF d = 0 THEN (Gross(p, earnings, w) * CapPercent) \div 100
                ELSE IF Due(p, w, d) THEN f[d - 1] - Least(Planned(d), f[d - 1])
                ELSE f[d - 1])
               = IF d = 0 THEN l ELSE Turn(f, D, P, d)
    <3>1. CASE d = 0
      BY <3>1 DEF g
    <3>2. CASE d # 0
      <4>1. d \in D <=> Due(p, w, d)
        BY <1>1, <1>4, <3>2
      <4>2. d \in D => P[d] = Planned(d)
        OBVIOUS
      <4> HIDE DEF D, P
      <4> QED
        BY <3>2, <4>1, <4>2 DEF Turn
    <3> QED
      BY <3>1, <3>2
  <2> HIDE DEF l, D, P
  <2> QED
    BY <2>1 DEF LeavesOf
<1>6. \E f : Is(f)
  <2> HIDE DEF Is, l, D, P
  <2>1. \E f : LeavesOf(f, MaxDeductions, l, D, P)
    BY <1>1, LeavesExist
  <2> QED
    BY <1>5, <2>1
<1>7. LeftAfter(p, earnings, w) = CHOOSE f : Is(f)
  BY DEF LeftAfter
<1>8. Is(left)
  <2> HIDE DEF Is
  <2> QED
    BY <1>6, <1>7
<1>9. LeavesOf(left, MaxDeductions, l, D, P)
  BY <1>5, <1>8
<1>10. \A d \in DeductionNumbers \ DOMAIN deductions : d \notin D
  BY DEF Due
<1> HIDE DEF Is, l, D, P
<1>11. /\ left \in [0..MaxDeductions -> Nat] /\ left[0] = l /\ left[MaxDeductions] <= l
       /\ \A d \in 1..MaxDeductions : left[d] <= left[d - 1] /\ (d \notin D => left[d] = left[d - 1])
  <2>1. MaxDeductions \in Nat /\ l \in Nat
    BY <1>1, <1>2
  <2>2. Falls(left, MaxDeductions, l, D)
    BY <2>1, <1>3, <1>9, LeavesFall
  <2> QED
    BY <2>2 DEF Falls
<1> QED
  BY <1>1, <1>2, <1>10, <1>11 DEF DeductionNumbers, g

\* What an employee is paid.
LEMMA ItemIs ==
    ASSUME PayInv, NEW p \in DOMAIN payrolls, NEW earnings \in Seq(Earning), NEW w \in Staff
    PROVE  /\ ItemFor(p, earnings, w) \in PayItem
           /\ ItemFor(p, earnings, w).allowances \subseteq DOMAIN allowances
           /\ \A d \in DeductionNumbers \ DOMAIN deductions : ItemFor(p, earnings, w).takes[d] = 0
<1> DEFINE left == LeftAfter(p, earnings, w)
           g == Gross(p, earnings, w)
           takes == [d \in DeductionNumbers |-> left[d - 1] - left[d]]
           net == g - (left[0] - left[MaxDeductions])
<1>1. ItemFor(p, earnings, w) = [allowances |-> AllowancesFor(p, w), takes |-> takes, net |-> net]
  BY DEF ItemFor
<1>2. g \in Nat /\ AllowancesFor(p, w) \subseteq DOMAIN allowances
  BY GrossType
<1>3. AllowancesFor(p, w) \in SUBSET (1..MaxAllowances)
  <2>1. allowances \in Seq(Allowance) /\ Len(allowances) <= MaxAllowances
    BY DEF PayInv, AllowanceShape
  <2>2. DOMAIN allowances = 1..Len(allowances) /\ Len(allowances) \in Nat
    BY <2>1, SeqDomain
  <2> QED
    BY <1>2, <2>1, <2>2, AllowanceAssumption
<1> HIDE DEF left, g
<1>4. /\ left \in [0..MaxDeductions -> Nat] /\ left[0] <= g
      /\ left[MaxDeductions] <= left[0]
      /\ \A d \in DeductionNumbers : /\ left[d] <= left[d - 1]
                                     /\ d \notin DOMAIN deductions => left[d] = left[d - 1]
  BY LeftIs DEF left, g
<1>5. MaxDeductions \in Nat /\ \A d \in DeductionNumbers : d \in 0..MaxDeductions /\ d - 1 \in 0..MaxDeductions
  BY PayrollAssumption DEF DeductionNumbers
<1>6. takes \in [DeductionNumbers -> Nat]
  <2>1. ASSUME NEW d \in DeductionNumbers PROVE left[d - 1] - left[d] \in Nat
    BY <1>4, <1>5
  <2> QED
    BY <2>1
<1>7. net \in Nat
  <2>1. left[0] \in Nat /\ left[MaxDeductions] \in Nat
    BY <1>4, <1>5
  <2> QED
    BY <1>2, <1>4, <2>1
<1>8. \A d \in DeductionNumbers \ DOMAIN deductions : takes[d] = 0
  BY <1>4, <1>5
<1> HIDE DEF takes, net
<1> QED
  BY <1>1, <1>2, <1>3, <1>6, <1>7, <1>8 DEF PayItem

-----------------------------------------------------------------------------
(* Payrolls before and after their payment *)

\* What payroll x lists, and what it takes, for allowances and deductions that exist.
Lists(x) == UNION {item.allowances : item \in {x.items[w] : w \in DOMAIN x.items}}
FitsPayroll(x) ==
    /\ Lists(x) \subseteq DOMAIN allowances
    /\ \A w \in DOMAIN x.items : \A d \in DeductionNumbers \ DOMAIN deductions : x.items[w].takes[d] = 0

LEMMA ListsIs == ASSUME NEW ps, NEW p PROVE ListedOn(ps, p) = Lists(ps[p])
BY DEF ListedOn, Lists

PayrollTo(p, x) == payrolls' = [payrolls EXCEPT ![p] = x]

\* Payroll p becomes x: paid if it was, with the same entry and the same items.
LEMMA PayrollEdited ==
    ASSUME LedgerOK, PayInv, NotPayroll, NEW p \in DOMAIN payrolls, NEW x \in PayrollDoc,
           PayrollTo(p, x), x.txn = payrolls[p].txn, FitsPayroll(x),
           x.status \in {"paid", "locked"} <=> IsPaid(payrolls, p),
           IsPaid(payrolls, p) => x.items = payrolls[p].items /\ x.total = payrolls[p].total
    PROVE  PayInv'
<1>1. /\ ledger' = ledger /\ salaries' = salaries /\ incidents' = incidents /\ deductions' = deductions
      /\ allowances' = allowances /\ attendance' = attendance
  BY DEF NotPayroll, financeVars, allowanceVars, lossVars
<1>2. PayrollShape /\ payrolls \in Seq(PayrollDoc) /\ AllowancesPaid /\ DeductionsAddUp
  BY DEF PayInv, PayrollShape
<1>3. /\ payrolls' \in Seq(PayrollDoc) /\ DOMAIN payrolls' = DOMAIN payrolls /\ payrolls'[p] = x
      /\ \A j \in DOMAIN payrolls : j # p => payrolls'[j] = payrolls[j]
  BY <1>2, OneEdited DEF PayrollTo
<1>4. Len(payrolls') = Len(payrolls)
  BY <1>2, <1>3, LenProperties, SeqDomain
<1>5. AllowanceShape' /\ LossShape' /\ IncidentsAddUp'
  BY <1>1 DEF PayInv, AllowanceShape, OneAllowanceADay, LossShape, Undecided, IncidentsAddUp
<1>6. \A q \in DOMAIN payrolls : IsPaid(payrolls', q) <=> IsPaid(payrolls, q)
  BY <1>3 DEF IsPaid
<1>7. ASSUME NEW q \in DOMAIN payrolls, IsPaid(payrolls, q)
      PROVE  /\ payrolls'[q].items = payrolls[q].items
             /\ ListedOn(payrolls', q) = ListedOn(payrolls, q)
             /\ \A d : Take(payrolls', q, d) = Take(payrolls, q, d)
  <2>1. payrolls'[q].items = payrolls[q].items
    BY <1>3, <1>7
  <2> QED
    BY <2>1 DEF ListedOn, Take
<1>8. PayrollShape'
  <2>1. ASSUME NEW q \in DOMAIN payrolls'
        PROVE  /\ payrolls'[q].txn # 0 <=> IsPaid(payrolls', q) /\ payrolls'[q].total > 0
               /\ ListedOn(payrolls', q) \subseteq DOMAIN allowances
               /\ \A w \in DOMAIN payrolls'[q].items :
                     \A d \in DeductionNumbers \ DOMAIN deductions : payrolls'[q].items[w].takes[d] = 0
    <3>1. CASE q = p
      <4>1. payrolls[p].txn # 0 <=> IsPaid(payrolls, p) /\ payrolls[p].total > 0
        BY <1>2 DEF PayrollShape
      <4>2. x.txn # 0 <=> IsPaid(payrolls', p) /\ x.total > 0
        BY <1>6, <4>1
      <4> QED
        BY <1>3, <3>1, <4>2, ListsIs DEF FitsPayroll
    <3>2. CASE q # p
      <4>1. payrolls'[q] = payrolls[q] /\ q \in DOMAIN payrolls
        BY <1>3, <3>2
      <4>2. IsPaid(payrolls', q) <=> IsPaid(payrolls, q)
        BY <1>6, <4>1
      <4>3. ListedOn(payrolls', q) = ListedOn(payrolls, q)
        BY <4>1 DEF ListedOn
      <4>4. /\ payrolls[q].txn # 0 <=> IsPaid(payrolls, q) /\ payrolls[q].total > 0
            /\ ListedOn(payrolls, q) \subseteq DOMAIN allowances
            /\ \A w \in DOMAIN payrolls[q].items :
                  \A d \in DeductionNumbers \ DOMAIN deductions : payrolls[q].items[w].takes[d] = 0
        BY <1>2, <4>1 DEF PayrollShape
      <4> QED
        BY <4>1, <4>2, <4>3, <4>4
    <3> QED
      BY <3>1, <3>2
  <2>2. salaries' \in [Staff -> Salary] /\ Len(payrolls') <= MaxPayrolls
    BY <1>1, <1>2, <1>4 DEF PayrollShape
  <2>3. /\ \A q \in DOMAIN payrolls' :
              /\ payrolls'[q].txn # 0 <=> IsPaid(payrolls', q) /\ payrolls'[q].total > 0
              /\ ListedOn(payrolls', q) \subseteq DOMAIN allowances'
              /\ \A w \in DOMAIN payrolls'[q].items :
                    \A d \in DeductionNumbers \ DOMAIN deductions' : payrolls'[q].items[w].takes[d] = 0
    BY <1>1, <2>1
  <2> QED
    BY <1>3, <2>2, <2>3 DEF PayrollShape
<1>9. Settled(ledger', "payroll_payment", PayrollClaims(payrolls'))
  <2>1. SameClaims(PayrollClaims(payrolls), PayrollClaims(payrolls'))
    <3>1. \A q \in DOMAIN payrolls : payrolls'[q].txn = payrolls[q].txn
      BY <1>3
    <3>2. \A q \in DOMAIN payrolls : payrolls[q].txn # 0 => payrolls'[q].total = payrolls[q].total
      BY <1>2, <1>3 DEF PayrollShape
    <3> QED
      BY <1>3, <3>1, <3>2 DEF SameClaims, PayrollClaims
  <2>2. Spares("payroll_payment")
    BY <1>1, LedgerStays
  <2> QED
    BY <2>1, <2>2, SettledSpared DEF PayInv
<1>10. AllowancesPaid'
  <2>1. ASSUME NEW k PROVE Paying(payrolls', k) = Paying(payrolls, k)
    <3>1. \A q : q \in Paying(payrolls', k) <=> q \in Paying(payrolls, k)
      BY <1>3, <1>6, <1>7 DEF Paying
    <3> QED
      BY <3>1
  <2>2. \A k \in DOMAIN allowances : allowances[k].status = "paid" /\ allowances[k].via = "payroll" =>
           payrolls'[allowances[k].payroll].txn = payrolls[allowances[k].payroll].txn
    <3>1. \A k \in DOMAIN allowances : allowances[k].status = "paid" /\ allowances[k].via = "payroll" =>
             allowances[k].payroll \in DOMAIN payrolls
      BY <1>2 DEF AllowancesPaid, Paying
    <3> QED
      BY <1>3, <3>1
  <2> QED
    BY <1>1, <1>2, <2>1, <2>2 DEF AllowancesPaid, EntryNumbers
<1>11. DeductionsAddUp'
  <2>1. ASSUME NEW q, NEW d
        PROVE  (IF q \in DOMAIN payrolls' /\ IsPaid(payrolls', q) THEN Take(payrolls', q, d) ELSE 0)
                  = (IF q \in DOMAIN payrolls /\ IsPaid(payrolls, q) THEN Take(payrolls, q, d) ELSE 0)
    BY <1>3, <1>6, <1>7
  <2> QED
    BY <1>1, <1>2, <2>1 DEF DeductionsAddUp
<1> QED
  BY <1>5, <1>8, <1>9, <1>10, <1>11 DEF PayInv

\* A payroll is prepared, again or for the first time.
LEMMA PayrollPrepared ==
    ASSUME LedgerOK, PayInv, NEW p \in DOMAIN payrolls, NEW earnings \in Seq(Earning),
           ~IsPaid(payrolls, p), Calculate(p, earnings)
    PROVE  PayInv' /\ UNCHANGED financeVars
<1> DEFINE entries == [w \in OnPayroll(p, earnings) |-> ItemFor(p, earnings, w)]
           total == SumFunction([w \in DOMAIN entries |-> entries[w].net])
           x == [payrolls[p] EXCEPT !.status = "prepared", !.reviewed = FALSE, !.items = entries,
                                    !.earnings = earnings, !.total = total]
<1>1. payrolls' = [payrolls EXCEPT ![p] = x] /\ NotPayroll /\ UNCHANGED financeVars
  BY DEF Calculate, NotPayroll
<1>2. payrolls \in Seq(PayrollDoc) /\ payrolls[p] \in PayrollDoc
  BY PayrollDocIs DEF PayInv, PayrollShape
<1>3. OnPayroll(p, earnings) \subseteq Staff
  BY DEF OnPayroll
<1>4. \A w \in DOMAIN entries : /\ entries[w] \in PayItem /\ entries[w].allowances \subseteq DOMAIN allowances
                              /\ \A d \in DeductionNumbers \ DOMAIN deductions : entries[w].takes[d] = 0
  BY <1>3, ItemIs
<1>5. entries \in [OnPayroll(p, earnings) -> PayItem] /\ DOMAIN entries \subseteq Staff
  BY <1>3, <1>4
<1> HIDE DEF entries
<1>6. total \in Nat
  <2>1. IsFiniteSet(DOMAIN entries)
    BY <1>5, AllowanceAssumption, FS_Subset
  <2>2. \A w \in DOMAIN entries : entries[w].net \in Nat
    BY <1>4 DEF PayItem
  <2> QED
    BY <2>1, <2>2, SumType
<1> HIDE DEF total
<1>7. entries \in UNION {[W -> PayItem] : W \in SUBSET Staff}
  BY <1>3, <1>5
<1>8. /\ x \in PayrollDoc /\ x.txn = payrolls[p].txn /\ x.status = "prepared" /\ x.items = entries
  BY <1>2, <1>6, <1>7 DEF PayrollDoc, PayrollStatuses
<1>9. FitsPayroll(x)
  <2>1. Lists(x) \subseteq DOMAIN allowances
    BY <1>4, <1>8 DEF Lists
  <2> QED
    BY <1>4, <1>8, <2>1 DEF FitsPayroll
<1> HIDE DEF x
<1> QED
  BY <1>1, <1>8, <1>9, PayrollEdited DEF PayrollTo

LEMMA ListedFits == ASSUME PayInv, NEW p \in DOMAIN payrolls PROVE FitsPayroll(payrolls[p])
<1>1. /\ ListedOn(payrolls, p) \subseteq DOMAIN allowances
      /\ \A w \in DOMAIN payrolls[p].items :
            \A d \in DeductionNumbers \ DOMAIN deductions : payrolls[p].items[w].takes[d] = 0
  BY DEF PayInv, PayrollShape
<1> QED
  BY <1>1, ListsIs DEF FitsPayroll

LEMMA PayrollMoved ==
    ASSUME LedgerOK, PayInv, NEW p \in DOMAIN payrolls,
           \/ CancelPayroll(p) \/ LockPayroll(p)
           \/ \E action \in {"submit", "review", "return", "approve"} : UpdatePayrollStatus(p, action)
    PROVE  PayInv' /\ UNCHANGED financeVars
<1>1. payrolls \in Seq(PayrollDoc) /\ payrolls[p] \in PayrollDoc
  BY PayrollDocIs DEF PayInv, PayrollShape
<1>2. NotPayroll /\ UNCHANGED financeVars
  BY DEF CancelPayroll, LockPayroll, UpdatePayrollStatus, NotPayroll
<1>3. \E status \in PayrollStatuses, reviewed \in BOOLEAN :
         /\ payrolls' = [payrolls EXCEPT ![p] = [payrolls[p] EXCEPT !.status = status, !.reviewed = reviewed]]
         /\ status \in {"paid", "locked"} <=> IsPaid(payrolls, p)
  <2>1. ASSUME NEW action, UpdatePayrollStatus(p, action)
        PROVE  \E status \in {"pending_review", "prepared", "approved"}, reviewed \in BOOLEAN :
                  /\ payrolls' = [payrolls EXCEPT ![p].status = status, ![p].reviewed = reviewed]
                  /\ ~IsPaid(payrolls, p)
    <3>1. payrolls[p].reviewed \in BOOLEAN
      BY <1>1 DEF PayrollDoc
    <3>2. \/ payrolls[p].status = "prepared" /\
             payrolls' = [payrolls EXCEPT ![p].status = "pending_review", ![p].reviewed = payrolls[p].reviewed]
          \/ payrolls[p].status = "pending_review" /\
             \/ payrolls' = [payrolls EXCEPT ![p].status = "pending_review", ![p].reviewed = TRUE]
             \/ payrolls' = [payrolls EXCEPT ![p].status = "prepared", ![p].reviewed = FALSE]
             \/ payrolls' = [payrolls EXCEPT ![p].status = "approved", ![p].reviewed = TRUE]
      BY <2>1 DEF UpdatePayrollStatus
    <3>3. ~IsPaid(payrolls, p)
      BY <3>2 DEF IsPaid
    <3>4. CASE payrolls' = [payrolls EXCEPT ![p].status = "pending_review", ![p].reviewed = payrolls[p].reviewed]
      BY <3>1, <3>3, <3>4
    <3>5. CASE payrolls' = [payrolls EXCEPT ![p].status = "pending_review", ![p].reviewed = TRUE]
      BY <3>3, <3>5
    <3>6. CASE payrolls' = [payrolls EXCEPT ![p].status = "prepared", ![p].reviewed = FALSE]
      BY <3>3, <3>6
    <3>7. CASE payrolls' = [payrolls EXCEPT ![p].status = "approved", ![p].reviewed = TRUE]
      BY <3>3, <3>7
    <3> QED
      BY <3>2, <3>4, <3>5, <3>6, <3>7
  <2>2. ASSUME NEW status, NEW reviewed \in BOOLEAN,
               payrolls' = [payrolls EXCEPT ![p].status = status, ![p].reviewed = reviewed]
        PROVE  payrolls' = [payrolls EXCEPT ![p] = [payrolls[p] EXCEPT !.status = status, !.reviewed = reviewed]]
    BY <2>2
  <2>3. ASSUME NEW status, payrolls' = [payrolls EXCEPT ![p].status = status]
        PROVE  payrolls' = [payrolls EXCEPT ![p] = [payrolls[p] EXCEPT !.status = status,
                                                                       !.reviewed = payrolls[p].reviewed]]
    <3>1. [payrolls[p] EXCEPT !.status = status]
             = [payrolls[p] EXCEPT !.status = status, !.reviewed = payrolls[p].reviewed]
      BY <1>1 DEF PayrollDoc
    <3> QED
      BY <2>3, <3>1
  <2>4. CASE CancelPayroll(p)
    <3>1. payrolls' = [payrolls EXCEPT ![p].status = "cancelled"] /\ ~IsPaid(payrolls, p)
      BY <2>4 DEF CancelPayroll, IsPaid
    <3>2. payrolls[p].reviewed \in BOOLEAN /\ "cancelled" \in PayrollStatuses
      BY <1>1 DEF PayrollDoc, PayrollStatuses
    <3> QED
      BY <2>3, <3>1, <3>2
  <2>5. CASE LockPayroll(p)
    <3>1. payrolls' = [payrolls EXCEPT ![p].status = "locked"] /\ IsPaid(payrolls, p)
      BY <2>5 DEF LockPayroll, IsPaid
    <3>2. payrolls[p].reviewed \in BOOLEAN /\ "locked" \in PayrollStatuses
      BY <1>1 DEF PayrollDoc, PayrollStatuses
    <3> QED
      BY <2>3, <3>1, <3>2
  <2>6. ASSUME NEW action, UpdatePayrollStatus(p, action)
        PROVE  \E status \in PayrollStatuses, reviewed \in BOOLEAN :
                  /\ payrolls' = [payrolls EXCEPT ![p] = [payrolls[p] EXCEPT !.status = status, !.reviewed = reviewed]]
                  /\ status \in {"paid", "locked"} <=> IsPaid(payrolls, p)
    <3>1. PICK status \in {"pending_review", "prepared", "approved"}, reviewed \in BOOLEAN :
                  /\ payrolls' = [payrolls EXCEPT ![p].status = status, ![p].reviewed = reviewed]
                  /\ ~IsPaid(payrolls, p)
      BY <2>1, <2>6
    <3>2. status \in PayrollStatuses
      BY DEF PayrollStatuses
    <3> QED
      BY <2>2, <3>1, <3>2
  <2> QED
    BY <2>4, <2>5, <2>6
<1>4. PICK status \in PayrollStatuses, reviewed \in BOOLEAN :
         /\ payrolls' = [payrolls EXCEPT ![p] = [payrolls[p] EXCEPT !.status = status, !.reviewed = reviewed]]
         /\ status \in {"paid", "locked"} <=> IsPaid(payrolls, p)
  BY <1>3
<1> DEFINE x == [payrolls[p] EXCEPT !.status = status, !.reviewed = reviewed]
<1>5. /\ x \in PayrollDoc /\ x.txn = payrolls[p].txn /\ x.items = payrolls[p].items
      /\ x.total = payrolls[p].total /\ x.status = status
  BY <1>1 DEF PayrollDoc
<1>6. payrolls' = [payrolls EXCEPT ![p] = x]
  BY <1>4
<1> HIDE DEF x
<1>7. FitsPayroll(x)
  <2>1. FitsPayroll(payrolls[p])
    BY ListedFits
  <2> QED
    BY <1>5, <2>1 DEF FitsPayroll, Lists
<1> QED
  BY <1>2, <1>4, <1>5, <1>6, <1>7, PayrollEdited DEF PayrollTo

LEMMA PayrollCreated ==
    ASSUME LedgerOK, PayInv, NEW slot \in Slots, CreatePayroll(slot)
    PROVE  PayInv' /\ UNCHANGED financeVars
<1> DEFINE x == [slot |-> slot, status |-> "draft", reviewed |-> FALSE, items |-> << >>,
                 earnings |-> << >>, total |-> 0, txn |-> 0]
           N == Len(payrolls) + 1
<1>1. payrolls' = Append(payrolls, x) /\ NotPayroll /\ UNCHANGED financeVars /\ Len(payrolls) < MaxPayrolls
  BY DEF CreatePayroll, NotPayroll
<1>2. /\ ledger' = ledger /\ salaries' = salaries /\ incidents' = incidents /\ deductions' = deductions
      /\ allowances' = allowances /\ attendance' = attendance
  BY <1>1 DEF NotPayroll, financeVars, allowanceVars, lossVars
<1>3. PayrollShape /\ payrolls \in Seq(PayrollDoc) /\ AllowancesPaid /\ DeductionsAddUp
  BY DEF PayInv, PayrollShape
<1>4. /\ x \in PayrollDoc /\ x.txn = 0 /\ x.status = "draft" /\ DOMAIN x.items = {} /\ Lists(x) = {}
  <2>1. << >> \in [{} -> PayItem] /\ DOMAIN << >> = {}
    OBVIOUS
  <2>2. << >> \in UNION {[W -> PayItem] : W \in SUBSET Staff}
    BY <2>1
  <2>3. x \in PayrollDoc
    BY <2>2 DEF PayrollDoc, PayrollStatuses
  <2>4. DOMAIN x.items = {} /\ Lists(x) = {}
    BY <2>1 DEF Lists
  <2> QED
    BY <2>3, <2>4
<1> HIDE DEF x
<1>5. /\ payrolls' \in Seq(PayrollDoc) /\ Len(payrolls) \in Nat /\ DOMAIN payrolls = 1..Len(payrolls)
      /\ DOMAIN payrolls' = DOMAIN payrolls \cup {N} /\ N \notin DOMAIN payrolls
      /\ \A q \in DOMAIN payrolls : payrolls'[q] = payrolls[q]
      /\ payrolls'[N] = x
  BY <1>1, <1>3, <1>4, OneAdded
<1>6. Len(payrolls') <= MaxPayrolls
  <2>1. Len(payrolls') = Len(payrolls) + 1
    BY <1>1, <1>3, <1>4, AppendProperties
  <2> QED
    BY <1>1, <1>5, <2>1, PayrollAssumption
<1>7. AllowanceShape' /\ LossShape' /\ IncidentsAddUp'
  BY <1>2 DEF PayInv, AllowanceShape, OneAllowanceADay, LossShape, Undecided, IncidentsAddUp
<1>8. ~IsPaid(payrolls', N) /\ \A q \in DOMAIN payrolls : IsPaid(payrolls', q) <=> IsPaid(payrolls, q)
  BY <1>4, <1>5 DEF IsPaid
<1>9. PayrollShape'
  <2>1. ASSUME NEW q \in DOMAIN payrolls'
        PROVE  /\ payrolls'[q].txn # 0 <=> IsPaid(payrolls', q) /\ payrolls'[q].total > 0
               /\ ListedOn(payrolls', q) \subseteq DOMAIN allowances
               /\ \A w \in DOMAIN payrolls'[q].items :
                     \A d \in DeductionNumbers \ DOMAIN deductions : payrolls'[q].items[w].takes[d] = 0
    <3>1. CASE q = N
      BY <1>4, <1>5, <1>8, <3>1, ListsIs
    <3>2. CASE q # N
      <4>1. payrolls'[q] = payrolls[q] /\ q \in DOMAIN payrolls
        BY <1>5, <3>2
      <4>2. IsPaid(payrolls', q) <=> IsPaid(payrolls, q)
        BY <1>8, <4>1
      <4>3. ListedOn(payrolls', q) = ListedOn(payrolls, q)
        BY <4>1 DEF ListedOn
      <4>4. /\ payrolls[q].txn # 0 <=> IsPaid(payrolls, q) /\ payrolls[q].total > 0
            /\ ListedOn(payrolls, q) \subseteq DOMAIN allowances
            /\ \A w \in DOMAIN payrolls[q].items :
                  \A d \in DeductionNumbers \ DOMAIN deductions : payrolls[q].items[w].takes[d] = 0
        BY <1>3, <4>1 DEF PayrollShape
      <4> QED
        BY <4>1, <4>2, <4>3, <4>4
    <3> QED
      BY <3>1, <3>2
  <2>2. salaries' \in [Staff -> Salary]
    BY <1>2, <1>3 DEF PayrollShape
  <2>3. /\ \A q \in DOMAIN payrolls' :
              /\ payrolls'[q].txn # 0 <=> IsPaid(payrolls', q) /\ payrolls'[q].total > 0
              /\ ListedOn(payrolls', q) \subseteq DOMAIN allowances'
              /\ \A w \in DOMAIN payrolls'[q].items :
                    \A d \in DeductionNumbers \ DOMAIN deductions' : payrolls'[q].items[w].takes[d] = 0
    BY <1>2, <2>1
  <2> QED
    BY <1>5, <1>6, <2>2, <2>3 DEF PayrollShape
<1>10. Settled(ledger', "payroll_payment", PayrollClaims(payrolls'))
  <2> DEFINE c == PayrollClaims(payrolls)
             e == PayrollClaims(payrolls')
  <2>1. /\ DOMAIN c \subseteq DOMAIN e
        /\ \A d \in DOMAIN c : e[d].txn = c[d].txn /\ (c[d].txn # 0 => e[d].n = c[d].n)
        /\ \A d \in DOMAIN e \ DOMAIN c : e[d].txn = 0
    BY <1>4, <1>5 DEF PayrollClaims
  <2>2. Settled(ledger, "payroll_payment", c) /\ Spares("payroll_payment")
    BY <1>2, LedgerStays DEF PayInv
  <2> HIDE DEF c, e
  <2>3. Settled(ledger', "payroll_payment", e)
    BY <2>1, <2>2, SettledGrows
  <2> QED
    BY <2>3 DEF e
<1>11. AllowancesPaid'
  <2>1. ASSUME NEW k PROVE Paying(payrolls', k) = Paying(payrolls, k)
    <3>1. \A q \in DOMAIN payrolls : ListedOn(payrolls', q) = ListedOn(payrolls, q)
      BY <1>5 DEF ListedOn
    <3>2. \A q : q \in Paying(payrolls', k) <=> q \in Paying(payrolls, k)
      BY <1>5, <1>8, <3>1 DEF Paying
    <3> QED
      BY <3>2
  <2>2. \A k \in DOMAIN allowances : allowances[k].status = "paid" /\ allowances[k].via = "payroll" =>
           payrolls'[allowances[k].payroll].txn = payrolls[allowances[k].payroll].txn
    <3>1. \A k \in DOMAIN allowances : allowances[k].status = "paid" /\ allowances[k].via = "payroll" =>
             allowances[k].payroll \in DOMAIN payrolls
      BY <1>3 DEF AllowancesPaid, Paying
    <3> QED
      BY <1>5, <3>1
  <2> QED
    BY <1>2, <1>3, <2>1, <2>2 DEF AllowancesPaid, EntryNumbers
<1>12. DeductionsAddUp'
  <2>1. ASSUME NEW q, NEW d
        PROVE  (IF q \in DOMAIN payrolls' /\ IsPaid(payrolls', q) THEN Take(payrolls', q, d) ELSE 0)
                  = (IF q \in DOMAIN payrolls /\ IsPaid(payrolls, q) THEN Take(payrolls, q, d) ELSE 0)
    <3>1. q \in DOMAIN payrolls => Take(payrolls', q, d) = Take(payrolls, q, d)
      <4>1. q \in DOMAIN payrolls => payrolls'[q] = payrolls[q]
        BY <1>5
      <4> QED
        BY <4>1 DEF Take
    <3> QED
      BY <1>5, <1>8, <3>1
  <2> QED
    BY <1>2, <1>3, <2>1 DEF DeductionsAddUp
<1> QED
  BY <1>1, <1>7, <1>9, <1>10, <1>11, <1>12 DEF PayInv

LEMMA EarningsEdited ==
    ASSUME LedgerOK, PayInv, NEW p \in DOMAIN payrolls,
           \/ \E w \in Staff, n \in Bonuses : AddPayrollEarning(p, w, n)
           \/ \E e \in DOMAIN payrolls[p].earnings : RemovePayrollEarning(p, e)
    PROVE  PayInv' /\ UNCHANGED financeVars
<1>1. payrolls[p].earnings \in Seq(Earning)
  BY PayrollDocIs DEF PayInv, PayrollShape
<1>2. ASSUME NEW w \in Staff, NEW n \in Bonuses, AddPayrollEarning(p, w, n)
      PROVE  PayInv' /\ UNCHANGED financeVars
  <2> DEFINE earnings == Append(payrolls[p].earnings, [staff |-> w, amount |-> n])
  <2>1. earnings \in Seq(Earning)
    <3>1. [staff |-> w, amount |-> n] \in Earning
      BY PayrollAssumption DEF Earning
    <3> QED
      BY <1>1, <3>1, AppendProperties
  <2>2. ~IsPaid(payrolls, p) /\ Calculate(p, earnings)
    BY <1>2 DEF AddPayrollEarning, IsPaid
  <2> HIDE DEF earnings
  <2> QED
    BY <2>1, <2>2, PayrollPrepared
<1>3. ASSUME NEW e \in DOMAIN payrolls[p].earnings, RemovePayrollEarning(p, e)
      PROVE  PayInv' /\ UNCHANGED financeVars
  <2> DEFINE s == payrolls[p].earnings
             earnings == RemoveAt(s, e)
  <2>1. earnings \in Seq(Earning)
    <3>1. Len(s) \in Nat /\ e \in 1..Len(s)
      BY <1>1, LenProperties
    <3>2. SubSeq(s, 1, e - 1) \in Seq(Earning)
      BY <1>1, <3>1, SubSeqProperties
    <3>3. SubSeq(s, e + 1, Len(s)) \in Seq(Earning)
      BY <1>1, <3>1, SubSeqProperties
    <3> HIDE DEF s
    <3>4. SubSeq(s, 1, e - 1) \o SubSeq(s, e + 1, Len(s)) \in Seq(Earning)
      BY <3>2, <3>3, ConcatProperties
    <3> QED
      BY <3>4 DEF RemoveAt
  <2>2. ~IsPaid(payrolls, p) /\ Calculate(p, earnings)
    BY <1>3 DEF RemovePayrollEarning, IsPaid
  <2> HIDE DEF earnings
  <2> QED
    BY <2>1, <2>2, PayrollPrepared
<1> QED
  BY <1>2, <1>3

LEMMA PayrollCalculated ==
    ASSUME LedgerOK, PayInv, NEW p \in DOMAIN payrolls, PreparePayroll(p) \/ CorrectPayroll(p)
    PROVE  PayInv' /\ UNCHANGED financeVars
<1>1. payrolls[p].earnings \in Seq(Earning)
  BY PayrollDocIs DEF PayInv, PayrollShape
<1>2. ~IsPaid(payrolls, p) /\ Calculate(p, payrolls[p].earnings)
  BY DEF PreparePayroll, CorrectPayroll, IsPaid
<1> QED
  BY <1>1, <1>2, PayrollPrepared

LEMMA SalarySet ==
    ASSUME LedgerOK, PayInv, NEW w \in Staff, NEW active \in BOOLEAN, NEW basic \in Basics,
           NEW frequency \in Frequencies, SetSalaryProfile(w, active, basic, frequency)
    PROVE  PayInv' /\ UNCHANGED financeVars
<1>1. /\ ledger' = ledger /\ payrolls' = payrolls /\ incidents' = incidents /\ deductions' = deductions
      /\ allowances' = allowances /\ attendance' = attendance /\ UNCHANGED financeVars
  BY DEF SetSalaryProfile, financeVars, allowanceVars, lossVars
<1>2. salaries' \in [Staff -> Salary]
  <2> DEFINE next == [exists |-> TRUE, active |-> active, basic |-> basic, frequency |-> frequency]
  <2>1. next \in Salary
    BY PayrollAssumption DEF Salary
  <2>2. salaries \in [Staff -> Salary] /\ salaries' = [salaries EXCEPT ![w] = next]
    BY DEF PayInv, PayrollShape, SetSalaryProfile
  <2> HIDE DEF next
  <2> QED
    BY <2>1, <2>2
<1>3. PayrollShape'
  <2>1. PayrollShape
    BY DEF PayInv
  <2> QED
    BY <1>1, <1>2, <2>1 DEF PayrollShape, IsPaid, ListedOn
<1>4. AllowanceShape' /\ LossShape' /\ DeductionsAddUp' /\ IncidentsAddUp' /\ AllowancesPaid'
  BY <1>1 DEF PayInv, AllowanceShape, OneAllowanceADay, LossShape, Undecided, DeductionsAddUp,
              IncidentsAddUp, AllowancesPaid, EntryNumbers
<1> QED
  BY <1>1, <1>3, <1>4 DEF PayInv

-----------------------------------------------------------------------------
(* Losses and deductions before and between the payrolls that take them *)

LEMMA SumOfZeros ==
    ASSUME NEW f, IsFiniteSet(DOMAIN f), \A x \in DOMAIN f : f[x] = 0
    PROVE  SumFunction(f) = 0
<1>1. \A x \in DOMAIN f : f[x] \in Nat
  OBVIOUS
<1>2. Total(f, DOMAIN f) = 0
  BY <1>1, TotalNat
<1> QED
  BY <1>2, SumIsTotal

\* What is known of an incident beside its recoveries.
IncidentFits(inc, ds) ==
    /\ inc.status \in {"reported", "under_review"} => inc.approved = 0
    /\ inc.approved > 0 => inc.staff # None
    /\ inc.status # "cancelled" => inc.cancelledOutstanding = 0
    /\ inc.deduction \in {0} \cup DOMAIN ds
    /\ inc.approved = inc.recovered + inc.outstanding + inc.cancelledOutstanding

\* Two states of a deduction between which nothing was taken or given back.
SameMoney(x, y) ==
    /\ y.incident = x.incident /\ y.total = x.total /\ y.recovered = x.recovered
    /\ y.remaining = x.remaining /\ y.applied = x.applied

\* A deduction nothing was taken by.
NothingTaken(x) ==
    /\ x.incident \in {0} \cup DOMAIN incidents
    /\ x.recovered = 0 /\ x.remaining = x.total /\ x.applied = [p \in PayrollNumbers |-> 0]

\* Incidents and deductions change, or one more is there; no money moves.
LossPaperwork ==
    /\ incidents' \in Seq(Incident) /\ deductions' \in Seq(Deduction) /\ Len(deductions') <= MaxDeductions
    /\ DOMAIN incidents \subseteq DOMAIN incidents' /\ DOMAIN deductions \subseteq DOMAIN deductions'
    /\ \A d \in DOMAIN deductions : SameMoney(deductions[d], deductions'[d])
    /\ \A d \in DOMAIN deductions' \ DOMAIN deductions : NothingTaken(deductions'[d])
    /\ \A q \in DOMAIN incidents' : IncidentFits(incidents'[q], deductions')
    /\ \A q \in DOMAIN incidents : incidents'[q].recovered = incidents[q].recovered
    /\ \A q \in DOMAIN incidents' \ DOMAIN incidents : incidents'[q].recovered = 0

LEMMA NoTakeUnlisted ==
    ASSUME PayInv, NEW p \in DOMAIN payrolls, NEW d \in DeductionNumbers \ DOMAIN deductions
    PROVE  Take(payrolls, p, d) = 0
<1>1. IsFiniteSet(DOMAIN payrolls[p].items)
  BY PayrollDocIs DEF PayInv, PayrollShape
<1>2. \A w \in DOMAIN payrolls[p].items : payrolls[p].items[w].takes[d] = 0
  BY DEF PayInv, PayrollShape
<1> DEFINE f == [w \in DOMAIN payrolls[p].items |-> payrolls[p].items[w].takes[d]]
<1>3. IsFiniteSet(DOMAIN f) /\ \A x \in DOMAIN f : f[x] = 0
  BY <1>1, <1>2
<1> HIDE DEF f
<1>4. SumFunction(f) = 0
  BY <1>3, SumOfZeros
<1> QED
  BY <1>4 DEF f, Take

LEMMA RecoveredStays ==
    ASSUME NEW ds \in Seq(Deduction), NEW es \in Seq(Deduction), NEW q,
           DOMAIN ds \subseteq DOMAIN es,
           \A d \in DOMAIN ds : es[d].incident = ds[d].incident /\ es[d].recovered = ds[d].recovered,
           \A d \in DOMAIN es \ DOMAIN ds : es[d].recovered = 0
    PROVE  RecoveredOn(es, q) = RecoveredOn(ds, q)
<1> DEFINE A == ForIncident(ds, q)
           B == ForIncident(es, q)
           f == [d \in A |-> ds[d].recovered]
           g == [d \in B |-> es[d].recovered]
<1>1. A \subseteq B /\ B \subseteq DOMAIN es /\ \A d \in B \ A : es[d].recovered = 0
  BY DEF ForIncident
<1>2. \A d \in A : es[d].recovered = ds[d].recovered
  BY DEF ForIncident
<1>3. \A d \in B : es[d].recovered \in Int
  <2>1. \A d \in B : es[d] \in Deduction
    BY <1>1, OneOf
  <2> QED
    BY <2>1 DEF Deduction
<1>4. IsFiniteSet(B)
  BY <1>1, SeqDomain, FS_Subset
<1> HIDE DEF A, B
<1>5. Weighs(g, B) /\ \A d \in B \ A : g[d] = 0
  BY <1>1, <1>3, <1>4 DEF Weighs
<1>6. IsFiniteSet(A) /\ \A d \in A : g[d] = f[d]
  BY <1>1, <1>2, <1>4, FS_Subset
<1>7. DOMAIN f = A /\ DOMAIN g = B
  OBVIOUS
<1> HIDE DEF f, g
<1>8. Total(g, B) = Total(g, A)
  BY <1>1, <1>5, TotalPart
<1>9. Total(g, A) = Total(f, A)
  BY <1>6, TotalSame
<1>10. SumFunction(g) = SumFunction(f)
  BY <1>7, <1>8, <1>9, SumIsTotal
<1> QED
  BY <1>10 DEF f, g, A, B, RecoveredOn

LEMMA LossesEdited ==
    ASSUME LedgerOK, PayInv, NotLosses, LossPaperwork
    PROVE  PayInv' /\ UNCHANGED financeVars
<1>1. /\ ledger' = ledger /\ salaries' = salaries /\ payrolls' = payrolls
      /\ allowances' = allowances /\ attendance' = attendance /\ UNCHANGED financeVars
  BY DEF NotLosses, financeVars, allowanceVars
<1>2. LossShape /\ incidents \in Seq(Incident) /\ deductions \in Seq(Deduction) /\ PayrollShape
  BY DEF PayInv, LossShape
<1>3. AllowanceShape' /\ AllowancesPaid' /\ Settled(ledger', "payroll_payment", PayrollClaims(payrolls'))
  BY <1>1 DEF PayInv, AllowanceShape, OneAllowanceADay, AllowancesPaid, EntryNumbers
<1>4. DOMAIN deductions' = 1..Len(deductions') /\ DOMAIN deductions' \subseteq DeductionNumbers
  BY SeqDomain, PayrollAssumption DEF LossPaperwork, DeductionNumbers
<1>5. PayrollShape'
  <2>1. ASSUME NEW p \in DOMAIN payrolls, NEW w \in DOMAIN payrolls[p].items,
               NEW d \in DeductionNumbers \ DOMAIN deductions'
        PROVE  payrolls[p].items[w].takes[d] = 0
    <3>1. d \in DeductionNumbers \ DOMAIN deductions
      BY DEF LossPaperwork
    <3> QED
      BY <1>2, <3>1 DEF PayrollShape
  <2> QED
    BY <1>1, <1>2, <2>1 DEF PayrollShape, IsPaid, ListedOn
<1>6. LossShape'
  <2>1. \A d \in DOMAIN deductions' : deductions'[d].incident \in {0} \cup DOMAIN incidents'
    <3>1. ASSUME NEW d \in DOMAIN deductions' PROVE deductions'[d].incident \in {0} \cup DOMAIN incidents
      <4>1. CASE d \in DOMAIN deductions
        BY <1>2, <4>1 DEF LossPaperwork, SameMoney, LossShape
      <4>2. CASE d \notin DOMAIN deductions
        BY <4>2 DEF LossPaperwork, NothingTaken
      <4> QED
        BY <4>1, <4>2
    <3> QED
      BY <3>1 DEF LossPaperwork
  <2> QED
    BY <2>1 DEF LossPaperwork, IncidentFits, LossShape, Undecided
<1>7. DeductionsAddUp'
  <2>1. ASSUME NEW d \in DOMAIN deductions'
        PROVE  /\ deductions'[d].total = deductions'[d].recovered + deductions'[d].remaining
               /\ deductions'[d].recovered = SumFunction(deductions'[d].applied)
               /\ \A p \in PayrollNumbers : deductions'[d].applied[p] =
                     IF p \in DOMAIN payrolls /\ IsPaid(payrolls, p) THEN Take(payrolls, p, d) ELSE 0
    <3>1. CASE d \in DOMAIN deductions
      <4>1. SameMoney(deductions[d], deductions'[d])
        BY <3>1 DEF LossPaperwork
      <4>2. /\ deductions[d].total = deductions[d].recovered + deductions[d].remaining
            /\ deductions[d].recovered = SumFunction(deductions[d].applied)
            /\ \A p \in PayrollNumbers : deductions[d].applied[p] =
                  IF p \in DOMAIN payrolls /\ IsPaid(payrolls, p) THEN Take(payrolls, p, d) ELSE 0
        BY <3>1 DEF PayInv, DeductionsAddUp
      <4> QED
        BY <4>1, <4>2 DEF SameMoney
    <3>2. CASE d \notin DOMAIN deductions
      <4> DEFINE z == [p \in PayrollNumbers |-> 0]
      <4>1. /\ deductions'[d].recovered = 0 /\ deductions'[d].remaining = deductions'[d].total
            /\ deductions'[d].applied = z
        BY <3>2 DEF LossPaperwork, NothingTaken
      <4>2. SumFunction(z) = 0
        <5>1. IsFiniteSet(DOMAIN z) /\ \A p \in DOMAIN z : z[p] = 0
          BY PayrollAssumption, FS_Interval DEF PayrollNumbers
        <5> HIDE DEF z
        <5> QED
          BY <5>1, SumOfZeros
      <4>3. \A p \in DOMAIN payrolls : Take(payrolls, p, d) = 0
        BY <1>4, <3>2, NoTakeUnlisted
      <4>4. deductions'[d].total \in Nat
        <5>1. deductions'[d] \in Deduction
          BY OneOf DEF LossPaperwork
        <5> QED
          BY <5>1 DEF Deduction, Amount
      <4>5. \A p \in PayrollNumbers : z[p] = 0
        OBVIOUS
      <4> HIDE DEF z
      <4> QED
        BY <4>1, <4>2, <4>3, <4>4, <4>5
    <3> QED
      BY <3>1, <3>2
  <2> QED
    BY <1>1, <2>1 DEF DeductionsAddUp
<1>8. IncidentsAddUp'
  <2>0. ASSUME NEW q PROVE RecoveredOn(deductions', q) = RecoveredOn(deductions, q)
    <3>1. \A d \in DOMAIN deductions :
             deductions'[d].incident = deductions[d].incident /\ deductions'[d].recovered = deductions[d].recovered
      BY DEF LossPaperwork, SameMoney
    <3>2. \A d \in DOMAIN deductions' \ DOMAIN deductions : deductions'[d].recovered = 0
      BY DEF LossPaperwork, NothingTaken
    <3>3. DOMAIN deductions \subseteq DOMAIN deductions' /\ deductions' \in Seq(Deduction)
      BY DEF LossPaperwork
    <3> QED
      BY <1>2, <3>1, <3>2, <3>3, RecoveredStays
  <2>1. ASSUME NEW q \in DOMAIN incidents' PROVE incidents'[q].recovered = RecoveredOn(deductions', q)
    <3>1. CASE q \in DOMAIN incidents
      BY <2>0, <3>1 DEF LossPaperwork, PayInv, IncidentsAddUp
    <3>2. CASE q \notin DOMAIN incidents
      <4>1. q # 0
        BY OneOf DEF LossPaperwork
      <4>2. ForIncident(deductions, q) = {}
        BY <1>2, <3>2, <4>1 DEF ForIncident, LossShape
      <4>3. RecoveredOn(deductions, q) = 0
        BY <4>2, SumOfNone DEF RecoveredOn
      <4> QED
        BY <2>0, <3>2, <4>3 DEF LossPaperwork
    <3> QED
      BY <3>1, <3>2
  <2> QED
    BY <2>1 DEF IncidentsAddUp, LossPaperwork, IncidentFits
<1> QED
  BY <1>1, <1>3, <1>5, <1>6, <1>7, <1>8 DEF PayInv

LEMMA IncidentsFit ==
    ASSUME PayInv, NEW q \in DOMAIN incidents
    PROVE  /\ incidents[q] \in Incident /\ IncidentFits(incidents[q], deductions)
           /\ incidents \in Seq(Incident) /\ deductions \in Seq(Deduction) /\ q \in Nat /\ q # 0
<1>1. incidents \in Seq(Incident) /\ deductions \in Seq(Deduction) /\ LossShape /\ IncidentsAddUp
  BY DEF PayInv, LossShape
<1>2. incidents[q] \in Incident /\ q \in Nat /\ q # 0
  BY <1>1, OneOf
<1>3. IncidentFits(incidents[q], deductions)
  BY <1>1 DEF LossShape, IncidentsAddUp, IncidentFits, Undecided
<1> QED
  BY <1>1, <1>2, <1>3

\* One incident becomes x, and of the deductions only their statuses change.
LEMMA IncidentEdited ==
    ASSUME PayInv, NEW q \in DOMAIN incidents, NEW x \in Incident, IncidentFits(x, deductions),
           x.recovered = incidents[q].recovered, incidents' = [incidents EXCEPT ![q] = x],
           deductions' \in Seq(Deduction), DOMAIN deductions' = DOMAIN deductions,
           Len(deductions') = Len(deductions),
           \A d \in DOMAIN deductions : SameMoney(deductions[d], deductions'[d])
    PROVE  LossPaperwork
<1>1. incidents \in Seq(Incident) /\ Len(deductions) <= MaxDeductions
  BY DEF PayInv, LossShape
<1>2. /\ incidents' \in Seq(Incident) /\ DOMAIN incidents' = DOMAIN incidents /\ incidents'[q] = x
      /\ \A j \in DOMAIN incidents : j # q => incidents'[j] = incidents[j]
  BY <1>1, OneEdited
<1>3. \A j \in DOMAIN incidents' : IncidentFits(incidents'[j], deductions')
  <2>1. \A j \in DOMAIN incidents' : IncidentFits(incidents'[j], deductions)
    BY <1>2, IncidentsFit
  <2> QED
    BY <2>1 DEF IncidentFits
<1>4. \A j \in DOMAIN incidents : incidents'[j].recovered = incidents[j].recovered
  BY <1>2
<1> QED
  BY <1>1, <1>2, <1>3, <1>4 DEF LossPaperwork

LEMMA SameDeductions ==
    ASSUME PayInv, deductions' = deductions
    PROVE  /\ deductions' \in Seq(Deduction) /\ DOMAIN deductions' = DOMAIN deductions
           /\ Len(deductions') = Len(deductions)
           /\ \A d \in DOMAIN deductions : SameMoney(deductions[d], deductions'[d])
BY DEF PayInv, LossShape, SameMoney

\* A deduction changes its status.
LEMMA DeductionMoved ==
    ASSUME PayInv, NEW d \in DOMAIN deductions,
           NEW status \in {"pending_approval", "active", "completed", "rejected", "cancelled"},
           deductions' = [deductions EXCEPT ![d].status = status]
    PROVE  /\ deductions' \in Seq(Deduction) /\ DOMAIN deductions' = DOMAIN deductions
           /\ Len(deductions') = Len(deductions)
           /\ \A e \in DOMAIN deductions : SameMoney(deductions[e], deductions'[e])
<1> DEFINE x == [deductions[d] EXCEPT !.status = status]
<1>1. deductions \in Seq(Deduction) /\ deductions[d] \in Deduction
  BY OneOf DEF PayInv, LossShape
<1>2. x \in Deduction /\ SameMoney(deductions[d], x)
  BY <1>1 DEF Deduction, SameMoney
<1>3. deductions' = [deductions EXCEPT ![d] = x]
  OBVIOUS
<1> HIDE DEF x
<1>4. /\ deductions' \in Seq(Deduction) /\ DOMAIN deductions' = DOMAIN deductions /\ deductions'[d] = x
      /\ \A e \in DOMAIN deductions : e # d => deductions'[e] = deductions[e]
  BY <1>1, <1>2, <1>3, OneEdited
<1>5. Len(deductions') = Len(deductions)
  BY <1>1, <1>4, SeqDomain, LenProperties
<1>6. ASSUME NEW e \in DOMAIN deductions PROVE SameMoney(deductions[e], deductions'[e])
  <2>1. CASE e = d
    BY <1>2, <1>4, <2>1
  <2>2. CASE e # d
    <3>1. deductions'[e] = deductions[e]
      BY <1>4, <2>2
    <3> QED
      BY <3>1 DEF SameMoney
  <2> QED
    BY <2>1, <2>2
<1> QED
  BY <1>4, <1>5, <1>6

LEMMA LossDecided ==
    ASSUME LedgerOK, PayInv, NEW q \in DOMAIN incidents,
           \/ ReviewLossIncident(q) \/ RejectLossIncident(q)
           \/ \E n \in Losses \cup {0} : ApproveLossIncident(q, n)
    PROVE  PayInv' /\ UNCHANGED financeVars
<1>1. incidents[q] \in Incident /\ IncidentFits(incidents[q], deductions)
  BY IncidentsFit
<1>2. deductions' = deductions /\ NotLosses
  BY DEF ReviewLossIncident, RejectLossIncident, ApproveLossIncident
<1>3. \E x \in Incident : /\ IncidentFits(x, deductions) /\ x.recovered = incidents[q].recovered
                          /\ incidents' = [incidents EXCEPT ![q] = x]
  <2>1. CASE ReviewLossIncident(q)
    <3> DEFINE x == [incidents[q] EXCEPT !.status = "under_review"]
    <3>1. incidents' = [incidents EXCEPT ![q] = x] /\ incidents[q].status = "reported"
      BY <2>1 DEF ReviewLossIncident
    <3>2. x \in Incident /\ x.recovered = incidents[q].recovered /\ IncidentFits(x, deductions)
      BY <1>1, <3>1 DEF Incident, IncidentFits
    <3> QED
      BY <3>1, <3>2
  <2>2. CASE RejectLossIncident(q)
    <3> DEFINE x == [incidents[q] EXCEPT !.status = "rejected"]
    <3>1. incidents' = [incidents EXCEPT ![q] = x] /\ incidents[q].status \in {"reported", "under_review"}
      BY <2>2 DEF RejectLossIncident, Undecided
    <3>2. x \in Incident /\ x.recovered = incidents[q].recovered /\ IncidentFits(x, deductions)
      BY <1>1, <3>1 DEF Incident, IncidentFits
    <3> QED
      BY <3>1, <3>2
  <2>3. ASSUME NEW n \in Losses \cup {0}, ApproveLossIncident(q, n)
        PROVE  \E x \in Incident : /\ IncidentFits(x, deductions) /\ x.recovered = incidents[q].recovered
                                   /\ incidents' = [incidents EXCEPT ![q] = x]
    <3> DEFINE x == [incidents[q] EXCEPT !.status = "approved", !.approved = n, !.outstanding = n]
    <3>1. /\ incidents[q].status \in {"reported", "under_review"} /\ (n > 0 => incidents[q].staff # None)
          /\ incidents' = [incidents EXCEPT ![q].status = "approved", ![q].approved = n, ![q].outstanding = n]
      BY <2>3 DEF ApproveLossIncident, Undecided
    <3>2. incidents' = [incidents EXCEPT ![q] = x]
      BY <3>1
    <3>3. n \in Nat
      BY PayrollAssumption DEF Amount
    <3>4. /\ incidents[q].approved = 0 /\ incidents[q].recovered \in Nat
          /\ incidents[q].outstanding \in Nat /\ incidents[q].cancelledOutstanding \in Nat
          /\ incidents[q].approved = incidents[q].recovered + incidents[q].outstanding
                                        + incidents[q].cancelledOutstanding
      BY <1>1, <3>1 DEF Incident, IncidentFits
    <3>5. incidents[q].recovered = 0 /\ incidents[q].cancelledOutstanding = 0
      BY <3>4
    <3>6. /\ x \in Incident /\ x.recovered = 0 /\ x.approved = n /\ x.outstanding = n
          /\ x.cancelledOutstanding = 0 /\ x.status = "approved" /\ x.staff = incidents[q].staff
          /\ x.deduction = incidents[q].deduction
      BY <1>1, <3>3, <3>5 DEF Incident
    <3>7. IncidentFits(x, deductions)
      <4>1. incidents[q].deduction \in {0} \cup DOMAIN deductions
        BY <1>1 DEF IncidentFits
      <4> HIDE DEF x
      <4> QED
        BY <3>1, <3>3, <3>6, <4>1 DEF IncidentFits
    <3> QED
      BY <3>2, <3>5, <3>6, <3>7
  <2> QED
    BY <2>1, <2>2, <2>3
<1>4. LossPaperwork
  BY <1>2, <1>3, SameDeductions, IncidentEdited
<1> QED
  BY <1>2, <1>4, LossesEdited

LEMMA LossCancelled ==
    ASSUME LedgerOK, PayInv, NEW q \in DOMAIN incidents, CancelLossIncident(q)
    PROVE  PayInv' /\ UNCHANGED financeVars
<1> DEFINE inc == incidents[q]
           x == [inc EXCEPT !.status = "cancelled", !.cancelledOutstanding = inc.outstanding, !.outstanding = 0]
<1>1. inc \in Incident /\ IncidentFits(inc, deductions)
  BY IncidentsFit
<1>2. /\ NotLosses /\ inc.status # "cancelled"
      /\ deductions' = IF inc.deduction # 0 /\ Stoppable(inc.deduction)
                       THEN [deductions EXCEPT ![inc.deduction].status = "cancelled"] ELSE deductions
      /\ incidents' = [incidents EXCEPT ![q].status = "cancelled",
              ![q].cancelledOutstanding = inc.outstanding, ![q].outstanding = 0]
  BY DEF CancelLossIncident
<1>3. incidents' = [incidents EXCEPT ![q] = x]
  BY <1>2
<1>4. inc.deduction \in {0} \cup DOMAIN deductions
  BY <1>1 DEF IncidentFits
<1>5. x \in Incident /\ IncidentFits(x, deductions) /\ x.recovered = inc.recovered
  <2>1. /\ inc.recovered \in Nat /\ inc.outstanding \in Nat /\ inc.cancelledOutstanding = 0
        /\ inc.approved = inc.recovered + inc.outstanding
        /\ inc.approved > 0 => inc.staff # None
    BY <1>1, <1>2 DEF Incident, IncidentFits
  <2>2. /\ x \in Incident /\ x.recovered = inc.recovered /\ x.outstanding = 0 /\ x.approved = inc.approved
        /\ x.cancelledOutstanding = inc.outstanding /\ x.status = "cancelled" /\ x.staff = inc.staff
        /\ x.deduction = inc.deduction
    BY <1>1, <2>1 DEF Incident
  <2> HIDE DEF x, inc
  <2> QED
    BY <1>4, <2>1, <2>2 DEF IncidentFits
<1>6. /\ deductions' \in Seq(Deduction) /\ DOMAIN deductions' = DOMAIN deductions
      /\ Len(deductions') = Len(deductions)
      /\ \A d \in DOMAIN deductions : SameMoney(deductions[d], deductions'[d])
  <2>1. CASE inc.deduction # 0 /\ Stoppable(inc.deduction)
    <3> DEFINE d == inc.deduction
    <3>1. d \in DOMAIN deductions /\ deductions' = [deductions EXCEPT ![d].status = "cancelled"]
      BY <1>2, <1>4, <2>1
    <3> HIDE DEF d
    <3> QED
      BY <3>1, DeductionMoved
  <2>2. CASE ~(inc.deduction # 0 /\ Stoppable(inc.deduction))
    <3>1. deductions' = deductions
      BY <1>2, <2>2
    <3> QED
      BY <3>1, SameDeductions
  <2> QED
    BY <2>1, <2>2
<1> HIDE DEF x
<1>7. LossPaperwork
  BY <1>3, <1>5, <1>6, IncidentEdited
<1> QED
  BY <1>2, <1>7, LossesEdited

LEMMA DeductionStopped ==
    ASSUME LedgerOK, PayInv, NEW d \in DOMAIN deductions, CancelSalaryDeduction(d)
    PROVE  PayInv' /\ UNCHANGED financeVars
<1> DEFINE q == deductions[d].incident
<1>1. /\ NotLosses /\ deductions' = [deductions EXCEPT ![d].status = "cancelled"]
      /\ incidents' = IF q = 0 \/ incidents[q].status = "cancelled" THEN incidents
                      ELSE [incidents EXCEPT ![q].deduction = 0, ![q].status =
                               IF incidents[q].recovered > 0 THEN "partially_recovered" ELSE "approved"]
  BY DEF CancelSalaryDeduction
<1>2. /\ deductions' \in Seq(Deduction) /\ DOMAIN deductions' = DOMAIN deductions
      /\ Len(deductions') = Len(deductions)
      /\ \A e \in DOMAIN deductions : SameMoney(deductions[e], deductions'[e])
  BY <1>1, DeductionMoved
<1>3. q \in {0} \cup DOMAIN incidents
  BY DEF PayInv, LossShape
<1>4. CASE q = 0 \/ incidents[q].status = "cancelled"
  <2>1. incidents' = incidents
    BY <1>1, <1>4
  <2>2. incidents \in Seq(Incident) /\ Len(deductions) <= MaxDeductions
    BY DEF PayInv, LossShape
  <2>3. \A j \in DOMAIN incidents : IncidentFits(incidents[j], deductions')
    <3>1. \A j \in DOMAIN incidents : IncidentFits(incidents[j], deductions)
      BY IncidentsFit
    <3> QED
      BY <1>2, <3>1 DEF IncidentFits
  <2>4. LossPaperwork
    BY <1>2, <2>1, <2>2, <2>3 DEF LossPaperwork
  <2> QED
    BY <1>1, <2>4, LossesEdited
<1>5. CASE ~(q = 0 \/ incidents[q].status = "cancelled")
  <2> DEFINE inc == incidents[q]
             s == IF inc.recovered > 0 THEN "partially_recovered" ELSE "approved"
             x == [inc EXCEPT !.deduction = 0, !.status = s]
  <2>1. q \in DOMAIN incidents /\ inc.status # "cancelled"
    BY <1>3, <1>5
  <2>2. inc \in Incident /\ IncidentFits(inc, deductions)
    BY <2>1, IncidentsFit
  <2>3. incidents' = [incidents EXCEPT ![q] = x]
    <3>1. incidents' = [incidents EXCEPT ![q].deduction = 0, ![q].status = s]
      BY <1>1, <1>5
    <3> HIDE DEF s
    <3> QED
      BY <3>1
  <2>4. s \in {"partially_recovered", "approved"}
    OBVIOUS
  <2> HIDE DEF s
  <2>5. x \in Incident /\ IncidentFits(x, deductions) /\ x.recovered = inc.recovered
    BY <2>1, <2>2, <2>4 DEF Incident, IncidentFits
  <2> HIDE DEF x, q
  <2>6. LossPaperwork
    BY <1>2, <2>1, <2>3, <2>5, IncidentEdited
  <2> QED
    BY <1>1, <2>6, LossesEdited
<1> QED
  BY <1>4, <1>5

LEMMA NewDeductionIs ==
    ASSUME NEW w \in Staff, NEW q \in {0} \cup DOMAIN incidents, q \in Nat, NEW total \in Amount,
           NEW instalment \in Amount, NEW status \in {"pending_approval", "active"}
    PROVE  /\ NewDeduction(w, q, total, instalment, status) \in Deduction
           /\ NothingTaken(NewDeduction(w, q, total, instalment, status))
<1>1. total \in Nat
  BY DEF Amount
<1>2. [p \in PayrollNumbers |-> 0] \in [PayrollNumbers -> Nat]
  OBVIOUS
<1>3. NewDeduction(w, q, total, instalment, status) \in Deduction
  BY <1>1, <1>2 DEF NewDeduction, Deduction
<1> QED
  BY <1>3 DEF NewDeduction, NothingTaken

\* A deduction nothing was taken by yet is appended.
LEMMA DeductionAdded ==
    ASSUME PayInv, Len(deductions) < MaxDeductions, NEW x \in Deduction, NothingTaken(x),
           deductions' = Append(deductions, x)
    PROVE  /\ deductions' \in Seq(Deduction) /\ Len(deductions') <= MaxDeductions
           /\ DOMAIN deductions' = DOMAIN deductions \cup {Len(deductions) + 1}
           /\ \A d \in DOMAIN deductions : SameMoney(deductions[d], deductions'[d])
           /\ \A d \in DOMAIN deductions' \ DOMAIN deductions : NothingTaken(deductions'[d])
<1>1. deductions \in Seq(Deduction)
  BY DEF PayInv, LossShape
<1>2. /\ deductions' \in Seq(Deduction) /\ Len(deductions) \in Nat
      /\ DOMAIN deductions' = DOMAIN deductions \cup {Len(deductions) + 1}
      /\ \A d \in DOMAIN deductions : deductions'[d] = deductions[d]
      /\ deductions'[Len(deductions) + 1] = x
  BY <1>1, OneAdded
<1>3. Len(deductions') = Len(deductions) + 1
  BY <1>1
<1>4. Len(deductions') <= MaxDeductions
  BY <1>2, <1>3, PayrollAssumption
<1>5. ASSUME NEW d \in DOMAIN deductions PROVE SameMoney(deductions[d], deductions'[d])
  <2>1. deductions'[d] = deductions[d]
    BY <1>2
  <2> QED
    BY <2>1 DEF SameMoney
<1>6. ASSUME NEW d \in DOMAIN deductions' \ DOMAIN deductions PROVE NothingTaken(deductions'[d])
  <2>1. deductions'[d] = x
    BY <1>2
  <2> QED
    BY <2>1
<1> QED
  BY <1>2, <1>4, <1>5, <1>6

LEMMA LossReported ==
    ASSUME LedgerOK, PayInv, NEW w \in Staff \cup {None}, NEW n \in Losses, CreateLossIncident(w, n)
    PROVE  PayInv' /\ UNCHANGED financeVars
<1> DEFINE x == [staff |-> w, amount |-> n, status |-> "reported", approved |-> 0, recovered |-> 0,
                 outstanding |-> 0, cancelledOutstanding |-> 0, deduction |-> 0]
<1>1. incidents' = Append(incidents, x) /\ deductions' = deductions /\ NotLosses
  BY DEF CreateLossIncident
<1>2. x \in Incident /\ IncidentFits(x, deductions) /\ x.recovered = 0
  BY PayrollAssumption DEF Incident, IncidentFits, Amount
<1> HIDE DEF x
<1>3. incidents \in Seq(Incident) /\ Len(deductions) <= MaxDeductions /\ deductions \in Seq(Deduction)
  BY DEF PayInv, LossShape
<1>4. /\ incidents' \in Seq(Incident) /\ DOMAIN incidents' = DOMAIN incidents \cup {Len(incidents) + 1}
      /\ \A q \in DOMAIN incidents : incidents'[q] = incidents[q]
      /\ incidents'[Len(incidents) + 1] = x
  BY <1>1, <1>2, <1>3, OneAdded
<1>5. \A q \in DOMAIN incidents' : IncidentFits(incidents'[q], deductions)
  BY <1>2, <1>4, IncidentsFit
<1>6. LossPaperwork
  <2>1. \A q \in DOMAIN incidents' : IncidentFits(incidents'[q], deductions')
    BY <1>1, <1>5
  <2>2. \A q \in DOMAIN incidents : incidents'[q].recovered = incidents[q].recovered
    BY <1>4
  <2>3. \A q \in DOMAIN incidents' \ DOMAIN incidents : incidents'[q].recovered = 0
    BY <1>2, <1>4
  <2>4. /\ deductions' \in Seq(Deduction) /\ DOMAIN deductions' = DOMAIN deductions
        /\ Len(deductions') = Len(deductions)
        /\ \A d \in DOMAIN deductions : SameMoney(deductions[d], deductions'[d])
    BY <1>1, SameDeductions
  <2> QED
    BY <1>3, <1>4, <2>1, <2>2, <2>3, <2>4 DEF LossPaperwork
<1> QED
  BY <1>1, <1>6, LossesEdited

LEMMA RecoveryScheduled ==
    ASSUME LedgerOK, PayInv, NEW q \in DOMAIN incidents, NEW n \in Instalments,
           ScheduleLossRecovery(q, n)
    PROVE  PayInv' /\ UNCHANGED financeVars
<1> DEFINE inc == incidents[q]
           x == NewDeduction(inc.staff, q, inc.outstanding, n, "active")
           s == IF inc.recovered > 0 THEN "partially_recovered" ELSE "recovery_scheduled"
           y == [inc EXCEPT !.status = s, !.deduction = Len(deductions) + 1]
<1>1. /\ Len(deductions) < MaxDeductions /\ inc.status \in {"approved", "partially_recovered"}
      /\ inc.outstanding > 0 /\ NotLosses /\ deductions' = Append(deductions, x)
      /\ incidents' = [incidents EXCEPT ![q].status = s, ![q].deduction = Len(deductions) + 1]
  BY DEF ScheduleLossRecovery
<1>2. /\ inc \in Incident /\ IncidentFits(inc, deductions) /\ q \in Nat
      /\ incidents \in Seq(Incident) /\ deductions \in Seq(Deduction)
  BY IncidentsFit
<1>3. inc.staff \in Staff /\ inc.outstanding \in Amount
  <2>1. /\ inc.recovered \in Nat /\ inc.outstanding \in Nat /\ inc.cancelledOutstanding \in Nat
        /\ inc.staff \in Staff \cup {None}
        /\ inc.approved = inc.recovered + inc.outstanding + inc.cancelledOutstanding
        /\ inc.approved > 0 => inc.staff # None
    BY <1>2 DEF Incident, IncidentFits
  <2> HIDE DEF inc
  <2> QED
    BY <1>1, <2>1 DEF Amount
<1>4. x \in Deduction /\ NothingTaken(x)
  <2>1. n \in Amount
    BY PayrollAssumption
  <2> QED
    BY <1>2, <1>3, <2>1, NewDeductionIs
<1>5. incidents' = [incidents EXCEPT ![q] = y]
  <2> HIDE DEF s
  <2> QED
    BY <1>1
<1>6. s \in {"partially_recovered", "recovery_scheduled"}
  OBVIOUS
<1> HIDE DEF x, s
<1>7. /\ deductions' \in Seq(Deduction) /\ Len(deductions') <= MaxDeductions
      /\ DOMAIN deductions' = DOMAIN deductions \cup {Len(deductions) + 1}
      /\ \A d \in DOMAIN deductions : SameMoney(deductions[d], deductions'[d])
      /\ \A d \in DOMAIN deductions' \ DOMAIN deductions : NothingTaken(deductions'[d])
  BY <1>1, <1>4, DeductionAdded
<1>8. y \in Incident /\ y.recovered = inc.recovered /\ IncidentFits(y, deductions')
  <2>1. Len(deductions) + 1 \in Nat
    BY <1>2
  <2>2. /\ y \in Incident /\ y.recovered = inc.recovered /\ y.outstanding = inc.outstanding
        /\ y.approved = inc.approved /\ y.cancelledOutstanding = inc.cancelledOutstanding
        /\ y.status = s /\ y.staff = inc.staff /\ y.deduction = Len(deductions) + 1
    BY <1>2, <1>6, <2>1 DEF Incident
  <2> HIDE DEF y, inc
  <2> QED
    BY <1>1, <1>2, <1>6, <1>7, <2>2 DEF IncidentFits
<1> HIDE DEF y
<1>9. /\ incidents' \in Seq(Incident) /\ DOMAIN incidents' = DOMAIN incidents /\ incidents'[q] = y
      /\ \A j \in DOMAIN incidents : j # q => incidents'[j] = incidents[j]
  BY <1>2, <1>5, <1>8, OneEdited
<1>10. \A j \in DOMAIN incidents' : IncidentFits(incidents'[j], deductions')
  <2>1. \A j \in DOMAIN incidents : IncidentFits(incidents[j], deductions')
    <3>1. \A j \in DOMAIN incidents : IncidentFits(incidents[j], deductions)
      BY IncidentsFit
    <3> QED
      BY <1>7, <3>1 DEF IncidentFits
  <2> QED
    BY <1>8, <1>9, <2>1
<1>11. \A j \in DOMAIN incidents : incidents'[j].recovered = incidents[j].recovered
  BY <1>8, <1>9
<1>12. LossPaperwork
  BY <1>7, <1>9, <1>10, <1>11 DEF LossPaperwork
<1> QED
  BY <1>1, <1>12, LossesEdited

\* The incidents stay as they are.
LEMMA DeductionsEdited ==
    ASSUME LedgerOK, PayInv, NotLosses, incidents' = incidents,
           deductions' \in Seq(Deduction), Len(deductions') <= MaxDeductions,
           DOMAIN deductions \subseteq DOMAIN deductions',
           \A d \in DOMAIN deductions : SameMoney(deductions[d], deductions'[d]),
           \A d \in DOMAIN deductions' \ DOMAIN deductions : NothingTaken(deductions'[d])
    PROVE  PayInv' /\ UNCHANGED financeVars
<1>1. incidents \in Seq(Incident)
  BY DEF PayInv, LossShape
<1>2. \A j \in DOMAIN incidents : IncidentFits(incidents[j], deductions')
  <2>1. \A j \in DOMAIN incidents : IncidentFits(incidents[j], deductions)
    BY IncidentsFit
  <2> QED
    BY <2>1 DEF IncidentFits
<1>3. LossPaperwork
  BY <1>1, <1>2 DEF LossPaperwork
<1> QED
  BY <1>3, LossesEdited

LEMMA DeductionCreated ==
    ASSUME LedgerOK, PayInv, NEW w \in Staff, NEW total \in Losses, NEW n \in Instalments,
           CreateSalaryDeduction(w, total, n)
    PROVE  PayInv' /\ UNCHANGED financeVars
<1> DEFINE x == NewDeduction(w, 0, total, n, "pending_approval")
<1>1. /\ Len(deductions) < MaxDeductions /\ deductions' = Append(deductions, x)
      /\ incidents' = incidents /\ NotLosses
  BY DEF CreateSalaryDeduction
<1>2. x \in Deduction /\ NothingTaken(x)
  <2>1. total \in Amount /\ n \in Amount
    BY PayrollAssumption
  <2> QED
    BY <2>1, NewDeductionIs
<1> HIDE DEF x
<1>3. /\ deductions' \in Seq(Deduction) /\ Len(deductions') <= MaxDeductions
      /\ DOMAIN deductions' = DOMAIN deductions \cup {Len(deductions) + 1}
      /\ \A d \in DOMAIN deductions : SameMoney(deductions[d], deductions'[d])
      /\ \A d \in DOMAIN deductions' \ DOMAIN deductions : NothingTaken(deductions'[d])
  BY <1>1, <1>2, DeductionAdded
<1>4. DOMAIN deductions \subseteq DOMAIN deductions'
  BY <1>3
<1> QED
  BY <1>1, <1>3, <1>4, DeductionsEdited

LEMMA DeductionDecided ==
    ASSUME LedgerOK, PayInv, NEW d \in DOMAIN deductions, NEW approve \in BOOLEAN,
           DecideSalaryDeduction(d, approve)
    PROVE  PayInv' /\ UNCHANGED financeVars
<1> DEFINE s == IF approve THEN "active" ELSE "rejected"
<1>1. deductions' = [deductions EXCEPT ![d].status = s] /\ incidents' = incidents /\ NotLosses
  BY DEF DecideSalaryDeduction
<1>2. s \in {"pending_approval", "active", "completed", "rejected", "cancelled"}
  OBVIOUS
<1> HIDE DEF s
<1>3. /\ deductions' \in Seq(Deduction) /\ DOMAIN deductions' = DOMAIN deductions
      /\ Len(deductions') = Len(deductions)
      /\ \A e \in DOMAIN deductions : SameMoney(deductions[e], deductions'[e])
  BY <1>1, <1>2, DeductionMoved
<1>4. Len(deductions') <= MaxDeductions /\ DOMAIN deductions \subseteq DOMAIN deductions'
  BY <1>3 DEF PayInv, LossShape
<1> QED
  BY <1>1, <1>3, <1>4, DeductionsEdited

-----------------------------------------------------------------------------
(* A payroll is paid, or its payment reversed *)

\* Payroll p turns into x, paid or unpaid; its items and its total stay.
Turned(p, x) ==
    /\ x \in PayrollDoc /\ PayrollTo(p, x)
    /\ x.items = payrolls[p].items /\ x.total = payrolls[p].total
    /\ x.txn # 0 <=> x.status \in {"paid", "locked"} /\ x.total > 0

\* Deduction d has n[d] more taken from it by payroll p: less, where n[d] is below zero.
DeductionsTake(p, n) ==
    /\ deductions' = [d \in DOMAIN deductions |-> deductions'[d]]
    /\ \A d \in DOMAIN deductions :
          /\ deductions'[d] \in Deduction
          /\ deductions'[d].incident = deductions[d].incident
          /\ deductions'[d].total = deductions[d].total
          /\ deductions'[d].recovered = deductions[d].recovered + n[d]
          /\ deductions'[d].remaining = deductions[d].remaining - n[d]
          /\ deductions'[d].applied = [deductions[d].applied EXCEPT ![p] = @ + n[d]]

\* What an incident's deductions take, it recovers.
IncidentsRecover(n) ==
    /\ incidents' = [q \in DOMAIN incidents |-> incidents'[q]]
    /\ \A q \in DOMAIN incidents :
          /\ incidents'[q] \in Incident /\ IncidentFits(incidents'[q], deductions)
          /\ incidents'[q].recovered = incidents[q].recovered + Total(n, ForIncident(deductions, q))

LEMMA TurnedIs ==
    ASSUME PayInv, NEW p \in DOMAIN payrolls, NEW x, Turned(p, x)
    PROVE  /\ payrolls' \in Seq(PayrollDoc) /\ DOMAIN payrolls' = DOMAIN payrolls
           /\ Len(payrolls') = Len(payrolls) /\ payrolls'[p] = x
           /\ \A j \in DOMAIN payrolls : j # p => payrolls'[j] = payrolls[j]
           /\ \A j \in DOMAIN payrolls :
                 /\ payrolls'[j].items = payrolls[j].items /\ payrolls'[j].total = payrolls[j].total
                 /\ ListedOn(payrolls', j) = ListedOn(payrolls, j)
                 /\ \A d : Take(payrolls', j, d) = Take(payrolls, j, d)
           /\ IsPaid(payrolls', p) <=> x.status \in {"paid", "locked"}
           /\ \A j \in DOMAIN payrolls : j # p => (IsPaid(payrolls', j) <=> IsPaid(payrolls, j))
<1>1. payrolls \in Seq(PayrollDoc)
  BY DEF PayInv, PayrollShape
<1>2. /\ payrolls' \in Seq(PayrollDoc) /\ DOMAIN payrolls' = DOMAIN payrolls /\ payrolls'[p] = x
      /\ \A j \in DOMAIN payrolls : j # p => payrolls'[j] = payrolls[j]
  BY <1>1, OneEdited DEF Turned, PayrollTo
<1>3. Len(payrolls') = Len(payrolls)
  BY <1>1, <1>2, LenProperties, SeqDomain
<1>4. ASSUME NEW j \in DOMAIN payrolls
      PROVE  /\ payrolls'[j].items = payrolls[j].items /\ payrolls'[j].total = payrolls[j].total
             /\ ListedOn(payrolls', j) = ListedOn(payrolls, j)
             /\ \A d : Take(payrolls', j, d) = Take(payrolls, j, d)
  <2>1. payrolls'[j].items = payrolls[j].items /\ payrolls'[j].total = payrolls[j].total
    BY <1>2 DEF Turned
  <2> QED
    BY <2>1 DEF ListedOn, Take
<1> QED
  BY <1>2, <1>3, <1>4 DEF IsPaid

\* The deductions for an incident recover what is taken.
LEMMA RecoveredTurns ==
    ASSUME PayInv, NEW p, NEW n \in [DOMAIN deductions -> Int], DeductionsTake(p, n), NEW q
    PROVE  /\ RecoveredOn(deductions', q) = RecoveredOn(deductions, q) + Total(n, ForIncident(deductions, q))
           /\ RecoveredOn(deductions', q) \in Nat /\ DOMAIN deductions' = DOMAIN deductions
           /\ deductions' \in Seq(Deduction) /\ Len(deductions') = Len(deductions)
<1> DEFINE A == ForIncident(deductions, q)
           f == [d \in A |-> deductions[d].recovered]
           g == [d \in A |-> deductions'[d].recovered]
<1>1. deductions \in Seq(Deduction)
  BY DEF PayInv, LossShape
<1>2. deductions' \in Seq(Deduction) /\ DOMAIN deductions' = DOMAIN deductions /\ Len(deductions') = Len(deductions)
  BY <1>1, AllRewritten DEF DeductionsTake
<1>3. A \subseteq DOMAIN deductions /\ IsFiniteSet(A)
  <2>1. A \subseteq DOMAIN deductions
    BY DEF ForIncident
  <2> QED
    BY <1>1, <2>1, SeqDomain, FS_Subset
<1>4. ForIncident(deductions', q) = A
  <2>1. \A d : d \in ForIncident(deductions', q) <=> d \in A
    BY <1>2 DEF ForIncident, DeductionsTake
  <2> QED
    BY <2>1
<1>5. \A d \in A : deductions[d].recovered \in Nat /\ deductions'[d].recovered \in Nat
  <2>1. \A d \in A : deductions[d] \in Deduction /\ deductions'[d] \in Deduction
    BY <1>1, <1>2, <1>3, OneOf
  <2> QED
    BY <2>1 DEF Deduction
<1>6. \A d \in A : deductions'[d].recovered = deductions[d].recovered + n[d]
  BY <1>3 DEF DeductionsTake
<1>7. \A d \in A : n[d] \in Int
  BY <1>3
<1> HIDE DEF A
<1>8. Weighs(f, A) /\ Weighs(n, A) /\ \A d \in A : g[d] = f[d] + n[d]
  BY <1>3, <1>5, <1>6, <1>7 DEF Weighs
<1>9. DOMAIN f = A /\ DOMAIN g = A /\ \A d \in A : g[d] \in Nat
  BY <1>5
<1> HIDE DEF f, g
<1>10. Total(g, A) = Total(f, A) + Total(n, A)
  BY <1>8, TotalPlus
<1>11. SumFunction(g) = SumFunction(f) + Total(n, A) /\ SumFunction(g) \in Nat
  BY <1>3, <1>9, <1>10, SumIsTotal, SumType
<1> QED
  BY <1>2, <1>4, <1>11 DEF f, g, A, RecoveredOn

LEMMA AppliedTurns ==
    ASSUME NEW f \in [PayrollNumbers -> Nat], NEW p \in PayrollNumbers, NEW n \in Int,
           NEW g \in [PayrollNumbers -> Nat], g[p] = f[p] + n,
           \A x \in PayrollNumbers \ {p} : g[x] = f[x]
    PROVE  SumFunction(g) = SumFunction(f) + n /\ SumFunction(f) \in Nat /\ SumFunction(g) \in Nat
<1>1. IsFiniteSet(PayrollNumbers)
  BY PayrollAssumption, FS_Interval DEF PayrollNumbers
<1>2. DOMAIN f = PayrollNumbers /\ DOMAIN g = PayrollNumbers
  OBVIOUS
<1>4. \A x \in PayrollNumbers : f[x] \in Nat /\ g[x] \in Nat
  OBVIOUS
<1>5. Weighs(f, PayrollNumbers) /\ Weighs(g, PayrollNumbers)
  BY <1>1, <1>4 DEF Weighs
<1>6. Total(g, PayrollNumbers) - Total(f, PayrollNumbers) = g[p] - f[p]
  BY <1>5, TotalChangeOne
<1>7. SumFunction(f) \in Nat /\ SumFunction(g) \in Nat
  BY <1>1, <1>2, <1>4, SumType
<1>8. SumFunction(g) - SumFunction(f) = g[p] - f[p] /\ f[p] \in Nat
  BY <1>2, <1>4, <1>6, SumIsTotal
<1> QED
  BY <1>2, <1>7, <1>8

LEMMA MoneyTurned ==
    ASSUME PayInv, UNCHANGED salaries, DOMAIN allowances' = DOMAIN allowances,
           NEW p \in DOMAIN payrolls, NEW x, Turned(p, x),
           NEW n \in [DOMAIN deductions -> Int], DeductionsTake(p, n), IncidentsRecover(n),
           \A d \in DOMAIN deductions :
              deductions[d].applied[p] + n[d]
                 = IF x.status \in {"paid", "locked"} THEN Take(payrolls, p, d) ELSE 0
    PROVE  PayrollShape' /\ LossShape' /\ DeductionsAddUp' /\ IncidentsAddUp'
<1>1. /\ payrolls' \in Seq(PayrollDoc) /\ DOMAIN payrolls' = DOMAIN payrolls
      /\ Len(payrolls') = Len(payrolls) /\ payrolls'[p] = x
      /\ \A j \in DOMAIN payrolls : j # p => payrolls'[j] = payrolls[j]
      /\ \A j \in DOMAIN payrolls :
            /\ payrolls'[j].items = payrolls[j].items /\ payrolls'[j].total = payrolls[j].total
            /\ ListedOn(payrolls', j) = ListedOn(payrolls, j)
            /\ \A d : Take(payrolls', j, d) = Take(payrolls, j, d)
      /\ IsPaid(payrolls', p) <=> x.status \in {"paid", "locked"}
      /\ \A j \in DOMAIN payrolls : j # p => (IsPaid(payrolls', j) <=> IsPaid(payrolls, j))
  BY TurnedIs
<1>2. /\ DOMAIN deductions' = DOMAIN deductions /\ deductions' \in Seq(Deduction)
      /\ Len(deductions') = Len(deductions)
  BY RecoveredTurns
<1>3. /\ PayrollShape /\ LossShape /\ payrolls \in Seq(PayrollDoc) /\ incidents \in Seq(Incident)
      /\ deductions \in Seq(Deduction) /\ DeductionsAddUp /\ IncidentsAddUp
  BY DEF PayInv, PayrollShape, LossShape
<1>4. incidents' \in Seq(Incident) /\ DOMAIN incidents' = DOMAIN incidents
  BY <1>3, AllRewritten DEF IncidentsRecover
<1>5. PayrollShape'
  <2>1. ASSUME NEW q \in DOMAIN payrolls'
        PROVE  /\ payrolls'[q].txn # 0 <=> IsPaid(payrolls', q) /\ payrolls'[q].total > 0
               /\ ListedOn(payrolls', q) \subseteq DOMAIN allowances'
               /\ \A w \in DOMAIN payrolls'[q].items :
                     \A d \in DeductionNumbers \ DOMAIN deductions' : payrolls'[q].items[w].takes[d] = 0
    <3>1. payrolls'[q].txn # 0 <=> IsPaid(payrolls', q) /\ payrolls'[q].total > 0
      <4>1. CASE q = p
        BY <1>1, <4>1 DEF Turned
      <4>2. CASE q # p
        BY <1>1, <1>3, <4>2 DEF PayrollShape
      <4> QED
        BY <4>1, <4>2
    <3>2. ListedOn(payrolls', q) \subseteq DOMAIN allowances'
      BY <1>1, <1>3 DEF PayrollShape
    <3>3. q \in DOMAIN payrolls /\ payrolls'[q].items = payrolls[q].items
      BY <1>1
    <3>4. \A w \in DOMAIN payrolls[q].items :
             \A d \in DeductionNumbers \ DOMAIN deductions : payrolls[q].items[w].takes[d] = 0
      BY <1>3, <3>3 DEF PayrollShape
    <3> QED
      BY <1>2, <3>1, <3>2, <3>3, <3>4
  <2>2. salaries' \in [Staff -> Salary] /\ Len(payrolls') <= MaxPayrolls
    BY <1>1, <1>3 DEF PayrollShape
  <2> QED
    BY <1>1, <2>1, <2>2 DEF PayrollShape
<1>6. \A q \in DOMAIN incidents' : IncidentFits(incidents'[q], deductions')
  <2>1. \A q \in DOMAIN incidents : IncidentFits(incidents'[q], deductions)
    BY DEF IncidentsRecover
  <2> QED
    BY <1>2, <1>4, <2>1 DEF IncidentFits
<1>7. LossShape'
  <2>1. \A d \in DOMAIN deductions' : deductions'[d].incident \in {0} \cup DOMAIN incidents'
    BY <1>2, <1>3, <1>4 DEF LossShape, DeductionsTake
  <2>2. Len(deductions') <= MaxDeductions
    BY <1>2, <1>3 DEF LossShape
  <2> QED
    BY <1>2, <1>4, <1>6, <2>1, <2>2 DEF IncidentFits, LossShape, Undecided
<1>8. IncidentsAddUp'
  <2>1. ASSUME NEW q \in DOMAIN incidents' PROVE incidents'[q].recovered = RecoveredOn(deductions', q)
    <3>1. RecoveredOn(deductions', q) = RecoveredOn(deductions, q) + Total(n, ForIncident(deductions, q))
      BY RecoveredTurns
    <3>2. incidents[q].recovered = RecoveredOn(deductions, q)
      BY <1>3, <1>4 DEF IncidentsAddUp
    <3>3. incidents'[q].recovered = incidents[q].recovered + Total(n, ForIncident(deductions, q))
      BY <1>4 DEF IncidentsRecover
    <3> QED
      BY <3>1, <3>2, <3>3
  <2> QED
    BY <1>6, <2>1 DEF IncidentsAddUp, IncidentFits
<1>9. p \in PayrollNumbers
  BY <1>3, SeqDomain, PayrollAssumption DEF PayrollShape, PayrollNumbers
<1>10. DeductionsAddUp'
  <2>1. ASSUME NEW d \in DOMAIN deductions
        PROVE  /\ deductions'[d].total = deductions'[d].recovered + deductions'[d].remaining
               /\ deductions'[d].recovered = SumFunction(deductions'[d].applied)
               /\ \A j \in PayrollNumbers : deductions'[d].applied[j] =
                     IF j \in DOMAIN payrolls' /\ IsPaid(payrolls', j) THEN Take(payrolls', j, d) ELSE 0
    <3>1. deductions[d] \in Deduction /\ deductions'[d] \in Deduction /\ n[d] \in Int
      BY <1>2, <1>3, OneOf
    <3>2. /\ deductions[d].recovered \in Nat /\ deductions[d].remaining \in Nat
          /\ deductions[d].applied \in [PayrollNumbers -> Nat]
          /\ deductions'[d].applied \in [PayrollNumbers -> Nat]
      BY <3>1 DEF Deduction
    <3>3. /\ deductions'[d].total = deductions[d].total
          /\ deductions'[d].recovered = deductions[d].recovered + n[d]
          /\ deductions'[d].remaining = deductions[d].remaining - n[d]
          /\ deductions'[d].applied = [deductions[d].applied EXCEPT ![p] = @ + n[d]]
      BY DEF DeductionsTake
    <3>4. /\ deductions[d].total = deductions[d].recovered + deductions[d].remaining
          /\ deductions[d].recovered = SumFunction(deductions[d].applied)
          /\ \A j \in PayrollNumbers : deductions[d].applied[j] =
                IF j \in DOMAIN payrolls /\ IsPaid(payrolls, j) THEN Take(payrolls, j, d) ELSE 0
      BY <1>3 DEF DeductionsAddUp
    <3>5. deductions'[d].total = deductions'[d].recovered + deductions'[d].remaining
      BY <3>1, <3>2, <3>3, <3>4
    <3>6. deductions'[d].recovered = SumFunction(deductions'[d].applied)
      <4>1. /\ deductions'[d].applied[p] = deductions[d].applied[p] + n[d]
            /\ \A j \in PayrollNumbers \ {p} : deductions'[d].applied[j] = deductions[d].applied[j]
        BY <1>9, <3>2, <3>3
      <4>2. SumFunction(deductions'[d].applied) = SumFunction(deductions[d].applied) + n[d]
        <5> DEFINE before == deductions[d].applied
        <5> DEFINE after == deductions'[d].applied
        <5> DEFINE more == n[d]
        <5>1. /\ before \in [PayrollNumbers -> Nat] /\ after \in [PayrollNumbers -> Nat]
              /\ more \in Int /\ after[p] = before[p] + more
              /\ \A j \in PayrollNumbers \ {p} : after[j] = before[j]
          BY <3>1, <3>2, <4>1
        <5> HIDE DEF before, after, more
        <5>2. SumFunction(after) = SumFunction(before) + more
          BY <1>9, <5>1, AppliedTurns
        <5> QED
          BY <5>2 DEF before, after, more
      <4> QED
        BY <3>3, <3>4, <4>2
    <3>7. ASSUME NEW j \in PayrollNumbers
          PROVE  deductions'[d].applied[j] =
                    IF j \in DOMAIN payrolls' /\ IsPaid(payrolls', j) THEN Take(payrolls', j, d) ELSE 0
      <4>1. CASE j = p
        <5>1. deductions'[d].applied[p] = deductions[d].applied[p] + n[d]
          BY <1>9, <3>2, <3>3
        <5> QED
          BY <1>1, <4>1, <5>1
      <4>2. CASE j # p
        <5>1. deductions'[d].applied[j] = deductions[d].applied[j]
          BY <3>2, <3>3, <4>2
        <5> QED
          BY <1>1, <3>4, <4>2, <5>1
      <4> QED
        BY <4>1, <4>2
    <3> QED
      BY <3>5, <3>6, <3>7
  <2> QED
    BY <1>2, <2>1 DEF DeductionsAddUp
<1> QED
  BY <1>5, <1>7, <1>8, <1>10

\* Deduction e turned into x by taking n more for payroll p.
TakenFrom(e, x, p, n) ==
    /\ x \in Deduction /\ x.incident = e.incident /\ x.total = e.total
    /\ x.recovered = e.recovered + n /\ x.remaining = e.remaining - n
    /\ x.applied = [e.applied EXCEPT ![p] = @ + n]

\* The record of a deduction that payroll p takes from, or gives back to.
LEMMA DeductionTurned ==
    ASSUME NEW d \in Deduction, NEW p \in PayrollNumbers, NEW n \in Int,
           NEW r \in Nat, r = d.recovered + n, NEW m \in Nat, m = d.remaining - n,
           NEW a \in Nat, a = d.applied[p] + n,
           NEW s \in {"pending_approval", "active", "completed", "rejected", "cancelled"}
    PROVE  TakenFrom(d, [d EXCEPT !.recovered = r, !.remaining = m, !.applied[p] = a, !.status = s], p, n)
<1> DEFINE f == [d.applied EXCEPT ![p] = a]
           x == [d EXCEPT !.recovered = r, !.remaining = m, !.applied = f, !.status = s]
<1>1. d.applied \in [PayrollNumbers -> Nat]
  BY DEF Deduction
<1>2. f \in [PayrollNumbers -> Nat] /\ f = [d.applied EXCEPT ![p] = @ + n]
  BY <1>1
<1>3. [d EXCEPT !.recovered = r, !.remaining = m, !.applied[p] = a, !.status = s] = x
  BY DEF Deduction
<1> HIDE DEF f
<1>4. /\ x \in Deduction /\ x.incident = d.incident /\ x.total = d.total
      /\ x.recovered = r /\ x.remaining = m /\ x.applied = f
  BY <1>2 DEF Deduction
<1>5. TakenFrom(d, x, p, n)
  BY <1>2, <1>4 DEF TakenFrom
<1> QED
  BY <1>3, <1>5

LEMMA RecoveredIs ==
    ASSUME NEW inc \in Incident, NEW ds, IncidentFits(inc, ds), NEW n \in Int,
           inc.recovered + n \in Nat, inc.outstanding - n \in Nat, NEW scheduled \in BOOLEAN
    PROVE  /\ Recovered(inc, n, scheduled) \in Incident
           /\ IncidentFits(Recovered(inc, n, scheduled), ds)
           /\ Recovered(inc, n, scheduled).recovered = inc.recovered + n
<1> DEFINE next == [inc EXCEPT !.recovered = @ + n, !.outstanding = @ - n]
           s == IncidentStatus(next, scheduled)
           x == [next EXCEPT !.status = s]
<1>1. /\ next \in Incident /\ next.status = inc.status /\ next.staff = inc.staff
      /\ next.recovered = inc.recovered + n /\ next.outstanding = inc.outstanding - n
      /\ next.approved = inc.approved /\ next.cancelledOutstanding = inc.cancelledOutstanding
      /\ next.deduction = inc.deduction
  BY DEF Incident
<1>2. /\ s \in {"cancelled", "recovered", "partially_recovered", "recovery_scheduled", "approved"}
      /\ inc.status = "cancelled" => s = "cancelled"
  BY <1>1 DEF IncidentStatus
<1>3. Recovered(inc, n, scheduled) = x
  BY DEF Recovered
<1> HIDE DEF next, s
<1>4. /\ x \in Incident /\ x.status = s /\ x.staff = next.staff /\ x.recovered = next.recovered
      /\ x.outstanding = next.outstanding /\ x.approved = next.approved
      /\ x.cancelledOutstanding = next.cancelledOutstanding /\ x.deduction = next.deduction
  BY <1>1, <1>2 DEF Incident
<1> HIDE DEF x
<1>5. /\ inc.recovered \in Nat /\ inc.outstanding \in Nat /\ inc.cancelledOutstanding \in Nat
      /\ inc.approved \in Nat
  BY DEF Incident
<1>6. IncidentFits(x, ds)
  BY <1>1, <1>2, <1>4, <1>5 DEF IncidentFits
<1> QED
  BY <1>1, <1>3, <1>4, <1>6

LEMMA TakesAreNat ==
    ASSUME PayInv, NEW p \in DOMAIN payrolls
    PROVE  /\ p \in PayrollNumbers
           /\ \A d \in DOMAIN deductions :
                 /\ Take(payrolls, p, d) \in Nat /\ Take(payrolls, p, d) = TakeOf(p, d)
                 /\ d \in DeductionNumbers /\ deductions[d] \in Deduction
                 /\ deductions[d].applied[p] = IF IsPaid(payrolls, p) THEN Take(payrolls, p, d) ELSE 0
<1>1. /\ payrolls \in Seq(PayrollDoc) /\ Len(payrolls) <= MaxPayrolls
      /\ deductions \in Seq(Deduction) /\ Len(deductions) <= MaxDeductions /\ DeductionsAddUp
  BY DEF PayInv, PayrollShape, LossShape
<1>2. p \in PayrollNumbers
  BY <1>1, SeqDomain, PayrollAssumption DEF PayrollNumbers
<1>3. DOMAIN deductions \subseteq DeductionNumbers
  BY <1>1, SeqDomain, PayrollAssumption DEF DeductionNumbers
<1>4. \A d \in DOMAIN deductions : Take(payrolls, p, d) \in Nat
  BY <1>1, <1>3, TakeType
<1>5. \A d \in DOMAIN deductions : deductions[d] \in Deduction
  BY <1>1, OneOf
<1>6. \A d : Take(payrolls, p, d) = TakeOf(p, d)
  BY DEF Take, TakeOf
<1> QED
  BY <1>1, <1>2, <1>3, <1>4, <1>5, <1>6 DEF DeductionsAddUp

LEMMA NothingTakenFrom ==
    ASSUME NEW e \in Deduction, NEW p \in PayrollNumbers
    PROVE  TakenFrom(e, e, p, 0)
<1>1. e.applied \in [PayrollNumbers -> Nat] /\ e.recovered \in Nat /\ e.remaining \in Nat
  BY DEF Deduction
<1>2. e.applied = [e.applied EXCEPT ![p] = @ + 0]
  BY <1>1
<1> QED
  BY <1>1, <1>2 DEF TakenFrom

LEMMA SomethingTakenFrom ==
    ASSUME NEW e \in Deduction, NEW p \in PayrollNumbers, NEW k \in Nat, e.applied[p] = 0,
           e.remaining >= k, NEW s \in {"completed", "active"}
    PROVE  TakenFrom(e, [e EXCEPT !.recovered = @ + k, !.remaining = @ - k, !.applied[p] = k,
                                  !.status = s], p, k)
<1> DEFINE r == e.recovered + k
           m == e.remaining - k
<1>1. e.recovered \in Nat /\ e.remaining \in Nat
  BY DEF Deduction
<1>2. r \in Nat /\ m \in Nat /\ k \in Int /\ k = e.applied[p] + k
  BY <1>1
<1>3. r = e.recovered + k /\ m = e.remaining - k
  OBVIOUS
<1>4. s \in {"pending_approval", "active", "completed", "rejected", "cancelled"}
  OBVIOUS
<1> HIDE DEF r, m
<1>5. TakenFrom(e, [e EXCEPT !.recovered = r, !.remaining = m, !.applied[p] = k, !.status = s], p, k)
  BY <1>2, <1>3, <1>4, DeductionTurned
<1> QED
  BY <1>5 DEF r, m

Takes(p) ==
    deductions' = [d \in DOMAIN deductions |->
        IF d \notin TakenBy(p) THEN deductions[d]
        ELSE LET n == TakeOf(p, d)
             IN  [deductions[d] EXCEPT
                     !.recovered = @ + n, !.remaining = @ - n, !.applied[p] = n,
                     !.status = IF deductions[d].remaining = n THEN "completed" ELSE "active"]]

\* Every deduction the items of a payroll take from takes that when it is paid.
LEMMA PaidDeductions ==
    ASSUME PayInv, NEW p \in DOMAIN payrolls, ~IsPaid(payrolls, p), StillDue(p), Takes(p)
    PROVE  DeductionsTake(p, [d \in DOMAIN deductions |-> Take(payrolls, p, d)])
<1> DEFINE n == [d \in DOMAIN deductions |-> Take(payrolls, p, d)]
<1>0. deductions' = [d \in DOMAIN deductions |-> deductions'[d]]
  BY DEF Takes
<1>1. ASSUME NEW d \in DOMAIN deductions PROVE TakenFrom(deductions[d], deductions'[d], p, n[d])
  <2> DEFINE k == Take(payrolls, p, d)
             e == deductions[d]
             s == IF e.remaining = k THEN "completed" ELSE "active"
  <2>1. /\ k \in Nat /\ k = TakeOf(p, d) /\ p \in PayrollNumbers /\ e \in Deduction
        /\ e.applied[p] = 0
    BY TakesAreNat
  <2>2. n[d] = k /\ s \in {"completed", "active"}
    OBVIOUS
  <2>3. d \in TakenBy(p) <=> k > 0
    BY <2>1 DEF TakenBy
  <2>4. CASE d \notin TakenBy(p)
    <3>1. deductions'[d] = e
      BY <2>4 DEF Takes
    <3> HIDE DEF k, n, e
    <3>2. k = 0
      BY <2>1, <2>3, <2>4
    <3> QED
      BY <2>1, <2>2, <3>1, <3>2, NothingTakenFrom DEF e
  <2>5. CASE d \in TakenBy(p)
    <3>1. e.remaining >= k
      BY <2>1, <2>5 DEF StillDue
    <3>2. deductions'[d] = [e EXCEPT !.recovered = @ + k, !.remaining = @ - k,
                                     !.applied[p] = k, !.status = s]
      BY <2>1, <2>5 DEF Takes
    <3> HIDE DEF k, n, e, s
    <3>3. TakenFrom(e, [e EXCEPT !.recovered = @ + k, !.remaining = @ - k,
                                 !.applied[p] = k, !.status = s], p, k)
      BY <2>1, <2>2, <3>1, SomethingTakenFrom
    <3>4. TakenFrom(e, deductions'[d], p, n[d])
      BY <2>2, <3>2, <3>3
    <3> QED
      BY <3>4 DEF e
  <2> QED
    BY <2>4, <2>5
<1> QED
  BY <1>0, <1>1 DEF DeductionsTake, TakenFrom

LEMMA RecoveryIs ==
    ASSUME PayInv, NEW p \in DOMAIN payrolls, NEW q
    PROVE  /\ RecoveryOf(p, q) = Total([d \in DOMAIN deductions |-> Take(payrolls, p, d)],
                                       ForIncident(deductions, q))
           /\ RecoveryOf(p, q) \in Nat
<1> DEFINE n == [d \in DOMAIN deductions |-> Take(payrolls, p, d)]
           A == ForIncident(deductions, q)
           B == {d \in TakenBy(p) : deductions[d].incident = q}
           f == [d \in B |-> TakeOf(p, d)]
<1>1. deductions \in Seq(Deduction)
  BY DEF PayInv, LossShape
<1>2. A \subseteq DOMAIN deductions /\ IsFiniteSet(A)
  <2>1. A \subseteq DOMAIN deductions
    BY DEF ForIncident
  <2> QED
    BY <1>1, <2>1, SeqDomain, FS_Subset
<1>3. \A d \in A : n[d] = TakeOf(p, d) /\ n[d] \in Nat
  BY <1>2, TakesAreNat
<1>4. B \subseteq A /\ \A d \in A \ B : n[d] = 0
  BY <1>2, <1>3 DEF ForIncident, TakenBy
<1>5. DOMAIN f = B /\ \A d \in B : f[d] = n[d]
  BY <1>3, <1>4
<1>6. \A d \in B : f[d] \in Nat
  BY <1>3, <1>4, <1>5
<1> HIDE DEF n, A, B, f
<1>7. Weighs(n, A) /\ IsFiniteSet(B)
  BY <1>2, <1>3, <1>4, FS_Subset DEF Weighs
<1>8. Total(n, A) = Total(n, B)
  BY <1>4, <1>7, TotalPart
<1>9. Total(n, B) = Total(f, B)
  BY <1>5, <1>7, TotalSame
<1>10. SumFunction(f) = Total(n, A) /\ SumFunction(f) \in Nat
  BY <1>5, <1>6, <1>7, <1>8, <1>9, SumIsTotal, SumType
<1> QED
  BY <1>10 DEF n, A, B, f, RecoveryOf

Recovers(p) ==
    incidents' = [q \in DOMAIN incidents |->
        IF RecoveryOf(p, q) = 0 THEN incidents[q]
        ELSE Recovered(incidents[q], RecoveryOf(p, q), TRUE)]

LEMMA PaidIncidents ==
    ASSUME PayInv, NEW p \in DOMAIN payrolls, StillDue(p), Recovers(p)
    PROVE  IncidentsRecover([d \in DOMAIN deductions |-> Take(payrolls, p, d)])
<1> DEFINE n == [d \in DOMAIN deductions |-> Take(payrolls, p, d)]
<1>0. incidents' = [q \in DOMAIN incidents |-> incidents'[q]]
  BY DEF Recovers
<1>1. ASSUME NEW q \in DOMAIN incidents
      PROVE  /\ incidents'[q] \in Incident /\ IncidentFits(incidents'[q], deductions)
             /\ incidents'[q].recovered = incidents[q].recovered + Total(n, ForIncident(deductions, q))
  <2> DEFINE k == RecoveryOf(p, q)
             inc == incidents[q]
  <2>1. k = Total(n, ForIncident(deductions, q)) /\ k \in Nat
    BY RecoveryIs
  <2>2. inc \in Incident /\ IncidentFits(inc, deductions)
    BY IncidentsFit
  <2>3. inc.recovered \in Nat /\ inc.outstanding \in Nat
    BY <2>2 DEF Incident
  <2>4. k > 0 => inc.outstanding >= k
    BY DEF StillDue
  <2>5. incidents'[q] = IF k = 0 THEN inc ELSE Recovered(inc, k, TRUE)
    BY DEF Recovers
  <2> HIDE DEF k, inc, n
  <2>6. CASE k = 0
    <3>1. incidents'[q] = inc /\ inc.recovered = inc.recovered + k
      BY <2>3, <2>5, <2>6
    <3> QED
      BY <2>1, <2>2, <3>1 DEF inc
  <2>7. CASE k # 0
    <3>1. k \in Int /\ inc.recovered + k \in Nat /\ inc.outstanding - k \in Nat
      BY <2>1, <2>3, <2>4, <2>7
    <3>2. /\ Recovered(inc, k, TRUE) \in Incident
          /\ IncidentFits(Recovered(inc, k, TRUE), deductions)
          /\ Recovered(inc, k, TRUE).recovered = inc.recovered + k
      BY <2>2, <3>1, RecoveredIs
    <3> QED
      BY <2>1, <2>5, <2>7, <3>2 DEF inc
  <2> QED
    BY <2>6, <2>7
<1> QED
  BY <1>0, <1>1 DEF IncidentsRecover

DirectlyPaid(al, k) == al[k].status = "paid" /\ al[k].via = "direct"

\* What entries for allowances paid stays what they paid.
LEMMA BatchesStay ==
    ASSUME LedgerOK, PayInv, Spares("allowance_payment"), DOMAIN allowances' = DOMAIN allowances,
           \A k \in DOMAIN allowances :
              \/ allowances'[k] = allowances[k]
              \/ ~DirectlyPaid(allowances, k) /\ ~DirectlyPaid(allowances', k)
    PROVE  /\ \A k \in DOMAIN allowances' : DirectlyPaid(allowances', k) =>
                 /\ allowances'[k].txn \in DOMAIN ledger'
                 /\ ledger'[allowances'[k].txn].type = "allowance_payment"
           /\ \A i \in DOMAIN ledger' : ledger'[i].type = "allowance_payment" =>
                 (IF ledger'[i].posted THEN ledger'[i].amount ELSE 0)
                    = Approved(allowances', BatchOf(allowances', i))
<1>1. allowances \in Seq(Allowance) /\ AllowancesPaid
  BY DEF PayInv, AllowanceShape
<1>2. PICK S : /\ Turns(S) /\ \A j \in S : ledger[j].type # "allowance_payment"
               /\ \A j \in Added : ledger'[j].type # "allowance_payment"
  BY DEF Spares
<1>3. /\ EntryNumbers \subseteq DOMAIN ledger'
      /\ \A j \in EntryNumbers : /\ ledger'[j].type = ledger[j].type /\ ledger'[j].amount = ledger[j].amount
                                 /\ ledger'[j].posted <=> ledger[j].posted /\ j \notin S
      /\ \A j \in DOMAIN ledger' : j \notin EntryNumbers => ledger'[j].type # "allowance_payment"
  BY <1>2 DEF Turns, Added, EntryNumbers
<1>4. ASSUME NEW k \in DOMAIN allowances', DirectlyPaid(allowances', k)
      PROVE  /\ allowances'[k].txn \in DOMAIN ledger'
             /\ ledger'[allowances'[k].txn].type = "allowance_payment"
  <2>1. allowances'[k] = allowances[k] /\ k \in DOMAIN allowances
    BY <1>4
  <2>2. allowances[k].txn \in EntryNumbers /\ ledger[allowances[k].txn].type = "allowance_payment"
    BY <1>1, <1>4, <2>1 DEF AllowancesPaid, DirectlyPaid
  <2> QED
    BY <1>3, <2>1, <2>2
<1>5. ASSUME NEW i \in DOMAIN ledger', ledger'[i].type = "allowance_payment"
      PROVE  (IF ledger'[i].posted THEN ledger'[i].amount ELSE 0) = Approved(allowances', BatchOf(allowances', i))
  <2>1. i \in EntryNumbers /\ ledger[i].type = "allowance_payment"
    BY <1>3, <1>5
  <2>2. \A k : k \in BatchOf(allowances', i) <=> k \in BatchOf(allowances, i)
    BY DEF BatchOf, DirectlyPaid
  <2>3. BatchOf(allowances', i) = BatchOf(allowances, i) /\ BatchOf(allowances, i) \subseteq DOMAIN allowances
    BY <2>2 DEF BatchOf
  <2>4. \A k \in BatchOf(allowances, i) : allowances'[k].approvedAmount = allowances[k].approvedAmount
    BY DEF BatchOf, DirectlyPaid
  <2>5. Approved(allowances', BatchOf(allowances', i)) = Approved(allowances, BatchOf(allowances, i))
    BY <1>1, <2>3, <2>4, ApprovedSame
  <2>6. (IF ledger[i].posted THEN ledger[i].amount ELSE 0) = Approved(allowances, BatchOf(allowances, i))
    BY <1>1, <2>1 DEF AllowancesPaid
  <2>7. i \notin S
    BY <1>2, <2>1
  <2> QED
    BY <1>3, <2>1, <2>5, <2>6, <2>7
<1> QED
  BY <1>4, <1>5

LEMMA PayrollPaid ==
    ASSUME LedgerOK, PayInv, NEW p \in DOMAIN payrolls, NEW r \in PaymentIds, NEW a \in AccountIds,
           PayPayroll(r, p, a)
    PROVE  PayInv' /\ LedgerOK' /\ \A t : t # "payroll_payment" => Spares(t)
<1> DEFINE total == payrolls[p].total
           N == Len(ledger) + 1
           txn == IF total > 0 THEN N ELSE 0
           x == [payrolls[p] EXCEPT !.status = "paid", !.txn = txn]
           n == [d \in DOMAIN deductions |-> Take(payrolls, p, d)]
           Out(k, al) == al[k] = IF k \notin ListedOn(payrolls, p) THEN allowances[k]
                                 ELSE [allowances[k] EXCEPT !.status = "paid", !.via = "payroll", !.txn = txn,
                                                            !.payroll = p]
<1>1. /\ payrolls[p].status = "approved" /\ StillDue(p)
      /\ (IF total > 0 THEN PostFor(r, "payroll_payment", total, a, None, p) ELSE NothingToPay(r))
      /\ Takes(p) /\ Recovers(p) /\ PayrollTo(p, x)
      /\ UNCHANGED salaries /\ UNCHANGED attendance
  BY DEF PayPayroll, PayOut, Takes, Recovers, PayrollTo, NextNumber
<1>2. /\ allowances' = [k \in DOMAIN allowances |-> allowances'[k]]
      /\ \A k \in DOMAIN allowances : Out(k, allowances')
  <2>1. AllowancesOf(p) = ListedOn(payrolls, p)
    BY DEF AllowancesOf, ItemsOf, ListedOn
  <2> QED
    BY <2>1 DEF PayPayroll, NextNumber
<1>3. /\ PayrollShape /\ AllowanceShape /\ AllowancesPaid /\ payrolls \in Seq(PayrollDoc)
      /\ allowances \in Seq(Allowance) /\ Settled(ledger, "payroll_payment", PayrollClaims(payrolls))
  BY DEF PayInv, PayrollShape, AllowanceShape
<1>4. /\ payrolls[p] \in PayrollDoc /\ p \in Nat /\ total \in Nat
      /\ ~IsPaid(payrolls, p) /\ payrolls[p].txn = 0
  BY <1>1, <1>3, PayrollDocIs DEF IsPaid, PayrollShape
<1>5. N \in Nat /\ N # 0 /\ txn \in Nat /\ (txn # 0 <=> total > 0)
  BY <1>4, DayNumber
<1> HIDE DEF txn
<1>6. Turned(p, x) /\ x.txn = txn /\ x.total = total /\ x.status = "paid"
  <2>1. x \in PayrollDoc /\ x.txn = txn /\ x.total = total /\ x.items = payrolls[p].items /\ x.status = "paid"
    BY <1>4, <1>5 DEF PayrollDoc, PayrollStatuses
  <2> HIDE DEF x, total
  <2> QED
    BY <1>1, <1>5, <2>1 DEF Turned, total
<1> HIDE DEF x, total
<1>7. /\ DOMAIN payrolls' = DOMAIN payrolls /\ payrolls'[p] = x
      /\ \A j \in DOMAIN payrolls : j # p => payrolls'[j] = payrolls[j]
      /\ \A j \in DOMAIN payrolls : ListedOn(payrolls', j) = ListedOn(payrolls, j)
      /\ IsPaid(payrolls', p)
      /\ \A j \in DOMAIN payrolls : j # p => (IsPaid(payrolls', j) <=> IsPaid(payrolls, j))
  BY <1>6, TurnedIs
<1>8. /\ LedgerOK' /\ Settled(ledger', "payroll_payment", PayrollClaims(payrolls'))
      /\ \A t : t # "payroll_payment" => Spares(t)
  <2> DEFINE c == PayrollClaims(payrolls)
             e == PayrollClaims(payrolls')
  <2>1. /\ DOMAIN c = DOMAIN payrolls /\ DOMAIN e = DOMAIN c /\ c[p].txn = 0
        /\ e[p].txn = txn /\ e[p].n = total
        /\ \A j \in DOMAIN c \ {p} : e[j].txn = c[j].txn /\ (c[j].txn # 0 => e[j].n = c[j].n)
    BY <1>4, <1>6, <1>7 DEF PayrollClaims
  <2>2. Settled(ledger, "payroll_payment", c)
    BY <1>3
  <2> HIDE DEF c, e
  <2>3. CASE total > 0
    <3>1. txn = N /\ PostFor(r, "payroll_payment", total, a, None, p)
      BY <1>1, <2>3 DEF txn
    <3>2. "payroll_payment" \in PostingTypes
      BY DEF PostingTypes, PayTypes
    <3>3. Books("payroll_payment", p, total) /\ LedgerOK'
      BY <1>4, <3>1, <3>2, PayBooks
    <3>4. Settled(ledger', "payroll_payment", e)
      BY <2>1, <2>2, <3>1, <3>3, SettledPaid
    <3> QED
      BY <3>3, <3>4, BooksSpares DEF e
  <2>4. CASE ~(total > 0)
    <3>1. ledger' = ledger /\ day' = day /\ txn = 0
      BY <1>1, <2>4 DEF NothingToPay, txn
    <3>2. LedgerOK' /\ \A t : Spares(t)
      BY <3>1, LedgerStays DEF LedgerOK
    <3>3. SameClaims(c, e)
      BY <2>1, <3>1 DEF SameClaims
    <3>4. Settled(ledger', "payroll_payment", e)
      BY <2>2, <3>2, <3>3, SettledSpared
    <3> QED
      BY <3>2, <3>4 DEF e
  <2> QED
    BY <2>3, <2>4
<1>9. ASSUME NEW k \in DOMAIN allowances
      PROVE  /\ allowances[k] \in Allowance
             /\ k \notin ListedOn(payrolls, p) => allowances'[k] = allowances[k]
             /\ k \in ListedOn(payrolls, p) =>
                   /\ allowances[k].status = "approved" /\ allowances'[k].status = "paid"
                   /\ allowances'[k].via = "payroll" /\ allowances'[k].txn = txn
                   /\ allowances'[k].payroll = p /\ allowances'[k].staff = allowances[k].staff
                   /\ allowances'[k] \in Allowance
  <2>1. allowances[k] \in Allowance
    BY <1>3, OneOf
  <2>2. k \notin ListedOn(payrolls, p) => allowances'[k] = allowances[k]
    BY <1>2
  <2>3. ASSUME k \in ListedOn(payrolls, p)
        PROVE  /\ allowances[k].status = "approved" /\ allowances'[k].status = "paid"
               /\ allowances'[k].via = "payroll" /\ allowances'[k].txn = txn
               /\ allowances'[k].payroll = p /\ allowances'[k].staff = allowances[k].staff
               /\ allowances'[k] \in Allowance
    <3> DEFINE y == [allowances[k] EXCEPT !.status = "paid", !.via = "payroll", !.txn = txn, !.payroll = p]
    <3>1. allowances'[k] = y
      BY <1>2, <2>3
    <3>2. allowances[k].status = "approved"
      BY <1>1, <2>3 DEF StillDue, AllowancesOf, ItemsOf, ListedOn
    <3>3. /\ y.status = "paid" /\ y.via = "payroll" /\ y.txn = txn /\ y.payroll = p
          /\ y.staff = allowances[k].staff /\ y \in Allowance
      BY <1>4, <1>5, <2>1 DEF Allowance
    <3> HIDE DEF y
    <3> QED
      BY <3>1, <3>2, <3>3
  <2> QED
    BY <2>1, <2>2, <2>3
<1> HIDE DEF Out
<1>10. AllowanceShape' /\ DOMAIN allowances' = DOMAIN allowances
  <2>1. \A k \in DOMAIN allowances :
           /\ allowances'[k] \in Allowance /\ allowances'[k].staff = allowances[k].staff
           /\ allowances'[k].status \in Live => allowances[k].status \in Live
    BY <1>9 DEF Live, Open
  <2> QED
    BY <1>1, <1>2, <1>3, <2>1, AllowancesRewritten
<1>11. PayrollShape' /\ LossShape' /\ DeductionsAddUp' /\ IncidentsAddUp'
  <2>1. \A d \in DOMAIN deductions : Take(payrolls, p, d) \in Nat /\ deductions[d].applied[p] = 0
    BY <1>4, TakesAreNat
  <2>2. n \in [DOMAIN deductions -> Int] /\ \A d \in DOMAIN deductions : n[d] = Take(payrolls, p, d)
    BY <2>1
  <2>3. DeductionsTake(p, n)
    BY <1>1, <1>4, PaidDeductions
  <2>4. IncidentsRecover(n)
    BY <1>1, PaidIncidents
  <2> HIDE DEF n
  <2>5. \A d \in DOMAIN deductions : deductions[d].applied[p] + n[d]
           = IF x.status \in {"paid", "locked"} THEN Take(payrolls, p, d) ELSE 0
    BY <1>6, <2>1, <2>2
  <2> QED
    BY <1>1, <1>6, <1>10, <2>2, <2>3, <2>4, <2>5, MoneyTurned
<1>12. ASSUME NEW k \in DOMAIN allowances
       PROVE  /\ Paying(payrolls', k) = IF allowances'[k].status = "paid" /\ allowances'[k].via = "payroll"
                                        THEN {allowances'[k].payroll} ELSE {}
              /\ allowances'[k].status = "paid" /\ allowances'[k].via = "payroll" =>
                    allowances'[k].txn = payrolls'[allowances'[k].payroll].txn
  <2>1. /\ Paying(payrolls, k) = IF allowances[k].status = "paid" /\ allowances[k].via = "payroll"
                                 THEN {allowances[k].payroll} ELSE {}
        /\ allowances[k].status = "paid" /\ allowances[k].via = "payroll" =>
              allowances[k].txn = payrolls[allowances[k].payroll].txn
    BY <1>3 DEF AllowancesPaid
  <2>2. \A j : j \in Paying(payrolls', k) <=> j \in Paying(payrolls, k) \/ (j = p /\ k \in ListedOn(payrolls, p))
    BY <1>7 DEF Paying
  <2>3. CASE k \in ListedOn(payrolls, p)
    <3>1. Paying(payrolls, k) = {}
      BY <1>9, <2>1, <2>3
    <3>2. Paying(payrolls', k) = {p}
      BY <2>2, <2>3, <3>1
    <3> QED
      BY <1>6, <1>7, <1>9, <2>3, <3>2
  <2>4. CASE k \notin ListedOn(payrolls, p)
    <3>1. Paying(payrolls', k) = Paying(payrolls, k) /\ allowances'[k] = allowances[k]
      BY <1>9, <2>2, <2>4
    <3>2. allowances[k].status = "paid" /\ allowances[k].via = "payroll" =>
             allowances[k].payroll \in DOMAIN payrolls /\ allowances[k].payroll # p
      BY <2>1, <2>4 DEF Paying
    <3> QED
      BY <1>7, <2>1, <3>1, <3>2
  <2> QED
    BY <2>3, <2>4
<1>13. AllowancesPaid'
  <2>1. \A k \in DOMAIN allowances :
           \/ allowances'[k] = allowances[k]
           \/ ~DirectlyPaid(allowances, k) /\ ~DirectlyPaid(allowances', k)
    BY <1>9 DEF DirectlyPaid
  <2>2. Spares("allowance_payment")
    BY <1>8
  <2>3. /\ \A k \in DOMAIN allowances' : DirectlyPaid(allowances', k) =>
                 /\ allowances'[k].txn \in DOMAIN ledger'
                 /\ ledger'[allowances'[k].txn].type = "allowance_payment"
        /\ \A i \in DOMAIN ledger' : ledger'[i].type = "allowance_payment" =>
                 (IF ledger'[i].posted THEN ledger'[i].amount ELSE 0)
                    = Approved(allowances', BatchOf(allowances', i))
    BY <1>10, <2>1, <2>2, BatchesStay
  <2> QED
    BY <1>10, <1>12, <2>3 DEF AllowancesPaid, DirectlyPaid, EntryNumbers
<1> QED
  BY <1>8, <1>10, <1>11, <1>13 DEF PayInv

GivesBack(p) ==
    deductions' = [d \in DOMAIN deductions |->
        IF d \notin GivenBack(p) THEN deductions[d]
        ELSE LET n == deductions[d].applied[p]
             IN  [deductions[d] EXCEPT
                     !.recovered = @ - n, !.remaining = @ + n, !.applied[p] = 0,
                     !.status = IF @ = "completed" THEN "active" ELSE @]]

\* What payroll p took, back again: minus that, by deduction.
Return(p) == [d \in DOMAIN deductions |-> -Take(payrolls, p, d)]

LEMMA SomethingGivenBack ==
    ASSUME NEW e \in Deduction, NEW p \in PayrollNumbers, NEW k \in Nat, e.applied[p] = k,
           e.recovered >= k
    PROVE  TakenFrom(e, [e EXCEPT !.recovered = @ - k, !.remaining = @ + k, !.applied[p] = 0,
                                  !.status = IF @ = "completed" THEN "active" ELSE @], p, -k)
<1> DEFINE r == e.recovered - k
           m == e.remaining + k
           n == -k
           a == 0
           s == IF e.status = "completed" THEN "active" ELSE e.status
<1>1. e.recovered \in Nat /\ e.remaining \in Nat
  BY DEF Deduction
<1>2. r \in Nat /\ m \in Nat /\ n \in Int /\ a \in Nat /\ a = e.applied[p] + n
  BY <1>1
<1>3. r = e.recovered + n /\ m = e.remaining - n
  BY <1>1
<1>4. s \in {"pending_approval", "active", "completed", "rejected", "cancelled"}
  BY DEF Deduction
<1>5. [e EXCEPT !.recovered = @ - k, !.remaining = @ + k, !.applied[p] = 0,
                !.status = IF @ = "completed" THEN "active" ELSE @]
         = [e EXCEPT !.recovered = r, !.remaining = m, !.applied[p] = a, !.status = s]
  OBVIOUS
<1> HIDE DEF r, m, n, s, a
<1>6. TakenFrom(e, [e EXCEPT !.recovered = r, !.remaining = m, !.applied[p] = a, !.status = s], p, n)
  BY <1>2, <1>3, <1>4, DeductionTurned
<1> QED
  BY <1>5, <1>6 DEF n

\* A deduction recovered at least what one payroll took.
LEMMA AppliedWithin ==
    ASSUME PayInv, NEW p \in PayrollNumbers, NEW d \in DOMAIN deductions
    PROVE  deductions[d].applied[p] <= deductions[d].recovered
<1> DEFINE f == deductions[d].applied
<1>1. deductions[d] \in Deduction
  BY OneOf DEF PayInv, LossShape
<1>2. f \in [PayrollNumbers -> Nat]
  BY <1>1 DEF Deduction
<1>3. IsFiniteSet(PayrollNumbers)
  BY PayrollAssumption, FS_Interval DEF PayrollNumbers
<1>4. deductions[d].recovered = SumFunction(f)
  BY DEF PayInv, DeductionsAddUp
<1> HIDE DEF f
<1>5. f[p] <= Total(f, PayrollNumbers)
  BY <1>2, <1>3, TotalNat
<1>6. SumFunction(f) = Total(f, PayrollNumbers)
  BY <1>2, SumIsTotal
<1> QED
  BY <1>4, <1>5, <1>6 DEF f

LEMMA ReturnedDeductions ==
    ASSUME PayInv, NEW p \in DOMAIN payrolls, IsPaid(payrolls, p), GivesBack(p)
    PROVE  DeductionsTake(p, Return(p)) /\ Return(p) \in [DOMAIN deductions -> Int]
<1> DEFINE n == Return(p)
<1>0. deductions' = [d \in DOMAIN deductions |-> deductions'[d]]
  BY DEF GivesBack
<1>1. ASSUME NEW d \in DOMAIN deductions
      PROVE  TakenFrom(deductions[d], deductions'[d], p, n[d]) /\ n[d] \in Int
  <2> DEFINE k == Take(payrolls, p, d)
             e == deductions[d]
  <2>1. /\ k \in Nat /\ k = TakeOf(p, d) /\ p \in PayrollNumbers /\ e \in Deduction
        /\ e.applied[p] = k
    BY TakesAreNat
  <2>2. n[d] = -k /\ n[d] \in Int
    BY <2>1 DEF Return
  <2>3. d \in GivenBack(p) <=> k > 0
    BY <2>1 DEF TakenBy, GivenBack
  <2>4. CASE d \notin GivenBack(p)
    <3>1. deductions'[d] = e
      BY <2>4 DEF GivesBack
    <3> HIDE DEF k, n, e
    <3>2. n[d] = 0
      BY <2>1, <2>2, <2>3, <2>4
    <3>3. TakenFrom(e, deductions'[d], p, n[d])
      BY <2>1, <3>1, <3>2, NothingTakenFrom
    <3> QED
      BY <2>2, <3>3 DEF e
  <2>5. CASE d \in GivenBack(p)
    <3>1. e.recovered >= k
      <4>1. e.applied[p] <= e.recovered
        BY <2>1, AppliedWithin
      <4>2. e.recovered \in Nat
        BY <2>1 DEF Deduction
      <4> HIDE DEF e, k
      <4> QED
        BY <2>1, <4>1, <4>2
    <3>2. deductions'[d] = [e EXCEPT !.recovered = @ - k, !.remaining = @ + k, !.applied[p] = 0,
                                     !.status = IF @ = "completed" THEN "active" ELSE @]
      BY <2>1, <2>5 DEF GivesBack
    <3> HIDE DEF k, n, e
    <3>3. TakenFrom(e, [e EXCEPT !.recovered = @ - k, !.remaining = @ + k, !.applied[p] = 0,
                                 !.status = IF @ = "completed" THEN "active" ELSE @], p, -k)
      BY <2>1, <3>1, SomethingGivenBack
    <3>4. TakenFrom(e, deductions'[d], p, n[d])
      BY <2>2, <3>2, <3>3
    <3> QED
      BY <2>2, <3>4 DEF e
  <2> QED
    BY <2>4, <2>5
<1>2. n = [d \in DOMAIN deductions |-> n[d]]
  BY DEF Return
<1> HIDE DEF n
<1>3. n \in [DOMAIN deductions -> Int]
  BY <1>1, <1>2
<1> QED
  BY <1>0, <1>1, <1>3 DEF DeductionsTake, TakenFrom, n

\* The deductions for incident q that payroll p gives back to, together.
Refund(p, q) == SumFunction([d \in GivesBackTo(p, q) |-> deductions[d].applied[p]])

LEMMA RefundIs ==
    ASSUME PayInv, NEW p \in DOMAIN payrolls, IsPaid(payrolls, p), NEW q
    PROVE  /\ Refund(p, q) \in Nat /\ (GivesBackTo(p, q) = {} => Refund(p, q) = 0)
           /\ Total(Return(p), ForIncident(deductions, q)) = -Refund(p, q)
<1> DEFINE n == Return(p)
           A == ForIncident(deductions, q)
           B == GivesBackTo(p, q)
           f == [d \in B |-> deductions[d].applied[p]]
<1>1. deductions \in Seq(Deduction)
  BY DEF PayInv, LossShape
<1>2. A \subseteq DOMAIN deductions /\ IsFiniteSet(A)
  <2>1. A \subseteq DOMAIN deductions
    BY DEF ForIncident
  <2> QED
    BY <1>1, <2>1, SeqDomain, FS_Subset
<1>3. ASSUME NEW d \in A
      PROVE  /\ deductions[d].applied[p] \in Nat /\ n[d] = -deductions[d].applied[p]
             /\ d \in B <=> deductions[d].applied[p] > 0
  <2>1. d \in DOMAIN deductions /\ deductions[d].incident = q
    BY DEF ForIncident
  <2>2. /\ Take(payrolls, p, d) \in Nat /\ Take(payrolls, p, d) = TakeOf(p, d)
        /\ deductions[d].applied[p] = Take(payrolls, p, d)
    BY <2>1, TakesAreNat
  <2> QED
    BY <2>1, <2>2 DEF Return, GivesBackTo, GivenBack, TakenBy
<1>4. B \subseteq A
  BY DEF ForIncident, GivesBackTo, GivenBack, TakenBy
<1>5. DOMAIN f = B /\ \A d \in B : f[d] = deductions[d].applied[p]
  OBVIOUS
<1> HIDE DEF n, A, B, f
<1>6. \A d \in A : n[d] \in Int
  BY <1>3
<1>7. \A d \in A \ B : n[d] = 0
  BY <1>3
<1>8. \A d \in B : f[d] \in Nat /\ n[d] = (-1) * f[d]
  BY <1>3, <1>4, <1>5
<1>9. Weighs(n, A) /\ IsFiniteSet(B) /\ Weighs(f, B)
  <2>1. IsFiniteSet(B)
    BY <1>2, <1>4, FS_Subset
  <2>2. \A d \in B : f[d] \in Int
    BY <1>8
  <2> QED
    BY <1>2, <1>6, <2>1, <2>2 DEF Weighs
<1>10. Total(n, A) = Total(n, B)
  BY <1>4, <1>7, <1>9, TotalPart
<1>11. Total(n, B) = (-1) * Total(f, B)
  <2> DEFINE minus == -1
  <2>1. minus \in Int /\ \A d \in B : n[d] = minus * f[d]
    BY <1>8
  <2> HIDE DEF minus
  <2>2. Total(n, B) = minus * Total(f, B)
    BY <1>9, <2>1, TotalScaled
  <2> QED
    BY <2>2 DEF minus
<1>12. SumFunction(f) = Total(f, B) /\ SumFunction(f) \in Nat
  BY <1>5, <1>8, <1>9, SumIsTotal, SumType
<1>13. B = {} => SumFunction(f) = 0
  BY <1>5, SumOfNone
<1>14. Total(n, A) = -SumFunction(f)
  BY <1>10, <1>11, <1>12
<1> QED
  BY <1>12, <1>13, <1>14 DEF n, A, B, f, Refund

Refunds(p) ==
    incidents' = [q \in DOMAIN incidents |->
        LET back == GivesBackTo(p, q)
        IN  IF back = {} THEN incidents[q]
            ELSE Recovered(incidents[q], -SumFunction([d \in back |-> deductions[d].applied[p]]),
                           deductions[Max(back)].status # "cancelled")]

LEMMA ReturnedIncidents ==
    ASSUME PayInv, NEW p \in DOMAIN payrolls, IsPaid(payrolls, p), GivesBack(p), Refunds(p)
    PROVE  IncidentsRecover(Return(p))
<1> DEFINE n == Return(p)
<1>0. incidents' = [q \in DOMAIN incidents |-> incidents'[q]]
  BY DEF Refunds
<1>1. ASSUME NEW q \in DOMAIN incidents
      PROVE  /\ incidents'[q] \in Incident /\ IncidentFits(incidents'[q], deductions)
             /\ incidents'[q].recovered = incidents[q].recovered + Total(n, ForIncident(deductions, q))
  <2> DEFINE k == Refund(p, q)
             inc == incidents[q]
             scheduled == deductions[Max(GivesBackTo(p, q))].status # "cancelled"
  <2>1. /\ k \in Nat /\ (GivesBackTo(p, q) = {} => k = 0)
        /\ Total(n, ForIncident(deductions, q)) = -k
    BY RefundIs
  <2>2. inc \in Incident /\ IncidentFits(inc, deductions)
    BY IncidentsFit
  <2>3. inc.recovered \in Nat /\ inc.outstanding \in Nat
    BY <2>2 DEF Incident
  <2>4. inc.recovered - k \in Nat
    <3>1. /\ RecoveredOn(deductions', q) = RecoveredOn(deductions, q) + Total(n, ForIncident(deductions, q))
          /\ RecoveredOn(deductions', q) \in Nat
      BY ReturnedDeductions, RecoveredTurns
    <3>2. inc.recovered = RecoveredOn(deductions, q)
      BY DEF PayInv, IncidentsAddUp
    <3> HIDE DEF k, inc, n
    <3> QED
      BY <2>1, <2>3, <3>1, <3>2
  <2>5. incidents'[q] = IF GivesBackTo(p, q) = {} THEN inc ELSE Recovered(inc, -k, scheduled)
    BY DEF Refunds, Refund
  <2>6. scheduled \in BOOLEAN
    OBVIOUS
  <2> HIDE DEF k, inc, n, scheduled
  <2>7. CASE GivesBackTo(p, q) = {}
    <3>1. incidents'[q] = inc /\ inc.recovered = inc.recovered + (-k)
      BY <2>1, <2>3, <2>5, <2>7
    <3> QED
      BY <2>1, <2>2, <3>1 DEF inc
  <2>8. CASE GivesBackTo(p, q) # {}
    <3>1. -k \in Int /\ inc.recovered + (-k) \in Nat /\ inc.outstanding - (-k) \in Nat
      BY <2>1, <2>3, <2>4
    <3> DEFINE m == -k
    <3> HIDE DEF m
    <3>2. m \in Int /\ inc.recovered + m \in Nat /\ inc.outstanding - m \in Nat
      BY <3>1 DEF m
    <3>3. /\ Recovered(inc, m, scheduled) \in Incident
          /\ IncidentFits(Recovered(inc, m, scheduled), deductions)
          /\ Recovered(inc, m, scheduled).recovered = inc.recovered + m
      BY <2>2, <2>6, <3>2, RecoveredIs
    <3>4. /\ incidents'[q] = Recovered(inc, m, scheduled)
          /\ Total(n, ForIncident(deductions, q)) = m
      BY <2>1, <2>5, <2>8 DEF m
    <3> QED
      BY <3>3, <3>4 DEF inc
  <2> QED
    BY <2>7, <2>8
<1> QED
  BY <1>0, <1>1 DEF IncidentsRecover

LEMMA PayrollUnpaid ==
    ASSUME LedgerOK, PayInv, NEW p \in DOMAIN payrolls, ReversePayrollPayment(p)
    PROVE  PayInv' /\ LedgerOK' /\ \A t : t # "payroll_payment" /\ t # "reversal" => Spares(t)
<1> DEFINE x == [payrolls[p] EXCEPT !.status = "approved", !.txn = 0]
           i == payrolls[p].txn
           Back(k, al) == al[k] = IF /\ k \in ListedOn(payrolls, p)
                                     /\ allowances[k].status = "paid" /\ allowances[k].payroll = p
                                  THEN UnpaidAgain(k) ELSE allowances[k]
<1>1. /\ payrolls[p].status = "paid"
      /\ (IF i # 0 THEN ReverseEntry(i) ELSE UNCHANGED financeVars)
      /\ GivesBack(p) /\ Refunds(p) /\ PayrollTo(p, x)
      /\ UNCHANGED salaries /\ UNCHANGED attendance
  BY DEF ReversePayrollPayment, GivesBack, Refunds, PayrollTo
<1>2. /\ allowances' = [k \in DOMAIN allowances |-> allowances'[k]]
      /\ \A k \in DOMAIN allowances : Back(k, allowances')
  <2>1. AllowancesOf(p) = ListedOn(payrolls, p)
    BY DEF AllowancesOf, ItemsOf, ListedOn
  <2> QED
    BY <2>1 DEF ReversePayrollPayment
<1>3. /\ PayrollShape /\ AllowanceShape /\ AllowancesPaid /\ payrolls \in Seq(PayrollDoc)
      /\ allowances \in Seq(Allowance) /\ Settled(ledger, "payroll_payment", PayrollClaims(payrolls))
  BY DEF PayInv, PayrollShape, AllowanceShape
<1>4. payrolls[p] \in PayrollDoc /\ p \in Nat /\ IsPaid(payrolls, p)
  BY <1>1, <1>3, PayrollDocIs DEF IsPaid
<1>5. Turned(p, x) /\ x.txn = 0 /\ x.status = "approved"
  <2>1. x \in PayrollDoc /\ x.txn = 0 /\ x.total = payrolls[p].total /\ x.items = payrolls[p].items /\ x.status = "approved"
    BY <1>4 DEF PayrollDoc, PayrollStatuses
  <2> HIDE DEF x
  <2> QED
    BY <1>1, <2>1 DEF Turned
<1> HIDE DEF x
<1>6. /\ DOMAIN payrolls' = DOMAIN payrolls /\ payrolls'[p] = x
      /\ \A j \in DOMAIN payrolls : j # p => payrolls'[j] = payrolls[j]
      /\ \A j \in DOMAIN payrolls : ListedOn(payrolls', j) = ListedOn(payrolls, j)
      /\ ~IsPaid(payrolls', p)
      /\ \A j \in DOMAIN payrolls : j # p => (IsPaid(payrolls', j) <=> IsPaid(payrolls, j))
  BY <1>5, TurnedIs
<1>7. /\ LedgerOK' /\ Settled(ledger', "payroll_payment", PayrollClaims(payrolls'))
      /\ \A t : t # "payroll_payment" /\ t # "reversal" => Spares(t)
  <2> DEFINE c == PayrollClaims(payrolls)
             e == PayrollClaims(payrolls')
  <2>1. /\ DOMAIN c = DOMAIN payrolls /\ DOMAIN e = DOMAIN c /\ c[p].txn = i /\ e[p].txn = 0
        /\ \A j \in DOMAIN c \ {p} : e[j].txn = c[j].txn /\ (c[j].txn # 0 => e[j].n = c[j].n)
    BY <1>5, <1>6 DEF PayrollClaims
  <2>2. Settled(ledger, "payroll_payment", c)
    BY <1>3
  <2> HIDE DEF c, e
  <2>3. CASE i # 0
    <3>1. LiveIn(ledger, "payroll_payment", p) = {i}
      BY <2>1, <2>2, <2>3 DEF Settled
    <3>2. i \in EntryNumbers /\ ledger[i].type = "payroll_payment" /\ ledger[i].about = p
      BY <3>1 DEF LiveIn, EntryNumbers
    <3>3. Unbooks({i}) /\ LedgerOK'
      BY <1>1, <2>3, <3>2, EntryUnbooks
    <3>4. Settled(ledger', "payroll_payment", e)
      BY <2>1, <2>2, <3>2, <3>3, SettledUnpaid
    <3>5. ASSUME NEW t, t # "payroll_payment", t # "reversal" PROVE Spares(t)
      BY <3>2, <3>3, <3>5, UnbooksSpares
    <3> QED
      BY <3>3, <3>4, <3>5 DEF e
  <2>4. CASE i = 0
    <3>1. UNCHANGED financeVars
      BY <1>1, <2>4
    <3>2. LedgerOK' /\ \A t : Spares(t)
      BY <3>1, FinanceUnchanged
    <3>3. SameClaims(c, e)
      BY <2>1, <2>4 DEF SameClaims
    <3>4. Settled(ledger', "payroll_payment", e)
      BY <2>2, <3>2, <3>3, SettledSpared
    <3> QED
      BY <3>2, <3>4 DEF e
  <2> QED
    BY <2>3, <2>4
<1>8. ASSUME NEW k \in DOMAIN allowances, k \in ListedOn(payrolls, p)
      PROVE  allowances[k].status = "paid" /\ allowances[k].via = "payroll" /\ allowances[k].payroll = p
  <2>1. p \in Paying(payrolls, k)
    BY <1>4, <1>8 DEF Paying
  <2>2. Paying(payrolls, k) = IF allowances[k].status = "paid" /\ allowances[k].via = "payroll"
                              THEN {allowances[k].payroll} ELSE {}
    BY <1>3 DEF AllowancesPaid
  <2> QED
    BY <2>1, <2>2
<1>9. ASSUME NEW k \in DOMAIN allowances
      PROVE  /\ allowances[k] \in Allowance
             /\ k \notin ListedOn(payrolls, p) => allowances'[k] = allowances[k]
             /\ k \in ListedOn(payrolls, p) =>
                   /\ allowances'[k].status = "approved" /\ allowances'[k].staff = allowances[k].staff
                   /\ allowances'[k] \in Allowance
  <2>1. allowances[k] \in Allowance
    BY <1>3, OneOf
  <2>2. k \notin ListedOn(payrolls, p) => allowances'[k] = allowances[k]
    BY <1>2
  <2>3. ASSUME k \in ListedOn(payrolls, p)
        PROVE  /\ allowances'[k].status = "approved" /\ allowances'[k].staff = allowances[k].staff
               /\ allowances'[k] \in Allowance
    <3>1. allowances'[k] = UnpaidAgain(k)
      BY <1>2, <1>8, <2>3
    <3>2. /\ UnpaidAgain(k).status = "approved" /\ UnpaidAgain(k).staff = allowances[k].staff
          /\ UnpaidAgain(k) \in Allowance
      BY <2>1 DEF Allowance, UnpaidAgain
    <3> QED
      BY <3>1, <3>2
  <2> QED
    BY <2>1, <2>2, <2>3
<1> HIDE DEF Back
<1>10. AllowanceShape' /\ DOMAIN allowances' = DOMAIN allowances
  <2>1. \A k \in DOMAIN allowances :
           /\ allowances'[k] \in Allowance /\ allowances'[k].staff = allowances[k].staff
           /\ allowances'[k].status \in Live => allowances[k].status \in Live
    BY <1>8, <1>9 DEF Live
  <2> QED
    BY <1>1, <1>2, <1>3, <2>1, AllowancesRewritten
<1>11. PayrollShape' /\ LossShape' /\ DeductionsAddUp' /\ IncidentsAddUp'
  <2>1. \A d \in DOMAIN deductions :
           Take(payrolls, p, d) \in Nat /\ deductions[d].applied[p] = Take(payrolls, p, d)
    BY <1>4, TakesAreNat
  <2>2. \A d \in DOMAIN deductions : Return(p)[d] = -Take(payrolls, p, d)
    BY DEF Return
  <2>3. DeductionsTake(p, Return(p)) /\ Return(p) \in [DOMAIN deductions -> Int]
    BY <1>1, <1>4, ReturnedDeductions
  <2>4. IncidentsRecover(Return(p))
    BY <1>1, <1>4, ReturnedIncidents
  <2>5. \A d \in DOMAIN deductions : deductions[d].applied[p] + Return(p)[d]
           = IF x.status \in {"paid", "locked"} THEN Take(payrolls, p, d) ELSE 0
    BY <1>5, <2>1, <2>2
  <2> QED
    BY <1>1, <1>5, <1>10, <2>3, <2>4, <2>5, MoneyTurned
<1>12. ASSUME NEW k \in DOMAIN allowances
       PROVE  /\ Paying(payrolls', k) = IF allowances'[k].status = "paid" /\ allowances'[k].via = "payroll"
                                        THEN {allowances'[k].payroll} ELSE {}
              /\ allowances'[k].status = "paid" /\ allowances'[k].via = "payroll" =>
                    allowances'[k].txn = payrolls'[allowances'[k].payroll].txn
  <2>1. /\ Paying(payrolls, k) = IF allowances[k].status = "paid" /\ allowances[k].via = "payroll"
                                 THEN {allowances[k].payroll} ELSE {}
        /\ allowances[k].status = "paid" /\ allowances[k].via = "payroll" =>
              allowances[k].txn = payrolls[allowances[k].payroll].txn
    BY <1>3 DEF AllowancesPaid
  <2>2. \A j : j \in Paying(payrolls', k) <=> j \in Paying(payrolls, k) /\ j # p
    BY <1>6 DEF Paying
  <2>3. CASE k \in ListedOn(payrolls, p)
    <3>1. Paying(payrolls, k) = {p}
      BY <1>8, <2>1, <2>3
    <3>2. Paying(payrolls', k) = {}
      BY <2>2, <3>1
    <3> QED
      BY <1>9, <2>3, <3>2
  <2>4. CASE k \notin ListedOn(payrolls, p)
    <3>1. p \notin Paying(payrolls, k)
      BY <2>4 DEF Paying
    <3>2. Paying(payrolls', k) = Paying(payrolls, k) /\ allowances'[k] = allowances[k]
      BY <1>9, <2>2, <2>4, <3>1
    <3>3. allowances[k].status = "paid" /\ allowances[k].via = "payroll" =>
             allowances[k].payroll \in DOMAIN payrolls /\ allowances[k].payroll # p
      BY <2>1, <3>1 DEF Paying
    <3> QED
      BY <1>6, <2>1, <3>2, <3>3
  <2> QED
    BY <2>3, <2>4
<1>13. AllowancesPaid'
  <2>1. \A k \in DOMAIN allowances :
           \/ allowances'[k] = allowances[k]
           \/ ~DirectlyPaid(allowances, k) /\ ~DirectlyPaid(allowances', k)
    BY <1>8, <1>9 DEF DirectlyPaid
  <2>2. Spares("allowance_payment")
    BY <1>7
  <2>3. /\ \A k \in DOMAIN allowances' : DirectlyPaid(allowances', k) =>
                 /\ allowances'[k].txn \in DOMAIN ledger'
                 /\ ledger'[allowances'[k].txn].type = "allowance_payment"
        /\ \A j \in DOMAIN ledger' : ledger'[j].type = "allowance_payment" =>
                 (IF ledger'[j].posted THEN ledger'[j].amount ELSE 0)
                    = Approved(allowances', BatchOf(allowances', j))
    BY <1>10, <2>1, <2>2, BatchesStay
  <2> QED
    BY <1>10, <1>12, <2>3 DEF AllowancesPaid, DirectlyPaid, EntryNumbers
<1> QED
  BY <1>7, <1>10, <1>11, <1>13 DEF PayInv

LEMMA PayUndisturbed ==
    ASSUME LedgerOK, PayInv, UNCHANGED payVars, Spares("allowance_payment"), Spares("payroll_payment")
    PROVE  PayInv'
<1>1. /\ salaries' = salaries /\ attendance' = attendance /\ allowances' = allowances
      /\ payrolls' = payrolls /\ incidents' = incidents /\ deductions' = deductions
  BY DEF payVars
<1>2. /\ PayrollShape' /\ LossShape' /\ DeductionsAddUp' /\ IncidentsAddUp'
      /\ Settled(ledger', "payroll_payment", PayrollClaims(payrolls'))
  BY <1>1, PayrollsStay DEF lossVars
<1>3. AllowanceShape'
  BY <1>1 DEF PayInv, AllowanceShape, OneAllowanceADay
<1>4. AllowancesPaid'
  <2>1. /\ \A k \in DOMAIN allowances' : DirectlyPaid(allowances', k) =>
                 /\ allowances'[k].txn \in DOMAIN ledger'
                 /\ ledger'[allowances'[k].txn].type = "allowance_payment"
        /\ \A i \in DOMAIN ledger' : ledger'[i].type = "allowance_payment" =>
                 (IF ledger'[i].posted THEN ledger'[i].amount ELSE 0)
                    = Approved(allowances', BatchOf(allowances', i))
    BY <1>1, BatchesStay
  <2>2. \A k \in DOMAIN allowances' :
           /\ Paying(payrolls', k) = IF allowances'[k].status = "paid" /\ allowances'[k].via = "payroll"
                                     THEN {allowances'[k].payroll} ELSE {}
           /\ allowances'[k].status = "paid" /\ allowances'[k].via = "payroll" =>
                 allowances'[k].txn = payrolls'[allowances'[k].payroll].txn
    BY <1>1 DEF PayInv, AllowancesPaid
  <2> QED
    BY <2>1, <2>2 DEF AllowancesPaid, DirectlyPaid, EntryNumbers
<1> QED
  BY <1>2, <1>3, <1>4 DEF PayInv

LEMMA LossesKept ==
    ASSUME LedgerOK, PayInv, LossStep \/ DeductionStep
    PROVE  PayInv' /\ UNCHANGED financeVars
<1>1. CASE \E w \in Staff \cup {None}, n \in Losses : CreateLossIncident(w, n)
  BY <1>1, LossReported
<1>2. CASE \E q \in DOMAIN incidents :
               \/ ReviewLossIncident(q) \/ RejectLossIncident(q) \/ CancelLossIncident(q)
               \/ \E n \in Losses \cup {0} : ApproveLossIncident(q, n)
               \/ \E n \in Instalments : ScheduleLossRecovery(q, n)
  BY <1>2, LossDecided, LossCancelled, RecoveryScheduled
<1>3. CASE \E d \in DOMAIN deductions : CancelSalaryDeduction(d)
  BY <1>3, DeductionStopped
<1>4. CASE \E w \in Staff, total \in Losses, n \in Instalments : CreateSalaryDeduction(w, total, n)
  BY <1>4, DeductionCreated
<1>5. CASE \E d \in DOMAIN deductions, approve \in BOOLEAN : DecideSalaryDeduction(d, approve)
  BY <1>5, DeductionDecided
<1> QED
  BY <1>1, <1>2, <1>3, <1>4, <1>5 DEF LossStep, DeductionStep

LEMMA PayrollsKept ==
    ASSUME LedgerOK, PayInv, PayrollStep
    PROVE  PayInv' /\ LedgerOK' /\ \A t : t # "payroll_payment" /\ t # "reversal" => Spares(t)
<1>1. CASE \E slot \in Slots : CreatePayroll(slot)
  BY <1>1, PayrollCreated, FinanceUnchanged
<1>2. ASSUME NEW p \in DOMAIN payrolls, PreparePayroll(p) \/ CorrectPayroll(p)
      PROVE  PayInv' /\ LedgerOK' /\ \A t : Spares(t)
  BY <1>2, PayrollCalculated, FinanceUnchanged
<1>3. ASSUME NEW p \in DOMAIN payrolls,
             \/ CancelPayroll(p) \/ LockPayroll(p)
             \/ \E action \in {"submit", "review", "return", "approve"} : UpdatePayrollStatus(p, action)
      PROVE  PayInv' /\ LedgerOK' /\ \A t : Spares(t)
  BY <1>3, PayrollMoved, FinanceUnchanged
<1>4. ASSUME NEW p \in DOMAIN payrolls, NEW r \in PaymentIds, NEW a \in AccountIds, PayPayroll(r, p, a)
      PROVE  PayInv' /\ LedgerOK' /\ \A t : t # "payroll_payment" => Spares(t)
  BY <1>4, PayrollPaid
<1>5. ASSUME NEW p \in DOMAIN payrolls, ReversePayrollPayment(p)
      PROVE  PayInv' /\ LedgerOK' /\ \A t : t # "payroll_payment" /\ t # "reversal" => Spares(t)
  BY <1>5, PayrollUnpaid
<1>6. CASE \E p \in DOMAIN payrolls :
             \/ PreparePayroll(p) \/ CorrectPayroll(p) \/ CancelPayroll(p) \/ LockPayroll(p)
             \/ \E action \in {"submit", "review", "return", "approve"} : UpdatePayrollStatus(p, action)
             \/ \E r \in PaymentIds, a \in AccountIds : PayPayroll(r, p, a)
             \/ ReversePayrollPayment(p)
  BY <1>2, <1>3, <1>4, <1>5, <1>6
<1> QED
  BY <1>1, <1>6 DEF PayrollStep

\* The pay desk, and what it leaves of the ledger.
LEMMA PayKept ==
    ASSUME LedgerOK, PayInv,
           \/ AllowanceStep /\ UNCHANGED lossVars
           \/ LossStep \/ DeductionStep \/ EarningStep \/ PayrollStep \/ SalaryStep
    PROVE  /\ PayInv' /\ LedgerOK'
           /\ \A t : t \notin {"allowance_payment", "payroll_payment", "reversal"} => Spares(t)
<1>1. CASE AllowanceStep /\ UNCHANGED lossVars
  BY <1>1, AllowancesKept
<1>2. CASE LossStep \/ DeductionStep
  BY <1>2, LossesKept, FinanceUnchanged
<1>3. CASE EarningStep
  <2>1. PayInv' /\ UNCHANGED financeVars
    BY <1>3, EarningsEdited DEF EarningStep
  <2> QED
    BY <2>1, FinanceUnchanged
<1>4. CASE PayrollStep
  BY <1>4, PayrollsKept
<1>5. CASE SalaryStep
  <2>1. PayInv' /\ UNCHANGED financeVars
    BY <1>5, SalarySet DEF SalaryStep
  <2> QED
    BY <2>1, FinanceUnchanged
<1> QED
  BY <1>1, <1>2, <1>3, <1>4, <1>5
=============================================================================
