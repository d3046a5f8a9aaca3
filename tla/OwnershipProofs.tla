--------------------------- MODULE OwnershipProofs ---------------------------
(* Theorems about shares and dividends, for any shareholders, classes and    *)
(* amounts.  SharesInv: holdings are the sums of what took effect, and what   *)
(* was contributed is in the ledger.  DividendsInv: a dividend's counters and *)
(* status are those of its allocations, each paid by one live entry; and the  *)
(* allocations are the holdings of the record date, which no step changes     *)
(* once it is locked (RecordsKept).                                           *)
EXTENDS DeskProofs, Dividends

-----------------------------------------------------------------------------
(* Several entries in one transaction *)

\* What is left of a sum when a part is taken out.
LEMMA TotalWithout ==
    ASSUME NEW f, NEW S, Weighs(f, S), NEW T, T \subseteq S
    PROVE  Total(f, S \ T) = Total(f, S) - Total(f, T)
<1> DEFINE g == [x \in S |-> IF x \in T THEN 0 ELSE f[x]]
<1>1. Weighs(g, S) /\ Weighs(g, T) /\ Weighs(f, T) /\ Weighs(f, S \ T)
  BY FS_Subset DEF Weighs
<1>2. /\ \A x \in S \ (S \ T) : g[x] = 0
      /\ \A x \in T \ {} : g[x] = 0
      /\ \A x \in S \ T : g[x] = f[x]
      /\ S \ T \subseteq S /\ {} \subseteq T
  OBVIOUS
<1> HIDE DEF g
<1>3. Total(g, S) = Total(g, S \ T)
  BY <1>1, <1>2, TotalPart
<1>4. Total(g, T) = Total(g, {})
  BY <1>1, <1>2, TotalPart
<1>5. Total(g, {}) = 0
  BY TotalEmpty
<1>6. Total(g, S \ T) = Total(f, S \ T)
  BY <1>1, <1>2, TotalSame DEF Weighs
<1>7. Total(g, S) - Total(f, S) = Total(g, T) - Total(f, T)
  BY <1>1, <1>2, TotalChange
<1>8. Total(f, S) \in Int /\ Total(f, T) \in Int /\ Total(f, S \ T) \in Int
  BY <1>1, WeighedType
<1> QED
  BY <1>3, <1>4, <1>5, <1>6, <1>7, <1>8

\* A finite set is listed by SetToSeq: each member once.
Enumerates(order, S) ==
    /\ order \in [1..Cardinality(S) -> S]
    /\ \A x \in S : \E n \in 1..Cardinality(S) : order[n] = x
    /\ \A n, m \in 1..Cardinality(S) : order[n] = order[m] => n = m

LEMMA SetListed ==
    ASSUME NEW S, IsFiniteSet(S)
    PROVE  Enumerates(SetToSeq(S), S) /\ Cardinality(S) \in Nat
<1> DEFINE n == Cardinality(S)
           order == SetToSeq(S)
<1>1. n \in Nat /\ \E f : f \in Bijection(1..n, S)
  BY FS_CardinalityType DEF ExistsBijection
<1>2. \E f \in [1..n -> S] : IsInjective(f)
  BY <1>1 DEF Bijection, Injection
<1>3. order \in [1..n -> S] /\ IsInjective(order)
  BY <1>2 DEF SetToSeq
<1>4. IsFiniteSet(1..n) /\ Cardinality(1..n) = n
  <2>1. Cardinality(1..n) = IF 1 > n THEN 0 ELSE n - 1 + 1
    BY <1>1, FS_Interval
  <2> QED
    BY <1>1, <2>1, FS_Interval
<1>5. order \in Injection(1..n, S) /\ Cardinality(1..n) = Cardinality(S)
  BY <1>3, <1>4 DEF Injection
<1> HIDE DEF order, n
<1>6. order \in Surjection(1..n, S)
  BY <1>5, FS_Injection
<1>7. \A x \in S : \E k \in 1..n : order[k] = x
  BY <1>6 DEF Surjection
<1>8. \A k, m \in 1..n : order[k] = order[m] => k = m
  BY <1>3 DEF IsInjective
<1> QED
  BY <1>1, <1>3, <1>7, <1>8 DEF order, n, Enumerates

Batch(es, n) == n \in Nat /\ DOMAIN es = 1..n /\ \A i \in 1..n : es[i] \in Entry

Extends(entries, es, n) ==
    /\ ledger' \in Seq(Entry)
    /\ DOMAIN ledger' = 1..(Len(entries) + n)
    /\ \A i \in 1..Len(entries) : ledger'[i] = entries[i]
    /\ \A i \in 1..n : ledger'[Len(entries) + i] = [es[i] EXCEPT !.day = day]

LEMMA PostAllAppends ==
    ASSUME LedgerOK, NEW entries \in Seq(Entry), NEW n, NEW es, Batch(es, n), PostAll(entries, es)
    PROVE  Extends(entries, es, n)
<1>0. n \in Nat /\ DOMAIN es = 1..n /\ \A i \in 1..n : es[i] \in Entry
  BY DEF Batch
<1> DEFINE dated == [i \in DOMAIN es |-> [es[i] EXCEPT !.day = day]]
<1>1. ledger' = entries \o dated
  BY DEF PostAll
<1>2. \A i \in 1..n : [es[i] EXCEPT !.day = day] \in Entry
  BY <1>0, DatedEntry
<1>3. dated \in [1..n -> Entry]
  BY <1>0, <1>2
<1>4. dated \in Seq(Entry) /\ Len(dated) = n
  BY <1>0, <1>3, SeqDef, LenProperties
<1>5. \A i \in 1..n : dated[i] = [es[i] EXCEPT !.day = day]
  BY <1>0
<1> HIDE DEF dated
<1>6. /\ ledger' \in Seq(Entry)
      /\ Len(ledger') = Len(entries) + n
      /\ \A i \in 1..(Len(entries) + n) :
            ledger'[i] = IF i <= Len(entries) THEN entries[i] ELSE dated[i - Len(entries)]
  BY <1>0, <1>1, <1>4, ConcatProperties
<1>7. Len(entries) \in Nat /\ DOMAIN ledger' = 1..(Len(entries) + n)
  BY <1>0, <1>6, LenProperties
<1>8. \A i \in 1..n : ledger'[Len(entries) + i] = dated[i]
  <2> SUFFICES ASSUME NEW i \in 1..n PROVE ledger'[Len(entries) + i] = dated[i]
    OBVIOUS
  <2>1. /\ Len(entries) + i \in 1..(Len(entries) + n)
        /\ ~(Len(entries) + i <= Len(entries))
        /\ (Len(entries) + i) - Len(entries) = i
    BY <1>0, <1>7
  <2> QED
    BY <1>6, <2>1
<1>9. \A i \in 1..Len(entries) : ledger'[i] = entries[i]
  BY <1>0, <1>6, <1>7
<1>10. \A i \in 1..n : ledger'[Len(entries) + i] = [es[i] EXCEPT !.day = day]
  BY <1>5, <1>8
<1> QED
  BY <1>6, <1>7, <1>9, <1>10 DEF Extends

\* Reversing several entries at once.
LEMMA AllUnbook ==
    ASSUME LedgerOK, NEW S, S \subseteq EntryNumbers, ReverseAll(S)
    PROVE  Unbooks(S) /\ \A i \in S : ledger[i].type # "reversal"
<1> DEFINE n == Cardinality(S)
           order == InOrder(S)
           entries == Reversing(S)
           es == MirrorsOf(S)
<1>1. ledger \in Seq(Entry) /\ EntryNumbers = 1..Len(ledger) /\ Len(ledger) \in Nat
  BY DayNumber DEF LedgerOK
<1>2. IsFiniteSet(S)
  <2>1. IsFiniteSet(1..Len(ledger)) /\ S \in SUBSET (1..Len(ledger))
    BY <1>1, FS_Interval
  <2> QED
    BY <2>1, FS_Subset
<1>3. Enumerates(order, S) /\ n \in Nat
  BY <1>2, SetListed DEF InOrder
<1>4. /\ \A i \in S : CanReverse(ledger[i])
      /\ PostAll(entries, es)
  BY DEF ReverseAll
<1>5. \A i \in EntryNumbers : ledger[i] \in Entry /\ i \in Nat
  BY <1>1, OneOf DEF EntryNumbers
<1>6. ASSUME NEW i \in S
      PROVE  Len(ledger) + PlaceOf(S, i) \in Nat
  <2>1. PlaceOf(S, i) \in 1..n
    BY <1>3 DEF PlaceOf, Enumerates
  <2> QED
    BY <1>1, <1>3, <2>1
<1>7. \A i \in EntryNumbers : entries[i] =
          IF i \in S THEN MarkReversed(ledger[i], Len(ledger) + PlaceOf(S, i)) ELSE ledger[i]
  BY DEF Reversing
<1>8. ASSUME NEW i \in EntryNumbers
      PROVE  /\ entries[i] \in Entry
             /\ entries[i].type = ledger[i].type
             /\ entries[i].about = ledger[i].about
             /\ entries[i].amount = ledger[i].amount
             /\ entries[i].posted <=> ledger[i].posted /\ i \notin S
  <2>1. CASE i \in S
    <3>1. ledger[i] \in Entry /\ Len(ledger) + PlaceOf(S, i) \in Nat
      BY <1>5, <1>6, <2>1
    <3>2. entries[i] = MarkReversed(ledger[i], Len(ledger) + PlaceOf(S, i))
      BY <1>7, <2>1
    <3> DEFINE m == Len(ledger) + PlaceOf(S, i)
    <3> HIDE DEF entries, m
    <3>3. /\ MarkReversed(ledger[i], m) \in Entry
          /\ MarkReversed(ledger[i], m).type = ledger[i].type
          /\ MarkReversed(ledger[i], m).about = ledger[i].about
          /\ MarkReversed(ledger[i], m).amount = ledger[i].amount
          /\ ~MarkReversed(ledger[i], m).posted
      BY <3>1, MarkedEntry DEF m
    <3>4. entries[i] = MarkReversed(ledger[i], m)
      BY <3>2 DEF m
    <3> QED
      BY <2>1, <3>3, <3>4
  <2>2. CASE i \notin S
    <3>1. entries[i] = ledger[i] /\ ledger[i] \in Entry
      BY <1>5, <1>7, <2>2
    <3> HIDE DEF entries
    <3> QED
      BY <2>2, <3>1
  <2> QED
    BY <2>1, <2>2
<1>9. entries \in Seq(Entry) /\ Len(entries) = Len(ledger)
  <2>1. entries \in [1..Len(ledger) -> Entry]
    BY <1>1, <1>8 DEF Reversing
  <2> QED
    BY <1>1, <2>1, SeqDef, LenProperties
<1>10. DOMAIN es = 1..n /\ \A k \in 1..n : es[k] = MirrorOf(ledger[order[k]], order[k])
  BY DEF MirrorsOf
<1>11. ASSUME NEW k \in 1..n
       PROVE  es[k] \in Entry /\ es[k].type = "reversal"
  <2>1. order[k] \in S
    BY <1>3 DEF Enumerates
  <2>2. ledger[order[k]] \in Entry /\ CanReverse(ledger[order[k]]) /\ order[k] \in Nat
    BY <1>4, <1>5, <2>1
  <2> QED
    BY <1>10, <2>2, MirrorEntry
<1> HIDE DEF entries, es, order, n
<1>12. /\ ledger' \in Seq(Entry)
       /\ DOMAIN ledger' = 1..(Len(ledger) + n)
       /\ \A i \in EntryNumbers : ledger'[i] = entries[i]
       /\ \A k \in 1..n : ledger'[Len(ledger) + k] = [es[k] EXCEPT !.day = day]
  <2>1. Batch(es, n)
    BY <1>3, <1>10, <1>11 DEF Batch
  <2>2. Extends(entries, es, n)
    BY <1>4, <1>9, <2>1, PostAllAppends
  <2> QED
    BY <1>1, <1>9, <2>2 DEF Extends
<1>13. Turns(S)
  <2>1. EntryNumbers \subseteq DOMAIN ledger'
    BY <1>1, <1>3, <1>12
  <2> QED
    BY <1>8, <1>12, <2>1 DEF Turns
<1>14. ASSUME NEW j \in Added PROVE ledger'[j].type = "reversal"
  <2>1. j \in 1..(Len(ledger) + n) /\ j \notin 1..Len(ledger)
    BY <1>1, <1>12 DEF Added, EntryNumbers
  <2>2. j - Len(ledger) \in 1..n /\ j = Len(ledger) + (j - Len(ledger))
    BY <1>1, <1>3, <2>1
  <2>3. ledger'[j] = [es[j - Len(ledger)] EXCEPT !.day = day]
    BY <1>12, <2>2
  <2> QED
    BY <1>11, <2>2, <2>3, DatedEntry
<1>15. \A j \in S : ledger[j].posted /\ ledger[j].type # "reversal"
  BY <1>4 DEF CanReverse
<1> QED
  BY <1>13, <1>14, <1>15 DEF Unbooks

\* A claim no document makes yet is settled.
LEMMA SettledWidened ==
    ASSUME NEW l, NEW t, NEW c, Settled(l, t, c), NEW e, DOMAIN c \subseteq DOMAIN e,
           \A d \in DOMAIN c : e[d].txn = c[d].txn /\ (c[d].txn # 0 => e[d].n = c[d].n),
           \A d \in DOMAIN e \ DOMAIN c : e[d].txn = 0
    PROVE  Settled(l, t, e)
<1>1. ASSUME NEW d \in DOMAIN e \ DOMAIN c PROVE LiveIn(l, t, d) = {}
  BY <1>1 DEF Settled, LiveIn
<1>2. ASSUME NEW d \in DOMAIN e
      PROVE  IF e[d].txn # 0 THEN LiveIn(l, t, d) = {e[d].txn} /\ l[e[d].txn].amount = e[d].n
             ELSE LiveIn(l, t, d) = {}
  <2>1. CASE d \in DOMAIN c
    BY <2>1 DEF Settled
  <2>2. CASE d \notin DOMAIN c
    BY <1>1, <2>2
  <2> QED
    BY <2>1, <2>2
<1> QED
  BY <1>2 DEF Settled

\* Several documents' entries are reversed at once.
LEMMA SettledAllUnpaid ==
    ASSUME LedgerOK, NEW t, t # "reversal", NEW c, Settled(ledger, t, c), NEW D, D \subseteq DOMAIN c,
           Unbooks({c[d].txn : d \in D} \ {0}), NEW e, DOMAIN e = DOMAIN c,
           \A d \in D : e[d].txn = 0,
           \A x \in DOMAIN c \ D : e[x].txn = c[x].txn /\ (c[x].txn # 0 => e[x].n = c[x].n)
    PROVE  Settled(ledger', t, e)
<1> DEFINE S == {c[d].txn : d \in D} \ {0}
<1>1. Turns(S) /\ \A j \in Added : ledger'[j].type # t
  BY DEF Unbooks
<1>2. ASSUME NEW d \in DOMAIN e PROVE Follows(S, t, c, e, d)
  <2>1. NewFor(t, d) = {}
    BY <1>1 DEF NewFor
  <2>2. CASE d \in D
    <3>1. c[d].txn \in S \cup {0} /\ e[d].txn = 0
      BY <2>2
    <3> HIDE DEF S
    <3> QED
      BY <2>1, <3>1 DEF Follows
  <2>3. CASE d \notin D
    <3>1. c[d].txn \notin S
      <4> SUFFICES ASSUME NEW x \in D, c[x].txn = c[d].txn, c[x].txn # 0 PROVE FALSE
        OBVIOUS
      <4>1. LiveIn(ledger, t, x) = {c[x].txn} /\ LiveIn(ledger, t, d) = {c[x].txn}
        BY DEF Settled
      <4>2. ledger[c[x].txn].about = x /\ ledger[c[x].txn].about = d
        BY <4>1 DEF LiveIn
      <4> QED
        BY <2>3, <4>2
    <3>2. d \in DOMAIN c /\ e[d].txn = c[d].txn /\ (c[d].txn # 0 => e[d].n = c[d].n)
      BY <2>3
    <3> HIDE DEF S
    <3> QED
      BY <2>1, <3>1, <3>2 DEF Follows
  <2> QED
    BY <2>2, <2>3
<1> HIDE DEF S
<1> QED
  BY <1>1, <1>2, SettledStep

-----------------------------------------------------------------------------
(* The ownership ledger, as sums see it *)

\* The entries of class c that took effect by day d, and those of class c.
BookedBy(ts, c, d) == {n \in DOMAIN ts : ts[n].applied /\ ts[n].effective <= d /\ ts[n].class = c}
BookedIn(ts, c) == {n \in DOMAIN ts : ts[n].applied /\ ts[n].class = c}

MovedOver(ts, h, S) == SumFunction([k \in S |-> ts[k].moves[h]])
CommittedOver(ts, h, S) == SumFunction([k \in S |-> ts[k].commits[h]])
HeldOn(ts, h, c, d) == MovedOver(ts, h, BookedBy(ts, c, d))

LEMMA HeldIs ==
    ASSUME NEW h, NEW c, NEW d
    PROVE  Held(h, c, d) = HeldOn(shareTxns, h, c, d)
<1>1. {n \in AppliedBy(d) : shareTxns[n].class = c} = BookedBy(shareTxns, c, d)
  BY DEF AppliedBy, BookedBy
<1> QED
  BY <1>1 DEF Held, HeldOn, MovedOver

LEMMA TxnFields ==
    ASSUME NEW t \in ShareTxn, NEW h \in Holders
    PROVE  /\ t.moves[h] \in Int /\ t.commits[h] \in Int /\ t.class \in Classes
           /\ t.effective \in Days /\ t.effective \in Int
           /\ t.paid \in Nat /\ t.payment \in Nat /\ t.applied \in BOOLEAN
<1>1. t.moves \in [Holders -> Int] /\ t.commits \in [Holders -> Int]
  BY DEF ShareTxn
<1>2. t.effective \in Days /\ t.class \in Classes /\ t.paid \in Nat /\ t.payment \in Nat
      /\ t.applied \in BOOLEAN
  BY DEF ShareTxn
<1> QED
  BY <1>1, <1>2, BoundAssumption DEF Days

LEMMA SomeTxns ==
    ASSUME NEW ts \in Seq(ShareTxn), NEW S, S \subseteq DOMAIN ts, NEW h \in Holders
    PROVE  /\ IsFiniteSet(S)
           /\ \A n \in S : ts[n].moves[h] \in Int /\ ts[n].commits[h] \in Int
           /\ MovedOver(ts, h, S) \in Int /\ CommittedOver(ts, h, S) \in Int
<1>1. Len(ts) \in Nat /\ DOMAIN ts = 1..Len(ts)
  BY LenProperties
<1>2. IsFiniteSet(S)
  <2>1. IsFiniteSet(1..Len(ts)) /\ S \in SUBSET (1..Len(ts))
    BY <1>1, FS_Interval
  <2> QED
    BY <2>1, FS_Subset
<1>3. ASSUME NEW n \in S PROVE ts[n].moves[h] \in Int /\ ts[n].commits[h] \in Int
  <2>1. ts[n] \in ShareTxn
    BY OneOf
  <2> QED
    BY <2>1, TxnFields
<1>4. MovedOver(ts, h, S) \in Int
  <2> DEFINE f == [k \in S |-> ts[k].moves[h]]
  <2>1. DOMAIN f = S /\ \A x \in S : f[x] \in Int
    BY <1>3
  <2> HIDE DEF f
  <2>2. SumFunction(f) \in Int
    BY <1>2, <2>1, SumType
  <2> QED
    BY <2>2 DEF f, MovedOver
<1>5. CommittedOver(ts, h, S) \in Int
  <2> DEFINE f == [k \in S |-> ts[k].commits[h]]
  <2>1. DOMAIN f = S /\ \A x \in S : f[x] \in Int
    BY <1>3
  <2> HIDE DEF f
  <2>2. SumFunction(f) \in Int
    BY <1>2, <2>1, SumType
  <2> QED
    BY <2>2 DEF f, CommittedOver
<1> QED
  BY <1>2, <1>3, <1>4, <1>5

\* An entry of the ownership ledger keeps what it says.
TxnsKept(ts, us) ==
    /\ DOMAIN ts \subseteq DOMAIN us
    /\ \A n \in DOMAIN ts : /\ us[n].class = ts[n].class
                            /\ us[n].effective = ts[n].effective
                            /\ us[n].moves = ts[n].moves
                            /\ us[n].commits = ts[n].commits
                            /\ us[n].type = ts[n].type

\* Nothing takes effect.
AppliesNone(ts, us) ==
    /\ TxnsKept(ts, us)
    /\ \A n \in DOMAIN us : us[n].applied <=> n \in DOMAIN ts /\ ts[n].applied

\* Entry k takes effect, and nothing else.
AppliesOne(ts, us, k) ==
    /\ TxnsKept(ts, us)
    /\ k \in DOMAIN us /\ us[k].applied
    /\ k \in DOMAIN ts => ~ts[k].applied
    /\ \A n \in DOMAIN us \ {k} : us[n].applied <=> n \in DOMAIN ts /\ ts[n].applied

LEMMA SumsStay ==
    ASSUME NEW ts \in Seq(ShareTxn), NEW us, TxnsKept(ts, us), NEW S, S \subseteq DOMAIN ts,
           NEW h \in Holders
    PROVE  /\ MovedOver(us, h, S) = MovedOver(ts, h, S)
           /\ CommittedOver(us, h, S) = CommittedOver(ts, h, S)
<1>1. IsFiniteSet(S)
  BY SomeTxns
<1>2. \A n \in S : us[n].moves[h] = ts[n].moves[h] /\ us[n].commits[h] = ts[n].commits[h]
  BY DEF TxnsKept
<1>3. MovedOver(us, h, S) = MovedOver(ts, h, S)
  <2> DEFINE f == [k \in S |-> us[k].moves[h]]
             g == [k \in S |-> ts[k].moves[h]]
  <2>1. DOMAIN f = S /\ DOMAIN g = S /\ \A x \in S : f[x] = g[x]
    BY <1>2
  <2> HIDE DEF f, g
  <2>2. SumFunction(f) = SumFunction(g)
    BY <1>1, <2>1, SumSame
  <2> QED
    BY <2>2 DEF f, g, MovedOver
<1>4. CommittedOver(us, h, S) = CommittedOver(ts, h, S)
  <2> DEFINE f == [k \in S |-> us[k].commits[h]]
             g == [k \in S |-> ts[k].commits[h]]
  <2>1. DOMAIN f = S /\ DOMAIN g = S /\ \A x \in S : f[x] = g[x]
    BY <1>2
  <2> HIDE DEF f, g
  <2>2. SumFunction(f) = SumFunction(g)
    BY <1>1, <2>1, SumSame
  <2> QED
    BY <2>2 DEF f, g, CommittedOver
<1> QED
  BY <1>3, <1>4

OneMoreTxn(ts, us, S, k) == TxnsKept(ts, us) /\ S \subseteq DOMAIN ts /\ k \in DOMAIN us /\ k \notin S

SumsWith(ts, us, S, k, h) ==
    /\ MovedOver(us, h, S \cup {k}) = MovedOver(ts, h, S) + us[k].moves[h]
    /\ CommittedOver(us, h, S \cup {k}) = CommittedOver(ts, h, S) + us[k].commits[h]

LEMMA SumsGrow ==
    ASSUME NEW ts \in Seq(ShareTxn), NEW us \in Seq(ShareTxn), NEW S, NEW k,
           OneMoreTxn(ts, us, S, k), NEW h \in Holders
    PROVE  SumsWith(ts, us, S, k, h)
<1>0. TxnsKept(ts, us) /\ S \subseteq DOMAIN ts /\ k \in DOMAIN us /\ k \notin S
  BY DEF OneMoreTxn
<1>1. /\ IsFiniteSet(S)
      /\ \A n \in S : ts[n].moves[h] \in Int /\ ts[n].commits[h] \in Int
  BY <1>0, SomeTxns
<1>2. \A n \in S : us[n].moves[h] = ts[n].moves[h] /\ us[n].commits[h] = ts[n].commits[h]
  BY <1>0 DEF TxnsKept
<1>3. us[k].moves[h] \in Int /\ us[k].commits[h] \in Int
  <2>1. us[k] \in ShareTxn
    BY <1>0, OneOf
  <2> QED
    BY <2>1, TxnFields
<1>4. MovedOver(us, h, S \cup {k}) = MovedOver(ts, h, S) + us[k].moves[h]
  <2> DEFINE f == [n \in S |-> ts[n].moves[h]]
             g == [n \in S \cup {k} |-> us[n].moves[h]]
  <2>1. OneMore(f, g, k) /\ g[k] = us[k].moves[h]
    BY <1>0, <1>1, <1>2, <1>3 DEF OneMore
  <2> HIDE DEF f, g
  <2>2. SumFunction(g) = SumFunction(f) + g[k]
    BY <2>1, SumAdds
  <2> QED
    BY <2>1, <2>2 DEF f, g, MovedOver
<1>5. CommittedOver(us, h, S \cup {k}) = CommittedOver(ts, h, S) + us[k].commits[h]
  <2> DEFINE f == [n \in S |-> ts[n].commits[h]]
             g == [n \in S \cup {k} |-> us[n].commits[h]]
  <2>1. OneMore(f, g, k) /\ g[k] = us[k].commits[h]
    BY <1>0, <1>1, <1>2, <1>3 DEF OneMore
  <2> HIDE DEF f, g
  <2>2. SumFunction(g) = SumFunction(f) + g[k]
    BY <2>1, SumAdds
  <2> QED
    BY <2>1, <2>2 DEF f, g, CommittedOver
<1> QED
  BY <1>4, <1>5 DEF SumsWith

LEMMA HeldStays ==
    ASSUME NEW ts \in Seq(ShareTxn), NEW us, AppliesNone(ts, us), NEW h \in Holders, NEW c, NEW d
    PROVE  /\ HeldOn(us, h, c, d) = HeldOn(ts, h, c, d)
           /\ CommittedOver(us, h, BookedIn(us, c)) = CommittedOver(ts, h, BookedIn(ts, c))
<1>1. TxnsKept(ts, us)
  BY DEF AppliesNone
<1>2. BookedBy(us, c, d) = BookedBy(ts, c, d) /\ BookedIn(us, c) = BookedIn(ts, c)
  BY DEF AppliesNone, TxnsKept, BookedBy, BookedIn
<1>3. BookedBy(ts, c, d) \subseteq DOMAIN ts /\ BookedIn(ts, c) \subseteq DOMAIN ts
  BY DEF BookedBy, BookedIn
<1> QED
  BY <1>1, <1>2, <1>3, SumsStay DEF HeldOn

LEMMA HeldChanges ==
    ASSUME NEW ts \in Seq(ShareTxn), NEW us \in Seq(ShareTxn), NEW k, AppliesOne(ts, us, k),
           NEW h \in Holders, NEW c, NEW d
    PROVE  /\ HeldOn(us, h, c, d) = HeldOn(ts, h, c, d) +
                 (IF us[k].class = c /\ us[k].effective <= d THEN us[k].moves[h] ELSE 0)
           /\ CommittedOver(us, h, BookedIn(us, c)) = CommittedOver(ts, h, BookedIn(ts, c)) +
                 (IF us[k].class = c THEN us[k].commits[h] ELSE 0)
           /\ HeldOn(ts, h, c, d) \in Int /\ CommittedOver(ts, h, BookedIn(ts, c)) \in Int
<1> DEFINE S == BookedBy(ts, c, d)
           C == BookedIn(ts, c)
<1>1. TxnsKept(ts, us) /\ k \in DOMAIN us
  BY DEF AppliesOne
<1>2. S \subseteq DOMAIN ts /\ C \subseteq DOMAIN ts /\ k \notin S /\ k \notin C
  BY DEF BookedBy, BookedIn, AppliesOne
<1>3. BookedBy(us, c, d) = IF us[k].class = c /\ us[k].effective <= d THEN S \cup {k} ELSE S
  <2>1. \A n : n \in BookedBy(us, c, d) <=>
               n \in S \/ (n = k /\ us[k].class = c /\ us[k].effective <= d)
    BY DEF AppliesOne, TxnsKept, BookedBy
  <2> HIDE DEF S
  <2> QED
    BY <2>1
<1>4. BookedIn(us, c) = IF us[k].class = c THEN C \cup {k} ELSE C
  <2>1. \A n : n \in BookedIn(us, c) <=> n \in C \/ (n = k /\ us[k].class = c)
    BY DEF AppliesOne, TxnsKept, BookedIn
  <2> HIDE DEF C
  <2> QED
    BY <2>1
<1> HIDE DEF S, C
<1>5. /\ MovedOver(us, h, S) = MovedOver(ts, h, S)
      /\ CommittedOver(us, h, C) = CommittedOver(ts, h, C)
  BY <1>1, <1>2, SumsStay
<1>6. /\ MovedOver(us, h, S \cup {k}) = MovedOver(ts, h, S) + us[k].moves[h]
      /\ CommittedOver(us, h, C \cup {k}) = CommittedOver(ts, h, C) + us[k].commits[h]
  <2>0. OneMoreTxn(ts, us, S, k) /\ OneMoreTxn(ts, us, C, k)
    BY <1>1, <1>2 DEF OneMoreTxn
  <2>1. SumsWith(ts, us, S, k, h) /\ SumsWith(ts, us, C, k, h)
    BY <2>0, SumsGrow
  <2> QED
    BY <2>1 DEF SumsWith
<1>7. MovedOver(ts, h, S) \in Int /\ CommittedOver(ts, h, C) \in Int
  BY <1>2, SomeTxns
<1>8. HeldOn(us, h, c, d) = HeldOn(ts, h, c, d) +
                 (IF us[k].class = c /\ us[k].effective <= d THEN us[k].moves[h] ELSE 0)
  BY <1>3, <1>5, <1>6, <1>7 DEF HeldOn, S
<1>9. CommittedOver(us, h, BookedIn(us, c)) = CommittedOver(ts, h, BookedIn(ts, c)) +
                 (IF us[k].class = c THEN us[k].commits[h] ELSE 0)
  BY <1>4, <1>5, <1>6, <1>7 DEF C
<1> QED
  BY <1>7, <1>8, <1>9 DEF HeldOn, S, C

\* Once every entry has taken effect, the holdings stay.
LEMMA HeldFrom ==
    ASSUME NEW ts, NEW d \in Int, NEW e \in Int, d <= e,
           \A n \in DOMAIN ts : ts[n].effective \in Int /\ ts[n].effective <= d,
           NEW h, NEW c
    PROVE  HeldOn(ts, h, c, e) = HeldOn(ts, h, c, d)
<1>1. BookedBy(ts, c, e) = BookedBy(ts, c, d)
  BY DEF BookedBy
<1> QED
  BY <1>1 DEF HeldOn

-----------------------------------------------------------------------------
(* Contributions, as sums see them *)

PaidOver(cs, S) == SumFunction([j \in S |-> cs[j].amount])
LiveFrom(cs, k) == {j \in DOMAIN cs : cs[j].txn = k /\ cs[j].posted}
LiveOf(ts, cs, h, c) ==
    {j \in DOMAIN cs : cs[j].posted /\ cs[j].holder = h /\ ts[cs[j].txn].class = c}

LEMMA SomeContributions ==
    ASSUME NEW cs \in Seq(Contribution), NEW S, S \subseteq DOMAIN cs
    PROVE  /\ IsFiniteSet(S)
           /\ \A j \in S : cs[j].amount \in Nat
           /\ PaidOver(cs, S) \in Nat
<1>1. Len(cs) \in Nat /\ DOMAIN cs = 1..Len(cs)
  BY LenProperties
<1>2. IsFiniteSet(S)
  <2>1. IsFiniteSet(1..Len(cs)) /\ S \in SUBSET (1..Len(cs))
    BY <1>1, FS_Interval
  <2> QED
    BY <2>1, FS_Subset
<1>3. ASSUME NEW j \in S PROVE cs[j].amount \in Nat
  <2>1. cs[j] \in Contribution
    BY OneOf
  <2> QED
    BY <2>1 DEF Contribution, Amount
<1>4. PaidOver(cs, S) \in Nat
  <2> DEFINE f == [j \in S |-> cs[j].amount]
  <2>1. DOMAIN f = S /\ \A x \in S : f[x] \in Nat
    BY <1>3
  <2> HIDE DEF f
  <2>2. SumFunction(f) \in Nat
    BY <1>2, <2>1, SumType
  <2> QED
    BY <2>2 DEF f, PaidOver
<1> QED
  BY <1>2, <1>3, <1>4

\* A contribution keeps what it is of.
AmountsKept(cs, ds) ==
    /\ DOMAIN cs \subseteq DOMAIN ds
    /\ \A j \in DOMAIN cs : /\ ds[j].amount = cs[j].amount
                            /\ ds[j].txn = cs[j].txn
                            /\ ds[j].holder = cs[j].holder

LEMMA PaidStays ==
    ASSUME NEW cs \in Seq(Contribution), NEW ds, AmountsKept(cs, ds), NEW S, S \subseteq DOMAIN cs
    PROVE  PaidOver(ds, S) = PaidOver(cs, S)
<1> DEFINE f == [j \in S |-> ds[j].amount]
           g == [j \in S |-> cs[j].amount]
<1>1. DOMAIN f = S /\ DOMAIN g = S /\ \A x \in S : f[x] = g[x]
  BY DEF AmountsKept
<1>2. IsFiniteSet(S)
  BY SomeContributions
<1> HIDE DEF f, g
<1>3. SumFunction(f) = SumFunction(g)
  BY <1>1, <1>2, SumSame
<1> QED
  BY <1>3 DEF f, g, PaidOver

PaidWith(cs, ds, S, z) == PaidOver(ds, S \cup {z}) = PaidOver(cs, S) + ds[z].amount

LEMMA PaidGrows ==
    ASSUME NEW cs \in Seq(Contribution), NEW ds \in Seq(Contribution), AmountsKept(cs, ds),
           NEW S, S \subseteq DOMAIN cs, NEW z \in DOMAIN ds, z \notin S
    PROVE  PaidWith(cs, ds, S, z)
<1> DEFINE f == [j \in S |-> cs[j].amount]
           g == [j \in S \cup {z} |-> ds[j].amount]
<1>1. IsFiniteSet(S) /\ \A j \in S : cs[j].amount \in Int
  BY SomeContributions
<1>2. ds[z].amount \in Int
  <2>1. ds[z] \in Contribution
    BY OneOf
  <2> QED
    BY <2>1 DEF Contribution, Amount
<1>3. OneMore(f, g, z) /\ g[z] = ds[z].amount
  BY <1>1, <1>2 DEF OneMore, AmountsKept
<1> HIDE DEF f, g
<1>4. SumFunction(g) = SumFunction(f) + g[z]
  BY <1>3, SumAdds
<1> QED
  BY <1>3, <1>4 DEF f, g, PaidOver, PaidWith

PaidWithout(cs, S, T) == PaidOver(cs, S \ T) = PaidOver(cs, S) - PaidOver(cs, T)

LEMMA PaidShrinks ==
    ASSUME NEW cs \in Seq(Contribution), NEW S, S \subseteq DOMAIN cs, NEW T, T \subseteq S
    PROVE  PaidWithout(cs, S, T)
<1> DEFINE f == [j \in S |-> cs[j].amount]
           g == [j \in T |-> cs[j].amount]
           r == [j \in S \ T |-> cs[j].amount]
<1>1. IsFiniteSet(S) /\ IsFiniteSet(T) /\ IsFiniteSet(S \ T) /\ \A j \in S : cs[j].amount \in Int
  BY SomeContributions
<1>2. Weighs(f, S)
  BY <1>1 DEF Weighs
<1>3. /\ DOMAIN f = S /\ DOMAIN g = T /\ DOMAIN r = S \ T
      /\ \A x \in T : f[x] = g[x]
      /\ \A x \in S \ T : f[x] = r[x]
  OBVIOUS
<1> HIDE DEF f, g, r
<1>4. Total(f, S \ T) = Total(f, S) - Total(f, T)
  BY <1>2, TotalWithout
<1>5. Total(f, T) = Total(g, T)
  BY <1>1, <1>3, TotalSame
<1>6. Total(f, S \ T) = Total(r, S \ T)
  BY <1>1, <1>3, TotalSame
<1>7. /\ SumFunction(f) = Total(f, S)
      /\ SumFunction(g) = Total(g, T)
      /\ SumFunction(r) = Total(r, S \ T)
  BY <1>3, SumIsTotal
<1> QED
  BY <1>4, <1>5, <1>6, <1>7 DEF f, g, r, PaidOver, PaidWithout

-----------------------------------------------------------------------------
(* Ownership: what it is that holds *)

CapitalType == "share_capital_contribution"
ContributionClaims(cs) ==
    [j \in DOMAIN cs |-> [txn |-> IF cs[j].posted THEN cs[j].entry ELSE 0, n |-> cs[j].amount]]

\* An entry took effect or waits; who issues, issues to somebody.
TxnFits(t, today) ==
    /\ t.effective <= today
    /\ t.applied <=> t.status \in {"posted", "reversed"}
    /\ ~t.applied => t.paid = 0
    /\ t.type = "issued" => \E h \in Holders : t.moves[h] > 0
    /\ t.type # "issued" => t.payment = 0

\* A contribution was for an issue that took effect, and by who received it.
ContributionFits(ts, c) ==
    /\ c.txn \in DOMAIN ts
    /\ ts[c.txn].type = "issued"
    /\ ts[c.txn].applied
    /\ c.holder = Receiver(ts[c.txn])

SharesShape ==
    /\ shareholders \in [Holders -> {"none", "active", "inactive", "suspended", "exited"}]
    /\ classes \in [Classes -> ShareClass]
    /\ shareTxns \in Seq(ShareTxn)
    /\ \A k \in DOMAIN shareTxns : TxnFits(shareTxns[k], day)
    /\ holdings \in [Holders -> [Classes -> ShareHolding]]
    /\ contributions \in Seq(Contribution)
    /\ \A j \in DOMAIN contributions : ContributionFits(shareTxns, contributions[j])

HistoryHolds(ts, hs, today) ==
    \A h \in Holders, c \in Classes :
        /\ hs[h][c].shares = HeldOn(ts, h, c, today)
        /\ hs[h][c].committed = CommittedOver(ts, h, BookedIn(ts, c))
        /\ \A d \in Days : HeldOn(ts, h, c, d) >= 0

PaidAddsUp(ts, cs, hs) ==
    /\ \A k \in DOMAIN ts : ts[k].paid = PaidOver(cs, LiveFrom(cs, k))
    /\ \A h \in Holders, c \in Classes : hs[h][c].paid = PaidOver(cs, LiveOf(ts, cs, h, c))

SharesInv ==
    /\ SharesShape
    /\ HistoryHolds(shareTxns, holdings, day)
    /\ PaidAddsUp(shareTxns, contributions, holdings)
    /\ Settled(ledger, CapitalType, ContributionClaims(contributions))

LEMMA SharesSays ==
    SharesInv => SharesTypeOK /\ CapitalMatchesLedger /\ HoldingsMatchHistory
<1> SUFFICES ASSUME SharesInv PROVE SharesTypeOK /\ CapitalMatchesLedger /\ HoldingsMatchHistory
  OBVIOUS
<1>1. /\ shareTxns \in Seq(ShareTxn) /\ contributions \in Seq(Contribution)
  BY DEF SharesInv, SharesShape
<1>2. SharesTypeOK
  <2>1. \A k \in DOMAIN shareTxns : shareTxns[k] \in ShareTxn
    BY <1>1, OneOf
  <2>2. \A j \in DOMAIN contributions : contributions[j] \in Contribution
    BY <1>1, OneOf
  <2> QED
    BY <2>1, <2>2 DEF SharesInv, SharesShape, SharesTypeOK
<1>3. ASSUME NEW j \in DOMAIN contributions
      PROVE  IF contributions[j].posted /\ contributions[j].entry # 0
             THEN PaidBy(contributions[j].entry, CapitalType, j, contributions[j].amount)
             ELSE LiveFor(CapitalType, j) = {}
  <2> DEFINE c == ContributionClaims(contributions)
  <2>1. IF c[j].txn # 0 THEN LiveIn(ledger, CapitalType, j) = {c[j].txn}
                             /\ ledger[c[j].txn].amount = c[j].n
        ELSE LiveIn(ledger, CapitalType, j) = {}
    BY DEF SharesInv, Settled, ContributionClaims
  <2>2. /\ c[j].txn = IF contributions[j].posted THEN contributions[j].entry ELSE 0
        /\ c[j].n = contributions[j].amount
    BY DEF ContributionClaims
  <2>3. LiveIn(ledger, CapitalType, j) = LiveFor(CapitalType, j)
    BY DEF LiveIn, LiveFor, EntryNumbers
  <2> HIDE DEF c
  <2> QED
    BY <2>1, <2>2, <2>3 DEF PaidBy
<1>4. \A k \in DOMAIN shareTxns : shareTxns[k].paid = PaidFor(LiveContributions(k))
  <2>1. \A k : LiveContributions(k) = LiveFrom(contributions, k)
    BY DEF LiveContributions, LiveFrom
  <2> QED
    BY <2>1 DEF SharesInv, PaidAddsUp, PaidFor, PaidOver
<1>5. \A h \in Holders, c \in Classes : holdings[h][c].paid =
          PaidFor({j \in DOMAIN contributions :
                      /\ contributions[j].posted /\ contributions[j].holder = h
                      /\ shareTxns[contributions[j].txn].class = c})
  BY DEF SharesInv, PaidAddsUp, PaidFor, PaidOver, LiveOf
<1>6. CapitalMatchesLedger
  BY <1>3, <1>4, <1>5 DEF CapitalMatchesLedger, CapitalType
<1>7. HoldingsMatchHistory
  <2>1. \A h, c, d : Held(h, c, d) = HeldOn(shareTxns, h, c, d)
    BY HeldIs
  <2> QED
    BY <2>1 DEF SharesInv, HistoryHolds, HoldingsMatchHistory, CommittedOver, BookedIn
<1> QED
  BY <1>2, <1>6, <1>7

LEMMA SharesStarts == FinanceInit /\ SharesInit => SharesInv
<1> SUFFICES ASSUME FinanceInit, SharesInit PROVE SharesInv
  OBVIOUS
<1>1. ledger = << >> /\ shareTxns = << >> /\ contributions = << >>
  BY DEF FinanceInit, SharesInit
<1>2. \A h \in Holders, c \in Classes : /\ holdings[h][c].shares = 0
                                        /\ holdings[h][c].committed = 0
                                        /\ holdings[h][c].paid = 0
  BY DEF SharesInit
<1>3. SharesShape
  <2>1. [exists |-> FALSE, active |-> FALSE, value |-> 0] \in ShareClass
    BY DEF ShareClass
  <2>2. [shares |-> 0, committed |-> 0, paid |-> 0] \in ShareHolding
    BY DEF ShareHolding
  <2> QED
    BY <1>1, <2>1, <2>2 DEF SharesInit, SharesShape
<1>4. HistoryHolds(shareTxns, holdings, day)
  <2>1. ASSUME NEW h, NEW c, NEW d PROVE HeldOn(shareTxns, h, c, d) = 0
    <3>1. BookedBy(shareTxns, c, d) = {}
      BY <1>1 DEF BookedBy
    <3>2. MovedOver(shareTxns, h, {}) = 0
      BY SumOfNone DEF MovedOver
    <3> QED
      BY <3>1, <3>2 DEF HeldOn
  <2>2. ASSUME NEW h, NEW c PROVE CommittedOver(shareTxns, h, BookedIn(shareTxns, c)) = 0
    <3>1. BookedIn(shareTxns, c) = {}
      BY <1>1 DEF BookedIn
    <3>2. CommittedOver(shareTxns, h, {}) = 0
      BY SumOfNone DEF CommittedOver
    <3> QED
      BY <3>1, <3>2
  <2> QED
    BY <1>2, <2>1, <2>2 DEF HistoryHolds
<1>5. PaidAddsUp(shareTxns, contributions, holdings)
  <2>1. ASSUME NEW h, NEW c PROVE LiveOf(shareTxns, contributions, h, c) = {}
    BY <1>1 DEF LiveOf
  <2>2. PaidOver(contributions, {}) = 0
    BY SumOfNone DEF PaidOver
  <2>3. \A k \in DOMAIN shareTxns : FALSE
    BY <1>1
  <2>4. ASSUME NEW h \in Holders, NEW c \in Classes
        PROVE  holdings[h][c].paid = PaidOver(contributions, LiveOf(shareTxns, contributions, h, c))
    BY <1>2, <2>1, <2>2
  <2> QED
    BY <2>3, <2>4 DEF PaidAddsUp
<1>6. Settled(ledger, CapitalType, ContributionClaims(contributions))
  BY <1>1 DEF Settled, ContributionClaims
<1> QED
  BY <1>3, <1>4, <1>5, <1>6 DEF SharesInv

-----------------------------------------------------------------------------
(* Ownership: what a step does to the sums *)

\* The holdings of class c move, and n is paid for those of who.
Rewrites(c, moves, commits, who, n) ==
    /\ holdings' \in [Holders -> [Classes -> ShareHolding]]
    /\ \A h \in Holders, x \in Classes :
          /\ holdings'[h][x].shares = holdings[h][x].shares + (IF x = c THEN moves[h] ELSE 0)
          /\ holdings'[h][x].committed = holdings[h][x].committed + (IF x = c THEN commits[h] ELSE 0)
          /\ holdings'[h][x].paid = holdings[h][x].paid + (IF x = c /\ h = who THEN n ELSE 0)

LEMMA BookRewritten ==
    ASSUME holdings \in [Holders -> [Classes -> ShareHolding]], NEW c \in Classes,
           NEW moves \in [Holders -> Int], NEW commits \in [Holders -> Int],
           NEW pays \in [Holders -> Int], NEW who, NEW n \in Int,
           \A h \in Holders : pays[h] = IF h = who THEN n ELSE 0,
           ChangeBook(c, moves, commits, pays)
    PROVE  Rewrites(c, moves, commits, who, n)
<1> DEFINE next == HoldingsAfter(c, moves, commits, pays)
<1>1. holdings' = next
  BY DEF ChangeBook
<1>2. ASSUME NEW h \in Holders
      PROVE  /\ next[h][c].shares >= 0 /\ next[h][c].paid >= 0
             /\ next[h][c].committed >= next[h][c].paid
  BY DEF ChangeBook
<1>3. ASSUME NEW h \in Holders, NEW x \in Classes
      PROVE  next[h][x] = IF x = c
                THEN [shares |-> holdings[h][x].shares + moves[h],
                      committed |-> holdings[h][x].committed + commits[h],
                      paid |-> holdings[h][x].paid + pays[h]]
                ELSE holdings[h][x]
  BY DEF HoldingsAfter
<1>30. ASSUME NEW h \in Holders
       PROVE  /\ next[h][c].shares = holdings[h][c].shares + moves[h]
              /\ next[h][c].committed = holdings[h][c].committed + commits[h]
              /\ next[h][c].paid = holdings[h][c].paid + pays[h]
  BY DEF HoldingsAfter
<1> HIDE DEF next
<1>4. ASSUME NEW h \in Holders, NEW x \in Classes
      PROVE  /\ holdings[h][x] \in ShareHolding
             /\ holdings[h][x].shares \in Nat /\ holdings[h][x].committed \in Nat
             /\ holdings[h][x].paid \in Nat
             /\ moves[h] \in Int /\ commits[h] \in Int /\ pays[h] \in Int
  <2>1. holdings[h][x] \in ShareHolding
    OBVIOUS
  <2> QED
    BY <2>1 DEF ShareHolding
<1>5. ASSUME NEW h \in Holders, NEW x \in Classes
      PROVE  next[h][x] \in ShareHolding
  <2>1. CASE x = c
    <3>0. /\ next[h][x].shares = holdings[h][x].shares + moves[h]
          /\ next[h][x].committed = holdings[h][x].committed + commits[h]
          /\ next[h][x].paid = holdings[h][x].paid + pays[h]
      BY <1>30, <2>1
    <3>1. /\ holdings[h][x].shares + moves[h] >= 0
          /\ holdings[h][x].paid + pays[h] >= 0
          /\ holdings[h][x].committed + commits[h] >= holdings[h][x].paid + pays[h]
      BY <1>2, <2>1, <3>0
    <3>2. /\ holdings[h][x].shares + moves[h] \in Nat
          /\ holdings[h][x].paid + pays[h] \in Nat
          /\ holdings[h][x].committed + commits[h] \in Nat
      BY <1>4, <3>1
    <3>3. next[h][x] = [shares |-> holdings[h][x].shares + moves[h],
                        committed |-> holdings[h][x].committed + commits[h],
                        paid |-> holdings[h][x].paid + pays[h]]
      BY <1>3, <2>1
    <3> QED
      BY <3>2, <3>3 DEF ShareHolding
  <2>2. CASE x # c
    BY <1>3, <1>4, <2>2
  <2> QED
    BY <2>1, <2>2
<1>6. next \in [Holders -> [Classes -> ShareHolding]]
  <2>1. ASSUME NEW h \in Holders PROVE DOMAIN next[h] = Classes /\ next[h] = [x \in Classes |-> next[h][x]]
    BY DEF next, HoldingsAfter
  <2>2. DOMAIN next = Holders /\ next = [h \in Holders |-> next[h]]
    BY DEF next, HoldingsAfter
  <2>3. ASSUME NEW h \in Holders PROVE next[h] \in [Classes -> ShareHolding]
    BY <1>5, <2>1
  <2> QED
    BY <2>2, <2>3
<1>7. ASSUME NEW h \in Holders, NEW x \in Classes
      PROVE  /\ next[h][x].shares = holdings[h][x].shares + (IF x = c THEN moves[h] ELSE 0)
             /\ next[h][x].committed = holdings[h][x].committed + (IF x = c THEN commits[h] ELSE 0)
             /\ next[h][x].paid = holdings[h][x].paid + (IF x = c /\ h = who THEN n ELSE 0)
  <2>1. CASE x = c
    <3>1. /\ next[h][x].shares = holdings[h][x].shares + moves[h]
          /\ next[h][x].committed = holdings[h][x].committed + commits[h]
          /\ next[h][x].paid = holdings[h][x].paid + pays[h]
      BY <1>30, <2>1
    <3> QED
      BY <1>4, <2>1, <3>1
  <2>2. CASE x # c
    <3>1. next[h][x] = holdings[h][x]
      BY <1>3, <2>2
    <3> QED
      BY <1>4, <2>2, <3>1
  <2> QED
    BY <2>1, <2>2
<1> QED
  BY <1>1, <1>6, <1>7 DEF Rewrites

\* A holding stays what the ownership ledger adds up to while nothing takes effect.
LEMMA HistoryStays ==
    ASSUME NEW ts \in Seq(ShareTxn), NEW us, AppliesNone(ts, us), NEW hs, NEW gs, NEW today,
           HistoryHolds(ts, hs, today),
           \A h \in Holders, c \in Classes : /\ gs[h][c].shares = hs[h][c].shares
                                             /\ gs[h][c].committed = hs[h][c].committed
    PROVE  HistoryHolds(us, gs, today)
<1>1. ASSUME NEW h \in Holders, NEW c, NEW d
      PROVE  /\ HeldOn(us, h, c, d) = HeldOn(ts, h, c, d)
             /\ CommittedOver(us, h, BookedIn(us, c)) = CommittedOver(ts, h, BookedIn(ts, c))
  BY HeldStays
<1> QED
  BY <1>1 DEF HistoryHolds

\* Taking shares away leaves no day from the entry's on below zero.
Covered(ts, t) ==
    \A h \in Holders, d \in Days :
        t.effective <= d => HeldOn(ts, h, t.class, d) + t.moves[h] >= 0

LEMMA HistoryGrows ==
    ASSUME NEW ts \in Seq(ShareTxn), NEW us \in Seq(ShareTxn), NEW k, AppliesOne(ts, us, k),
           NEW today, us[k].effective <= today, HistoryHolds(ts, holdings, today),
           Covered(ts, us[k]), NEW who, NEW n,
           Rewrites(us[k].class, us[k].moves, us[k].commits, who, n)
    PROVE  HistoryHolds(us, holdings', today)
<1>1. us[k] \in ShareTxn
  BY OneOf DEF AppliesOne
<1>2. ASSUME NEW h \in Holders, NEW c \in Classes
      PROVE  /\ holdings'[h][c].shares = HeldOn(us, h, c, today)
             /\ holdings'[h][c].committed = CommittedOver(us, h, BookedIn(us, c))
  <2>1. /\ HeldOn(us, h, c, today) = HeldOn(ts, h, c, today) +
                 (IF us[k].class = c /\ us[k].effective <= today THEN us[k].moves[h] ELSE 0)
        /\ CommittedOver(us, h, BookedIn(us, c)) = CommittedOver(ts, h, BookedIn(ts, c)) +
                 (IF us[k].class = c THEN us[k].commits[h] ELSE 0)
    BY HeldChanges
  <2>2. /\ holdings[h][c].shares = HeldOn(ts, h, c, today)
        /\ holdings[h][c].committed = CommittedOver(ts, h, BookedIn(ts, c))
    BY DEF HistoryHolds
  <2>3. /\ holdings'[h][c].shares = holdings[h][c].shares
              + (IF c = us[k].class THEN us[k].moves[h] ELSE 0)
        /\ holdings'[h][c].committed = holdings[h][c].committed
              + (IF c = us[k].class THEN us[k].commits[h] ELSE 0)
    BY DEF Rewrites
  <2> QED
    BY <2>1, <2>2, <2>3
<1>3. ASSUME NEW h \in Holders, NEW c \in Classes, NEW d \in Days
      PROVE  HeldOn(us, h, c, d) >= 0
  <2>1. HeldOn(us, h, c, d) = HeldOn(ts, h, c, d) +
           (IF us[k].class = c /\ us[k].effective <= d THEN us[k].moves[h] ELSE 0)
    BY HeldChanges
  <2>2. HeldOn(ts, h, c, d) >= 0 /\ HeldOn(ts, h, c, d) \in Int
    BY HeldChanges DEF HistoryHolds
  <2>3. CASE us[k].class = c /\ us[k].effective <= d
    BY <2>1, <2>3 DEF Covered
  <2>4. CASE ~(us[k].class = c /\ us[k].effective <= d)
    BY <2>1, <2>2, <2>4
  <2> QED
    BY <2>3, <2>4
<1> QED
  BY <1>2, <1>3 DEF HistoryHolds

\* A day ends: nothing that took effect is later.
LEMMA HistoryOnward ==
    ASSUME NEW ts, NEW hs, NEW d \in Int, NEW e \in Int, d <= e,
           \A n \in DOMAIN ts : ts[n].effective \in Int /\ ts[n].effective <= d,
           HistoryHolds(ts, hs, d)
    PROVE  HistoryHolds(ts, hs, e)
<1>1. ASSUME NEW h \in Holders, NEW c \in Classes PROVE HeldOn(ts, h, c, e) = HeldOn(ts, h, c, d)
  BY HeldFrom
<1> QED
  BY <1>1 DEF HistoryHolds

\* What entry n says was paid for it, an entry to come nothing.
PaidBefore(ts, n) == IF n \in DOMAIN ts THEN ts[n].paid ELSE 0

Refers(ts, cs) == \A j \in DOMAIN cs : cs[j].txn \in DOMAIN ts

LEMMA LiveBefore ==
    ASSUME NEW ts, NEW us, TxnsKept(ts, us), NEW cs \in Seq(Contribution), Refers(ts, cs)
    PROVE  /\ \A h, c : LiveOf(us, cs, h, c) = LiveOf(ts, cs, h, c)
           /\ \A n : n \notin DOMAIN ts => LiveFrom(cs, n) = {}
           /\ \A h, c : LiveOf(ts, cs, h, c) \subseteq DOMAIN cs
           /\ \A n : LiveFrom(cs, n) \subseteq DOMAIN cs
<1>1. \A h, c : LiveOf(us, cs, h, c) = LiveOf(ts, cs, h, c)
  BY DEF LiveOf, TxnsKept, Refers
<1>2. \A n : n \notin DOMAIN ts => LiveFrom(cs, n) = {}
  BY DEF LiveFrom, Refers
<1>3. \A h, c : LiveOf(ts, cs, h, c) \subseteq DOMAIN cs
  BY DEF LiveOf
<1>4. \A n : LiveFrom(cs, n) \subseteq DOMAIN cs
  BY DEF LiveFrom
<1> QED
  BY <1>1, <1>2, <1>3, <1>4

LEMMA PaidOfNobody == ASSUME NEW cs PROVE PaidOver(cs, {}) = 0
BY SumOfNone DEF PaidOver

LEMMA PaidFrom ==
    ASSUME NEW ts, NEW us, TxnsKept(ts, us), NEW cs \in Seq(Contribution), Refers(ts, cs),
           NEW hs, PaidAddsUp(ts, cs, hs)
    PROVE  \A n : n \in DOMAIN us => PaidOver(cs, LiveFrom(cs, n)) = PaidBefore(ts, n)
<1> SUFFICES ASSUME NEW n \in DOMAIN us
             PROVE  PaidOver(cs, LiveFrom(cs, n)) = PaidBefore(ts, n)
  OBVIOUS
<1>1. CASE n \in DOMAIN ts
  BY <1>1 DEF PaidAddsUp, PaidBefore
<1>2. CASE n \notin DOMAIN ts
  BY <1>2, LiveBefore, PaidOfNobody DEF PaidBefore
<1> QED
  BY <1>1, <1>2

LEMMA PaidSame ==
    ASSUME NEW ts, NEW us, TxnsKept(ts, us), NEW cs \in Seq(Contribution), Refers(ts, cs),
           NEW hs, NEW gs, PaidAddsUp(ts, cs, hs),
           \A n \in DOMAIN us : us[n].paid = PaidBefore(ts, n),
           \A h \in Holders, c \in Classes : gs[h][c].paid = hs[h][c].paid
    PROVE  PaidAddsUp(us, cs, gs)
<1>1. \A n \in DOMAIN us : PaidOver(cs, LiveFrom(cs, n)) = us[n].paid
  BY PaidFrom
<1>2. \A h \in Holders, c \in Classes : gs[h][c].paid = PaidOver(cs, LiveOf(us, cs, h, c))
  BY LiveBefore DEF PaidAddsUp
<1> QED
  BY <1>1, <1>2 DEF PaidAddsUp

\* A contribution x comes in.
Adds(cs, ds, x) ==
    /\ ds = Append(cs, x)
    /\ x \in Contribution /\ x.posted

LEMMA ContributionAdded ==
    ASSUME NEW cs \in Seq(Contribution), NEW ds, NEW x, Adds(cs, ds, x)
    PROVE  /\ ds \in Seq(Contribution)
           /\ AmountsKept(cs, ds)
           /\ Len(cs) + 1 \in DOMAIN ds /\ Len(cs) + 1 \notin DOMAIN cs
           /\ DOMAIN ds = DOMAIN cs \cup {Len(cs) + 1}
           /\ ds[Len(cs) + 1] = x
           /\ \A j \in DOMAIN cs : ds[j] = cs[j]
<1>1. /\ ds \in Seq(Contribution)
      /\ DOMAIN ds = DOMAIN cs \cup {Len(cs) + 1} /\ Len(cs) + 1 \notin DOMAIN cs
      /\ \A j \in DOMAIN cs : ds[j] = cs[j]
      /\ ds[Len(cs) + 1] = x
  BY OneAdded DEF Adds
<1> QED
  BY <1>1 DEF AmountsKept

LEMMA PaidMore ==
    ASSUME NEW ts, NEW us, TxnsKept(ts, us), NEW cs \in Seq(Contribution), Refers(ts, cs),
           PaidAddsUp(ts, cs, holdings), NEW ds, NEW x, Adds(cs, ds, x), x.txn \in DOMAIN us,
           \A n \in DOMAIN us :
              us[n].paid = PaidBefore(ts, n) + (IF n = x.txn THEN x.amount ELSE 0),
           \A n \in DOMAIN us : PaidBefore(ts, n) \in Nat,
           NEW moves, NEW commits, holdings \in [Holders -> [Classes -> ShareHolding]],
           Rewrites(us[x.txn].class, moves, commits, x.holder, x.amount)
    PROVE  PaidAddsUp(us, ds, holdings')
<1> DEFINE z == Len(cs) + 1
<1>1. /\ ds \in Seq(Contribution)
      /\ AmountsKept(cs, ds)
      /\ z \in DOMAIN ds /\ z \notin DOMAIN cs
      /\ DOMAIN ds = DOMAIN cs \cup {z}
      /\ ds[z] = x /\ x.posted
      /\ \A j \in DOMAIN cs : ds[j] = cs[j]
  <2>1. x.posted
    BY DEF Adds
  <2> QED
    BY <2>1, ContributionAdded
<1> HIDE DEF z
<1>2. ASSUME NEW n \in DOMAIN us PROVE us[n].paid = PaidOver(ds, LiveFrom(ds, n))
  <2> DEFINE S == LiveFrom(cs, n)
  <2>1. S \subseteq DOMAIN cs /\ z \notin S
    BY <1>1 DEF LiveFrom
  <2>2. LiveFrom(ds, n) = IF n = x.txn THEN S \cup {z} ELSE S
    BY <1>1 DEF LiveFrom
  <2>3. PaidOver(cs, S) = PaidBefore(ts, n)
    BY PaidFrom
  <2> HIDE DEF S
  <2>4. PaidWith(cs, ds, S, z) /\ PaidOver(ds, S) = PaidOver(cs, S)
    BY <1>1, <2>1, PaidGrows, PaidStays
  <2>5. PaidOver(ds, S \cup {z}) = PaidBefore(ts, n) + x.amount
    BY <1>1, <2>3, <2>4 DEF PaidWith
  <2>6. CASE n = x.txn
    BY <2>2, <2>5, <2>6
  <2>7. CASE n # x.txn
    BY <2>2, <2>3, <2>4, <2>7
  <2> QED
    BY <2>6, <2>7
<1>3. ASSUME NEW h \in Holders, NEW c \in Classes
      PROVE  holdings'[h][c].paid = PaidOver(ds, LiveOf(us, ds, h, c))
  <2> DEFINE S == LiveOf(us, cs, h, c)
             mine == c = us[x.txn].class /\ h = x.holder
  <2>1. S \subseteq DOMAIN cs /\ z \notin S
    BY <1>1 DEF LiveOf
  <2>2. LiveOf(us, ds, h, c) = IF mine THEN S \cup {z} ELSE S
    BY <1>1 DEF LiveOf
  <2>3. PaidOver(cs, S) = holdings[h][c].paid /\ holdings[h][c].paid \in Nat
    <3>1. S = LiveOf(ts, cs, h, c)
      BY LiveBefore
    <3>2. holdings[h][c] \in ShareHolding
      OBVIOUS
    <3> QED
      BY <3>1, <3>2 DEF PaidAddsUp, ShareHolding
  <2>4. holdings'[h][c].paid = holdings[h][c].paid + (IF mine THEN x.amount ELSE 0)
    BY DEF Rewrites
  <2> HIDE DEF S, mine
  <2>5. PaidWith(cs, ds, S, z) /\ PaidOver(ds, S) = PaidOver(cs, S)
    BY <1>1, <2>1, PaidGrows, PaidStays
  <2>6. PaidOver(ds, S \cup {z}) = holdings[h][c].paid + x.amount
    BY <1>1, <2>3, <2>5 DEF PaidWith
  <2>7. CASE mine
    BY <2>2, <2>4, <2>6, <2>7
  <2>8. CASE ~mine
    BY <2>2, <2>3, <2>4, <2>5, <2>8
  <2> QED
    BY <2>7, <2>8
<1> QED
  BY <1>2, <1>3 DEF PaidAddsUp

\* Contributions T, all for entry k and by who, are taken back.
TakesBack(cs, ds, T, k, who) ==
    /\ ds \in Seq(Contribution) /\ DOMAIN ds = DOMAIN cs /\ AmountsKept(cs, ds)
    /\ \A j \in DOMAIN cs : ds[j].posted <=> cs[j].posted /\ j \notin T
    /\ T \subseteq LiveFrom(cs, k)
    /\ \A j \in T : cs[j].holder = who

LEMMA PaidLess ==
    ASSUME NEW ts, NEW us, TxnsKept(ts, us), NEW cs \in Seq(Contribution), Refers(ts, cs),
           PaidAddsUp(ts, cs, holdings), NEW ds, NEW T, NEW k \in DOMAIN us, NEW who,
           TakesBack(cs, ds, T, k, who),
           \A n \in DOMAIN us :
              us[n].paid = PaidBefore(ts, n) - (IF n = k THEN PaidOver(cs, T) ELSE 0),
           \A n \in DOMAIN us : PaidBefore(ts, n) \in Nat,
           NEW moves, NEW commits, holdings \in [Holders -> [Classes -> ShareHolding]],
           Rewrites(us[k].class, moves, commits, who, -PaidOver(cs, T))
    PROVE  PaidAddsUp(us, ds, holdings')
<1>1. /\ DOMAIN ds = DOMAIN cs /\ AmountsKept(cs, ds)
      /\ \A j \in DOMAIN cs : /\ ds[j].posted <=> cs[j].posted /\ j \notin T
                              /\ ds[j].txn = cs[j].txn
                              /\ ds[j].holder = cs[j].holder
      /\ \A j \in T : j \in DOMAIN cs /\ cs[j].posted /\ cs[j].txn = k /\ cs[j].holder = who
  BY DEF TakesBack, LiveFrom, AmountsKept
<1>2. PaidOver(cs, T) \in Nat
  BY <1>1, SomeContributions
<1>3. ASSUME NEW n \in DOMAIN us PROVE us[n].paid = PaidOver(ds, LiveFrom(ds, n))
  <2> DEFINE S == LiveFrom(cs, n)
  <2>1. S \subseteq DOMAIN cs /\ S \ T \subseteq DOMAIN cs
    BY DEF LiveFrom
  <2>2. LiveFrom(ds, n) = S \ T
    BY <1>1 DEF LiveFrom
  <2>3. PaidOver(cs, S) = PaidBefore(ts, n)
    BY PaidFrom
  <2>4. n = k => T \subseteq S
    BY <1>1 DEF LiveFrom
  <2>5. n # k => S \ T = S
    BY <1>1 DEF LiveFrom
  <2> HIDE DEF S
  <2>6. PaidOver(ds, S \ T) = PaidOver(cs, S \ T)
    BY <1>1, <2>1, PaidStays
  <2>7. CASE n = k
    <3>1. PaidWithout(cs, S, T)
      BY <2>1, <2>4, <2>7, PaidShrinks
    <3> QED
      BY <1>2, <2>2, <2>3, <2>6, <2>7, <3>1 DEF PaidWithout
  <2>8. CASE n # k
    <3>1. us[n].paid = PaidBefore(ts, n)
      BY <2>8
    <3>2. S \ T = S
      BY <2>5, <2>8
    <3> QED
      BY <2>2, <2>3, <2>6, <3>1, <3>2
  <2> QED
    BY <2>7, <2>8
<1>4. ASSUME NEW h \in Holders, NEW c \in Classes
      PROVE  holdings'[h][c].paid = PaidOver(ds, LiveOf(us, ds, h, c))
  <2> DEFINE S == LiveOf(us, cs, h, c)
             mine == c = us[k].class /\ h = who
  <2>1. S \subseteq DOMAIN cs /\ S \ T \subseteq DOMAIN cs
    BY DEF LiveOf
  <2>2. LiveOf(us, ds, h, c) = S \ T
    BY <1>1 DEF LiveOf
  <2>3. PaidOver(cs, S) = holdings[h][c].paid /\ holdings[h][c].paid \in Nat
    <3>1. S = LiveOf(ts, cs, h, c)
      BY LiveBefore
    <3>2. holdings[h][c] \in ShareHolding
      OBVIOUS
    <3> QED
      BY <3>1, <3>2 DEF PaidAddsUp, ShareHolding
  <2>4. holdings'[h][c].paid = holdings[h][c].paid + (IF mine THEN -PaidOver(cs, T) ELSE 0)
    BY DEF Rewrites
  <2>5. mine => T \subseteq S
    BY <1>1 DEF LiveOf
  <2>6. ~mine => S \ T = S
    BY <1>1 DEF LiveOf
  <2> HIDE DEF S, mine
  <2>7. PaidOver(ds, S \ T) = PaidOver(cs, S \ T)
    BY <1>1, <2>1, PaidStays
  <2>8. CASE mine
    <3>1. PaidWithout(cs, S, T)
      BY <2>1, <2>5, <2>8, PaidShrinks
    <3> QED
      BY <1>2, <2>2, <2>3, <2>4, <2>7, <2>8, <3>1 DEF PaidWithout
  <2>9. CASE ~mine
    <3>1. holdings'[h][c].paid = holdings[h][c].paid
      BY <2>3, <2>4, <2>9
    <3>2. S \ T = S
      BY <2>6, <2>9
    <3> QED
      BY <2>2, <2>3, <2>7, <3>1, <3>2
  <2> QED
    BY <2>8, <2>9
<1> QED
  BY <1>3, <1>4 DEF PaidAddsUp

-----------------------------------------------------------------------------
(* Shares: registers and requests *)

CapitalKept ==
    /\ ledger' \in Seq(Entry)
    /\ Settled(ledger', CapitalType, ContributionClaims(contributions'))
    /\ \A t : t \notin {CapitalType, "reversal"} => Spares(t)

LEMMA SameContributions ==
    ASSUME LedgerOK, SharesInv, contributions' = contributions, Spares(CapitalType)
    PROVE  Settled(ledger', CapitalType, ContributionClaims(contributions'))
<1> DEFINE c == ContributionClaims(contributions)
<1>1. Settled(ledger, CapitalType, c)
  BY DEF SharesInv
<1>2. ContributionClaims(contributions') = c
  OBVIOUS
<1>3. SameClaims(c, c)
  BY DEF SameClaims
<1> HIDE DEF c
<1>4. Settled(ledger', CapitalType, c)
  BY <1>1, <1>3, SettledSpared
<1> QED
  BY <1>2, <1>4

LEMMA RegisterKept ==
    ASSUME LedgerOK, SharesInv, UNCHANGED <<financeVars, shareTxns, holdings, contributions>>,
           shareholders' \in [Holders -> {"none", "active", "inactive", "suspended", "exited"}],
           classes' \in [Classes -> ShareClass]
    PROVE  SharesInv'
<1>1. ledger' = ledger /\ day' = day
  BY DEF financeVars
<1>2. /\ shareTxns' = shareTxns /\ holdings' = holdings /\ contributions' = contributions
  OBVIOUS
<1>3. SharesShape'
  BY <1>1, <1>2 DEF SharesInv, SharesShape
<1>4. HistoryHolds(shareTxns', holdings', day') /\ PaidAddsUp(shareTxns', contributions', holdings')
  BY <1>1, <1>2 DEF SharesInv
<1>5. Settled(ledger', CapitalType, ContributionClaims(contributions'))
  BY <1>1, <1>2 DEF SharesInv
<1> QED
  BY <1>3, <1>4, <1>5 DEF SharesInv

LEMMA SharesUndisturbed ==
    ASSUME LedgerOK, SharesInv, UNCHANGED shareVars, Spares(CapitalType), day' = day
    PROVE  SharesInv'
<1>1. /\ shareTxns' = shareTxns /\ holdings' = holdings /\ contributions' = contributions
      /\ shareholders' = shareholders /\ classes' = classes
  BY DEF shareVars
<1>2. SharesShape'
  BY <1>1 DEF SharesInv, SharesShape
<1>3. HistoryHolds(shareTxns', holdings', day') /\ PaidAddsUp(shareTxns', contributions', holdings')
  BY <1>1 DEF SharesInv
<1>4. Settled(ledger', CapitalType, ContributionClaims(contributions'))
  BY <1>1, SameContributions
<1> QED
  BY <1>2, <1>3, <1>4 DEF SharesInv

LEMMA EffectiveDays ==
    ASSUME SharesInv, LedgerOK
    PROVE  /\ \A k \in DOMAIN shareTxns :
                 shareTxns[k].effective \in Int /\ shareTxns[k].effective <= day
           /\ day \in Int /\ shareTxns \in Seq(ShareTxn)
<1>1. shareTxns \in Seq(ShareTxn)
  BY DEF SharesInv, SharesShape
<1>2. ASSUME NEW k \in DOMAIN shareTxns
      PROVE  shareTxns[k].effective \in Int /\ shareTxns[k].effective <= day
  <2>1. shareTxns[k] \in ShareTxn /\ TxnFits(shareTxns[k], day)
    BY <1>1, OneOf DEF SharesInv, SharesShape
  <2> QED
    BY <2>1, BoundAssumption DEF TxnFits, ShareTxn, Days
<1> QED
  BY <1>1, <1>2, DayNumber

LEMMA SharesOnward ==
    ASSUME LedgerOK, SharesInv, UNCHANGED shareVars, NextDay
    PROVE  SharesInv'
<1>1. /\ shareTxns' = shareTxns /\ holdings' = holdings /\ contributions' = contributions
      /\ shareholders' = shareholders /\ classes' = classes
  BY DEF shareVars
<1>2. ledger' = ledger /\ day' = day + 1 /\ day \in Int
  BY DayNumber DEF NextDay
<1>3. \A k \in DOMAIN shareTxns :
         shareTxns[k].effective \in Int /\ shareTxns[k].effective <= day
  BY EffectiveDays
<1>4. \A k \in DOMAIN shareTxns : TxnFits(shareTxns[k], day')
  <2> SUFFICES ASSUME NEW k \in DOMAIN shareTxns PROVE TxnFits(shareTxns[k], day')
    OBVIOUS
  <2>1. TxnFits(shareTxns[k], day)
    BY DEF SharesInv, SharesShape
  <2>2. shareTxns[k].effective <= day'
    BY <1>2, <1>3
  <2> QED
    BY <2>1, <2>2 DEF TxnFits
<1>5. SharesShape'
  BY <1>1, <1>4 DEF SharesInv, SharesShape
<1>6. HistoryHolds(shareTxns, holdings, day)
  BY DEF SharesInv
<1>7. day' \in Int /\ day <= day'
  BY <1>2
<1>8. HistoryHolds(shareTxns, holdings, day')
  BY <1>2, <1>3, <1>6, <1>7, HistoryOnward
<1>9. PaidAddsUp(shareTxns', contributions', holdings')
  BY <1>1 DEF SharesInv
<1>10. Settled(ledger', CapitalType, ContributionClaims(contributions'))
  BY <1>1, <1>2 DEF SharesInv
<1> QED
  BY <1>1, <1>5, <1>8, <1>9, <1>10 DEF SharesInv

\* Contributions stay of issues that took effect, by who received them.
LEMMA ContributionsStillFit ==
    ASSUME SharesInv, NEW us, TxnsKept(shareTxns, us),
           \A n \in DOMAIN shareTxns : shareTxns[n].applied => us[n].applied
    PROVE  \A j \in DOMAIN contributions : ContributionFits(us, contributions[j])
<1> SUFFICES ASSUME NEW j \in DOMAIN contributions PROVE ContributionFits(us, contributions[j])
  OBVIOUS
<1>1. ContributionFits(shareTxns, contributions[j])
  BY DEF SharesInv, SharesShape
<1>2. \A n \in DOMAIN shareTxns : Receiver(us[n]) = Receiver(shareTxns[n])
  BY DEF TxnsKept, Receiver
<1> QED
  BY <1>1, <1>2 DEF ContributionFits, TxnsKept

LEMMA ContributionsRefer ==
    ASSUME SharesInv
    PROVE  Refers(shareTxns, contributions) /\ contributions \in Seq(Contribution)
BY DEF SharesInv, SharesShape, ContributionFits, Refers

LEMMA PaidBeforeType ==
    ASSUME SharesInv, NEW n PROVE PaidBefore(shareTxns, n) \in Nat
<1>1. CASE n \in DOMAIN shareTxns
  <2>1. shareTxns[n] \in ShareTxn
    BY <1>1, OneOf DEF SharesInv, SharesShape
  <2> QED
    BY <1>1, <2>1 DEF ShareTxn, PaidBefore
<1>2. CASE n \notin DOMAIN shareTxns
  BY <1>2 DEF PaidBefore
<1> QED
  BY <1>1, <1>2

\* A request that waits: it says whom it issues to, and what it asks to be paid.
Requested(t) ==
    /\ t \in ShareTxn
    /\ t.effective <= day
    /\ t.status \notin {"posted", "reversed"} /\ ~t.applied /\ t.paid = 0
    /\ t.type = "issued" => \E h \in Holders : t.moves[h] > 0
    /\ t.type # "issued" => t.payment = 0

\* A request is filed, or decided against.
LEMMA RequestKept ==
    ASSUME LedgerOK, SharesInv, UNCHANGED <<holdings, contributions, shareholders, classes>>,
           ledger' = ledger, day' = day,
           NEW k, NEW x, Requested(x), DOMAIN shareTxns \subseteq DOMAIN shareTxns',
           shareTxns' \in Seq(ShareTxn), DOMAIN shareTxns' = DOMAIN shareTxns \cup {k},
           shareTxns'[k] = x, \A n \in DOMAIN shareTxns : n # k => shareTxns'[n] = shareTxns[n],
           k \in DOMAIN shareTxns =>
              /\ shareTxns[k].status = "pending_approval"
              /\ x.class = shareTxns[k].class /\ x.effective = shareTxns[k].effective
              /\ x.moves = shareTxns[k].moves /\ x.commits = shareTxns[k].commits
              /\ x.type = shareTxns[k].type
    PROVE  SharesInv'
<1> DEFINE us == shareTxns'
<1>1. \A n \in DOMAIN shareTxns : TxnFits(shareTxns[n], day)
  BY DEF SharesInv, SharesShape
<1>2. k \in DOMAIN shareTxns => ~shareTxns[k].applied /\ shareTxns[k].paid = 0
  BY <1>1 DEF TxnFits
<1>3. TxnsKept(shareTxns, us)
  BY DEF TxnsKept
<1>4. AppliesNone(shareTxns, us)
  BY <1>2, <1>3 DEF AppliesNone, Requested
<1>5. TxnFits(x, day)
  BY DEF Requested, TxnFits
<1>6. \A n \in DOMAIN us : TxnFits(us[n], day')
  BY <1>1, <1>5
<1>7. \A j \in DOMAIN contributions : ContributionFits(us, contributions[j])
  BY <1>2, <1>3, ContributionsStillFit
<1>8. SharesShape'
  BY <1>6, <1>7 DEF SharesInv, SharesShape
<1>9. HistoryHolds(us, holdings', day')
  <2>1. HistoryHolds(shareTxns, holdings, day) /\ shareTxns \in Seq(ShareTxn)
    BY DEF SharesInv, SharesShape
  <2> QED
    BY <1>4, <2>1, HistoryStays
<1>10. PaidAddsUp(us, contributions', holdings')
  <2>1. PaidAddsUp(shareTxns, contributions, holdings)
    BY DEF SharesInv
  <2>2. ASSUME NEW n \in DOMAIN us PROVE us[n].paid = PaidBefore(shareTxns, n)
    BY <1>2 DEF PaidBefore, Requested
  <2>3. Refers(shareTxns, contributions) /\ contributions \in Seq(Contribution)
    BY ContributionsRefer
  <2>4. PaidAddsUp(us, contributions, holdings)
    BY <1>3, <2>1, <2>2, <2>3, PaidSame
  <2> QED
    BY <2>4
<1>11. Settled(ledger', CapitalType, ContributionClaims(contributions'))
  BY DEF SharesInv
<1> QED
  BY <1>8, <1>9, <1>10, <1>11 DEF SharesInv

-----------------------------------------------------------------------------
(* Shares: an entry takes effect *)

\* What comes in for entry k of who, and how it stands in the ledger.
ComesIn(k, who, n) ==
    \E x : /\ Adds(contributions, contributions', x)
           /\ x.txn = k /\ x.holder = who /\ x.amount = n

LEMMA CapitalEntry ==
    ASSUME NEW n \in Amount, NEW a \in AccountIds \cup {None}, NEW r \in RequestIds \cup {None},
           contributions \in Seq(Contribution)
    PROVE  LET e == PaidIn(n, a, r)
           IN  /\ e \in Entry /\ e.posted /\ e.type = CapitalType
               /\ e.about = Len(contributions) + 1 /\ e.amount = n
<1>1. Len(contributions) + 1 \in Nat
  BY LenProperties
<1>2. CapitalType \in PostingTypes
  BY DEF CapitalType, PostingTypes, OwnershipTypes
<1>3. PaidIn(n, a, r) \in Entry
  BY <1>1, <1>2, NewEntryType DEF PaidIn, CapitalType
<1> QED
  BY <1>3 DEF PaidIn, NewEntry, CapitalType

LEMMA ContributionTaken ==
    ASSUME LedgerOK, SharesInv, NEW k \in Nat, NEW h \in Holders, NEW n \in Amount, NEW source,
           NEW a \in AccountIds \cup {None}, NEW r \in RequestIds \cup {None},
           TakeContribution(h, k, n, source, a, r)
    PROVE  ComesIn(k, h, n) /\ CapitalKept
<1> DEFINE z == Len(contributions) + 1
           x == [holder |-> h, txn |-> k, amount |-> n, posted |-> TRUE,
                 entry |-> IF source = "account" THEN NextNumber ELSE 0]
           c == ContributionClaims(contributions)
           w == [j \in DOMAIN c \cup {z} |-> IF j = z THEN [txn |-> 0, n |-> n] ELSE c[j]]
           e == ContributionClaims(contributions')
<1>1. contributions \in Seq(Contribution) /\ Settled(ledger, CapitalType, c)
  BY DEF SharesInv, SharesShape
<1>2. NextNumber = Len(ledger) + 1 /\ NextNumber \in Nat /\ NextNumber # 0
  BY DayNumber DEF NextNumber
<1>3. x \in Contribution
  BY <1>2 DEF Contribution
<1>4. contributions' = Append(contributions, x)
  BY DEF TakeContribution, Contributed
<1>5. Adds(contributions, contributions', x) /\ x.txn = k /\ x.holder = h /\ x.amount = n
  BY <1>3, <1>4 DEF Adds
<1>6. ComesIn(k, h, n)
  BY <1>5 DEF ComesIn
<1>7. /\ DOMAIN contributions' = DOMAIN contributions \cup {z} /\ z \notin DOMAIN contributions
      /\ contributions'[z] = x
      /\ \A j \in DOMAIN contributions : contributions'[j] = contributions[j]
  <2> HIDE DEF x
  <2> QED
    BY <1>1, <1>3, <1>4, OneAdded
<1>8. /\ DOMAIN e = DOMAIN c \cup {z} /\ z \notin DOMAIN c /\ DOMAIN w = DOMAIN e
      /\ e[z].txn = (IF source = "account" THEN NextNumber ELSE 0) /\ e[z].n = n
      /\ w[z].txn = 0
      /\ \A j \in DOMAIN c : e[j].txn = c[j].txn /\ e[j].n = c[j].n /\ w[j] = c[j]
  BY <1>7 DEF ContributionClaims
<1> HIDE DEF c, e, w, z, x
<1>9. Settled(ledger, CapitalType, w)
  BY <1>1, <1>8, SettledWidened
<1>10. CASE source = "account"
  <2>1. Post(PaidIn(n, a, r))
    BY <1>10 DEF TakeContribution
  <2>2. /\ PaidIn(n, a, r) \in Entry /\ PaidIn(n, a, r).posted /\ PaidIn(n, a, r).type = CapitalType
        /\ PaidIn(n, a, r).about = z /\ PaidIn(n, a, r).amount = n
    BY <1>1, CapitalEntry DEF z
  <2>3. Commit(accounts, ledger, PaidIn(n, a, r))
    BY <2>1 DEF Post
  <2>4. Books(PaidIn(n, a, r).type, PaidIn(n, a, r).about, PaidIn(n, a, r).amount)
    BY <2>2, <2>3, PostBooks
  <2>5. Books(CapitalType, z, n)
    BY <2>2, <2>4
  <2>6. /\ z \in DOMAIN w /\ w[z].txn = 0 /\ DOMAIN e = DOMAIN w
        /\ e[z].txn = Len(ledger) + 1 /\ e[z].n = n
        /\ \A j \in DOMAIN w \ {z} : e[j].txn = w[j].txn /\ (w[j].txn # 0 => e[j].n = w[j].n)
    BY <1>2, <1>8, <1>10
  <2>7. Settled(ledger', CapitalType, e)
    BY <1>9, <2>5, <2>6, SettledPaid
  <2>8. ledger' \in Seq(Entry)
    BY <2>5 DEF Books, Turns
  <2>9. \A t : t # CapitalType => Spares(t)
    BY <2>5, BooksSpares
  <2> QED
    BY <1>6, <2>7, <2>8, <2>9 DEF CapitalKept, e
<1>11. CASE source # "account"
  <2>1. ledger' = ledger
    BY <1>11 DEF TakeContribution
  <2>2. \A t : Spares(t)
    BY <2>1, LedgerStays
  <2>3. SameClaims(w, e)
    BY <1>8, <1>11 DEF SameClaims
  <2>4. Settled(ledger', CapitalType, e)
    BY <1>9, <2>2, <2>3, SettledSpared
  <2>5. ledger' \in Seq(Entry)
    BY <2>1 DEF LedgerOK
  <2> QED
    BY <1>6, <2>2, <2>4, <2>5 DEF CapitalKept, e
<1> QED
  BY <1>10, <1>11

LEMMA OnlyIs ==
    ASSUME NEW n \in Int, NEW who
    PROVE  /\ Nothing \in [Holders -> Int] /\ Only(who, n) \in [Holders -> Int]
           /\ \A h \in Holders : Nothing[h] = 0 /\ Only(who, n)[h] = IF h = who THEN n ELSE 0
<1>1. Nothing \in [Holders -> Int] /\ DOMAIN Nothing = Holders /\ \A h \in Holders : Nothing[h] = 0
  BY DEF Nothing
<1> HIDE DEF Nothing
<1>2. Only(who, n) \in [Holders -> Int]
  BY <1>1 DEF Only
<1>3. ASSUME NEW h \in Holders PROVE Only(who, n)[h] = IF h = who THEN n ELSE 0
  <2>1. CASE h = who
    BY <1>1, <2>1 DEF Only
  <2>2. CASE h # who
    BY <1>1, <2>2 DEF Only
  <2> QED
    BY <2>1, <2>2
<1> QED
  BY <1>1, <1>2, <1>3

\* Who an issue goes to.
LEMMA ReceiverIs ==
    ASSUME NEW t, \E h \in Holders : t.moves[h] > 0
    PROVE  Receiver(t) \in Holders
BY DEF Receiver

\* Either nothing is paid with entry k, or what is paid comes in for who receives it.
PaysWith(k, who, n) ==
    \/ n = 0 /\ contributions' = contributions
    \/ n \in Amount /\ who \in Holders /\ ComesIn(k, who, n)

LEMMA SharesPosted ==
    ASSUME LedgerOK, SharesInv, NEW t, Requested(t), NEW k \in Nat, NEW r \in RequestIds \cup {None},
           PostShares(t, k, r)
    PROVE  /\ Rewrites(t.class, t.moves, t.commits, Receiver(t), t.payment)
           /\ PaysWith(k, Receiver(t), t.payment)
           /\ t.payment # 0 => t.type = "issued"
           /\ CapitalKept
           /\ Covered(shareTxns, t)
<1> DEFINE n == IF t.type = "issued" THEN t.payment ELSE 0
           pays == IF n > 0 THEN Only(Receiver(t), n) ELSE Nothing
<1>1. t \in ShareTxn
  BY DEF Requested
<1>2. /\ t.class \in Classes /\ t.moves \in [Holders -> Int] /\ t.commits \in [Holders -> Int]
      /\ t.payment \in Nat /\ t.account \in AccountIds \cup {None} /\ t.effective \in Days
  BY <1>1 DEF ShareTxn
<1>3. n = t.payment /\ n \in Nat /\ (n # 0 => t.type = "issued")
  BY <1>2 DEF Requested
<1>4. /\ Postable(t)
      /\ ChangeBook(t.class, t.moves, t.commits, pays)
      /\ IF n > 0 THEN TakeContribution(Receiver(t), k, n, t.source, t.account, r)
         ELSE UNCHANGED <<accounts, created, ledger, daily, contributions>>
  BY DEF PostShares
<1>5. n # 0 => Receiver(t) \in Holders
  <2>1. ASSUME n # 0 PROVE \E h \in Holders : t.moves[h] > 0
    BY <1>3, <2>1 DEF Requested
  <2> QED
    BY <2>1, ReceiverIs
<1> HIDE DEF n
<1>6. pays \in [Holders -> Int] /\ \A h \in Holders : pays[h] = IF h = Receiver(t) THEN n ELSE 0
  BY <1>3, OnlyIs
<1> HIDE DEF pays
<1>7. Rewrites(t.class, t.moves, t.commits, Receiver(t), n)
  <2>1. n \in Int
    BY <1>3
  <2>2. holdings \in [Holders -> [Classes -> ShareHolding]]
    BY DEF SharesInv, SharesShape
  <2> QED
    BY <1>2, <1>4, <1>6, <2>1, <2>2, BookRewritten
<1>8. PaysWith(k, Receiver(t), n) /\ CapitalKept
  <2>1. CASE n > 0
    <3>1. n \in Amount /\ Receiver(t) \in Holders
      BY <1>3, <1>5, <2>1 DEF Amount
    <3>2. ComesIn(k, Receiver(t), n) /\ CapitalKept
      BY <1>2, <1>4, <2>1, <3>1, ContributionTaken
    <3> QED
      BY <3>1, <3>2 DEF PaysWith
  <2>2. CASE ~(n > 0)
    <3>1. n = 0 /\ ledger' = ledger /\ contributions' = contributions
      BY <1>3, <1>4, <2>2
    <3>2. \A u : Spares(u)
      BY <3>1, LedgerStays
    <3>3. Settled(ledger', CapitalType, ContributionClaims(contributions'))
      BY <3>1, <3>2, SameContributions
    <3>4. ledger' \in Seq(Entry)
      BY <3>1 DEF LedgerOK
    <3> QED
      BY <3>1, <3>2, <3>3, <3>4 DEF PaysWith, CapitalKept
  <2> QED
    BY <2>1, <2>2
<1>9. Covered(shareTxns, t)
  <2> SUFFICES ASSUME NEW h \in Holders, NEW d \in Days, t.effective <= d
               PROVE  HeldOn(shareTxns, h, t.class, d) + t.moves[h] >= 0
    BY DEF Covered
  <2>1. HeldOn(shareTxns, h, t.class, d) \in Int /\ HeldOn(shareTxns, h, t.class, d) >= 0
    <3>1. shareTxns \in Seq(ShareTxn) /\ HistoryHolds(shareTxns, holdings, day)
      BY DEF SharesInv, SharesShape
    <3>2. BookedBy(shareTxns, t.class, d) \subseteq DOMAIN shareTxns
      BY DEF BookedBy
    <3>3. HeldOn(shareTxns, h, t.class, d) \in Int
      BY <3>1, <3>2, SomeTxns DEF HeldOn
    <3> QED
      BY <1>2, <3>1, <3>3 DEF HistoryHolds
  <2>2. CASE t.moves[h] < 0
    <3>1. NeverNegative(h, t.class, t.effective, t.moves[h])
      BY <1>4, <2>2 DEF Postable
    <3>2. t.effective \in Int /\ d \in Int
      BY <1>2, BoundAssumption DEF Days
    <3>3. Held(h, t.class, d) + (IF d >= t.effective THEN t.moves[h] ELSE 0) >= 0
      BY <3>1 DEF NeverNegative
    <3>4. Held(h, t.class, d) = HeldOn(shareTxns, h, t.class, d)
      BY HeldIs
    <3> QED
      BY <3>2, <3>3, <3>4
  <2>3. CASE ~(t.moves[h] < 0)
    <3>1. t.moves[h] \in Int /\ t.moves[h] >= 0
      BY <1>2, <2>3
    <3> QED
      BY <2>1, <3>1
  <2> QED
    BY <2>2, <2>3
<1> QED
  BY <1>3, <1>7, <1>8, <1>9

LEMMA PostedIs ==
    ASSUME NEW t \in ShareTxn
    PROVE  /\ Posted(t) \in ShareTxn
           /\ Posted(t).class = t.class /\ Posted(t).effective = t.effective
           /\ Posted(t).moves = t.moves /\ Posted(t).commits = t.commits
           /\ Posted(t).type = t.type /\ Posted(t).payment = t.payment
           /\ Posted(t).status = "posted" /\ Posted(t).applied /\ Posted(t).paid = t.payment
BY DEF Posted, ShareTxn

\* Entry k of the ownership ledger takes effect as t says, for us is the ledger then.
TakesEffect(ts, us, k, t) ==
    /\ us \in Seq(ShareTxn) /\ DOMAIN us = DOMAIN ts \cup {k} /\ us[k] = Posted(t)
    /\ \A n \in DOMAIN ts : n # k => us[n] = ts[n]
    /\ k \in DOMAIN ts => t = ts[k]

\* Posting an entry keeps who owns what one story, and what was paid for it.
LEMMA EntryTakesEffect ==
    ASSUME LedgerOK, SharesInv, NEW t, Requested(t), NEW k \in Nat, NEW r \in RequestIds \cup {None},
           PostShares(t, k, r), TakesEffect(shareTxns, shareTxns', k, t),
           UNCHANGED <<shareholders, classes>>, day' = day
    PROVE  SharesInv' /\ CapitalKept
<1> DEFINE us == shareTxns'
           ds == contributions'
           n == t.payment
<1>1. /\ us \in Seq(ShareTxn) /\ DOMAIN us = DOMAIN shareTxns \cup {k} /\ us[k] = Posted(t)
      /\ \A m \in DOMAIN shareTxns : m # k => us[m] = shareTxns[m]
      /\ k \in DOMAIN shareTxns => t = shareTxns[k]
  BY DEF TakesEffect
<1>2. /\ t \in ShareTxn /\ t.effective <= day /\ ~t.applied /\ t.paid = 0
      /\ t.type = "issued" => \E h \in Holders : t.moves[h] > 0
      /\ t.type # "issued" => t.payment = 0
  BY DEF Requested
<1>3. /\ us[k] \in ShareTxn
      /\ us[k].class = t.class /\ us[k].effective = t.effective
      /\ us[k].moves = t.moves /\ us[k].commits = t.commits
      /\ us[k].type = t.type /\ us[k].payment = t.payment
      /\ us[k].status = "posted" /\ us[k].applied /\ us[k].paid = n
  BY <1>1, <1>2, PostedIs
<1>4. /\ Rewrites(t.class, t.moves, t.commits, Receiver(t), n)
      /\ PaysWith(k, Receiver(t), n)
      /\ n # 0 => t.type = "issued"
      /\ CapitalKept
      /\ Covered(shareTxns, t)
  BY SharesPosted
<1> HIDE DEF us, ds, n
<1>5. TxnsKept(shareTxns, us)
  BY <1>1, <1>3 DEF TxnsKept
<1>6. AppliesOne(shareTxns, us, k)
  BY <1>1, <1>2, <1>3, <1>5 DEF AppliesOne
<1>7. \A m \in DOMAIN us : TxnFits(us[m], day)
  <2>1. TxnFits(us[k], day)
    BY <1>2, <1>3 DEF TxnFits, n
  <2>2. \A m \in DOMAIN shareTxns : TxnFits(shareTxns[m], day)
    BY DEF SharesInv, SharesShape
  <2> QED
    BY <1>1, <2>1, <2>2
<1>8. Receiver(us[k]) = Receiver(t)
  BY <1>3 DEF Receiver
<1>9. \A j \in DOMAIN contributions : ContributionFits(us, contributions[j])
  <2>1. \A m \in DOMAIN shareTxns : shareTxns[m].applied => us[m].applied
    BY <1>1, <1>3
  <2> QED
    BY <1>5, <2>1, ContributionsStillFit
<1>10. contributions \in Seq(Contribution) /\ Refers(shareTxns, contributions)
  BY ContributionsRefer
<1>11. /\ shareTxns \in Seq(ShareTxn) /\ HistoryHolds(shareTxns, holdings, day)
       /\ PaidAddsUp(shareTxns, contributions, holdings)
       /\ holdings \in [Holders -> [Classes -> ShareHolding]]
  BY DEF SharesInv, SharesShape
<1>12. HistoryHolds(us, holdings', day)
  <2>1. Covered(shareTxns, us[k])
    BY <1>3, <1>4 DEF Covered
  <2>2. Rewrites(us[k].class, us[k].moves, us[k].commits, Receiver(t), n)
    BY <1>3, <1>4
  <2>3. us[k].effective <= day
    BY <1>2, <1>3
  <2> QED
    BY <1>1, <1>6, <1>11, <2>1, <2>2, <2>3, HistoryGrows
<1>13. \A m \in DOMAIN us : m # k => us[m].paid = PaidBefore(shareTxns, m)
  BY <1>1 DEF PaidBefore
<1>14. PaidBefore(shareTxns, k) = 0 /\ n \in Nat /\ us[k].paid = n
  BY <1>1, <1>2, <1>3 DEF PaidBefore, n, ShareTxn
<1>15. /\ ds \in Seq(Contribution)
       /\ \A j \in DOMAIN ds : ContributionFits(us, ds[j])
       /\ PaidAddsUp(us, ds, holdings')
  <2>1. CASE n = 0 /\ ds = contributions
    <3>1. \A m \in DOMAIN us : us[m].paid = PaidBefore(shareTxns, m)
      BY <1>13, <1>14, <2>1
    <3>2. \A h \in Holders, c \in Classes : holdings'[h][c].paid = holdings[h][c].paid
      <4> SUFFICES ASSUME NEW h \in Holders, NEW c \in Classes
                   PROVE  holdings'[h][c].paid = holdings[h][c].paid
        OBVIOUS
      <4>1. holdings[h][c] \in ShareHolding
        BY <1>11
      <4>2. holdings'[h][c].paid = holdings[h][c].paid
                + (IF c = t.class /\ h = Receiver(t) THEN n ELSE 0)
        BY <1>4 DEF Rewrites
      <4> QED
        BY <2>1, <4>1, <4>2 DEF ShareHolding
    <3>3. PaidAddsUp(us, contributions, holdings')
      BY <1>5, <1>10, <1>11, <3>1, <3>2, PaidSame
    <3> QED
      BY <1>9, <1>10, <2>1, <3>3
  <2>2. CASE n \in Amount /\ Receiver(t) \in Holders /\ ComesIn(k, Receiver(t), n)
    <3>1. PICK x : /\ Adds(contributions, ds, x)
                   /\ x.txn = k /\ x.holder = Receiver(t) /\ x.amount = n
      BY <2>2 DEF ComesIn, ds
    <3>2. /\ ds \in Seq(Contribution)
          /\ DOMAIN ds = DOMAIN contributions \cup {Len(contributions) + 1}
          /\ ds[Len(contributions) + 1] = x
          /\ \A j \in DOMAIN contributions : ds[j] = contributions[j]
      BY <1>10, <3>1, ContributionAdded
    <3>3. ContributionFits(us, x)
      <4>1. n # 0
        BY <2>2 DEF Amount
      <4> QED
        BY <1>1, <1>3, <1>4, <1>8, <3>1, <4>1 DEF ContributionFits
    <3>4. \A j \in DOMAIN ds : ContributionFits(us, ds[j])
      BY <1>9, <3>2, <3>3
    <3>5. \A m \in DOMAIN us :
             us[m].paid = PaidBefore(shareTxns, m) + (IF m = x.txn THEN x.amount ELSE 0)
      <4> SUFFICES ASSUME NEW m \in DOMAIN us
                   PROVE us[m].paid = PaidBefore(shareTxns, m) + (IF m = x.txn THEN x.amount ELSE 0)
        OBVIOUS
      <4>1. PaidBefore(shareTxns, m) \in Nat
        BY PaidBeforeType
      <4> QED
        BY <1>13, <1>14, <3>1, <4>1
    <3>6. \A m \in DOMAIN us : PaidBefore(shareTxns, m) \in Nat
      BY PaidBeforeType
    <3>7. x.txn \in DOMAIN us /\ Rewrites(us[x.txn].class, t.moves, t.commits, x.holder, x.amount)
      BY <1>1, <1>3, <1>4, <3>1
    <3>8. PaidAddsUp(us, ds, holdings')
      BY <1>5, <1>10, <1>11, <3>1, <3>5, <3>6, <3>7, PaidMore
    <3> QED
      BY <3>2, <3>4, <3>8
  <2> QED
    BY <1>4, <2>1, <2>2 DEF PaysWith, ds
<1>16. SharesShape'
  <2>1. holdings' \in [Holders -> [Classes -> ShareHolding]]
    BY <1>4 DEF Rewrites
  <2> QED
    BY <1>1, <1>7, <1>15, <2>1 DEF SharesInv, SharesShape, us, ds
<1>17. Settled(ledger', CapitalType, ContributionClaims(contributions'))
  BY <1>4 DEF CapitalKept
<1>18. SharesInv'
  BY <1>12, <1>15, <1>16, <1>17 DEF SharesInv, us, ds
<1> QED
  BY <1>4, <1>18

\* What was held on the locked record date of a dividend does not change.
RecordsKept ==
    \A i \in DOMAIN dividends : dividends[i].recordLocked =>
        \A h \in Holders, c \in Classes :
            HeldOn(shareTxns', h, c, dividends[i].record) = HeldOn(shareTxns, h, c, dividends[i].record)

\* What every step of shares keeps.
SharesKept == SharesInv' /\ CapitalKept /\ RecordsKept

LEMMA RecordsUntouched ==
    ASSUME SharesInv, AppliesNone(shareTxns, shareTxns')
    PROVE  RecordsKept
<1>1. shareTxns \in Seq(ShareTxn)
  BY DEF SharesInv, SharesShape
<1> QED
  BY <1>1, HeldStays DEF RecordsKept

LEMMA RecordsOpen ==
    ASSUME SharesInv, NEW us, us = shareTxns', us \in Seq(ShareTxn), NEW k, AppliesOne(shareTxns, us, k),
           RecordDateOpen(us[k].effective), \A i \in DOMAIN dividends : dividends[i].record \in Days
    PROVE  RecordsKept
<1> SUFFICES ASSUME NEW i \in DOMAIN dividends, dividends[i].recordLocked,
                    NEW h \in Holders, NEW c \in Classes
             PROVE  HeldOn(us, h, c, dividends[i].record) = HeldOn(shareTxns, h, c, dividends[i].record)
  BY DEF RecordsKept
<1> DEFINE d == dividends[i].record
<1>1. us[k].effective > d /\ d \in Days
  BY DEF RecordDateOpen
<1>2. us[k].effective \in Days
  <2>1. us[k] \in ShareTxn
    BY DEF AppliesOne
  <2> QED
    BY <2>1 DEF ShareTxn
<1> HIDE DEF d
<1>3. ~(us[k].effective <= d)
  BY <1>1, <1>2 DEF Days
<1>4. shareTxns \in Seq(ShareTxn)
  BY DEF SharesInv, SharesShape
<1>5. /\ HeldOn(us, h, c, d) = HeldOn(shareTxns, h, c, d) +
            (IF us[k].class = c /\ us[k].effective <= d THEN us[k].moves[h] ELSE 0)
      /\ HeldOn(shareTxns, h, c, d) \in Int
  BY <1>4, HeldChanges
<1>6. HeldOn(us, h, c, d) = HeldOn(shareTxns, h, c, d)
  BY <1>3, <1>5
<1> QED
  BY <1>6 DEF d

\* What the records of dividends are known to be.
RecordDays == \A i \in DOMAIN dividends : dividends[i].record \in Days

LEMMA EffectApplies ==
    ASSUME NEW ts, NEW us, NEW k, NEW t, Requested(t), TakesEffect(ts, us, k, t)
    PROVE  AppliesOne(ts, us, k) /\ us[k].effective = t.effective
<1>1. t \in ShareTxn /\ ~t.applied
  BY DEF Requested
<1>2. /\ us[k].class = t.class /\ us[k].effective = t.effective
      /\ us[k].moves = t.moves /\ us[k].commits = t.commits
      /\ us[k].type = t.type /\ us[k].applied
  BY <1>1, PostedIs DEF TakesEffect
<1>3. /\ DOMAIN us = DOMAIN ts \cup {k} /\ \A n \in DOMAIN ts : n # k => us[n] = ts[n]
      /\ k \in DOMAIN ts => t = ts[k]
  BY DEF TakesEffect
<1> QED
  BY <1>1, <1>2, <1>3 DEF AppliesOne, TxnsKept

\* Posting an entry, at once or on approval.
LEMMA EntryKept ==
    ASSUME LedgerOK, SharesInv, RecordDays, NEW t, Requested(t), NEW k \in Nat,
           NEW r \in RequestIds \cup {None}, PostShares(t, k, r),
           TakesEffect(shareTxns, shareTxns', k, t), UNCHANGED <<shareholders, classes>>, day' = day
    PROVE  SharesKept
<1>1. SharesInv' /\ CapitalKept
  BY EntryTakesEffect
<1>2. AppliesOne(shareTxns, shareTxns', k) /\ shareTxns'[k].effective = t.effective
  BY EffectApplies
<1>3. RecordDateOpen(t.effective)
  BY DEF PostShares, Postable
<1>4. shareTxns' \in Seq(ShareTxn)
  BY DEF TakesEffect
<1>5. RecordsKept
  BY <1>2, <1>3, <1>4, RecordsOpen DEF RecordDays
<1> QED
  BY <1>1, <1>5 DEF SharesKept

LEMMA TxnAppended ==
    ASSUME NEW ts \in Seq(ShareTxn), NEW t \in ShareTxn
    PROVE  /\ Append(ts, t) \in Seq(ShareTxn)
           /\ Len(ts) + 1 \in Nat /\ Len(ts) + 1 \notin DOMAIN ts
           /\ DOMAIN Append(ts, t) = DOMAIN ts \cup {Len(ts) + 1}
           /\ Append(ts, t)[Len(ts) + 1] = t
           /\ \A n \in DOMAIN ts : Append(ts, t)[n] = ts[n]
OBVIOUS

\* A request filed moves no money.
LEMMA NothingBooked ==
    ASSUME LedgerOK, SharesInv, ledger' = ledger, contributions' = contributions
    PROVE  CapitalKept
<1>1. \A t : Spares(t)
  BY LedgerStays DEF LedgerOK
<1>2. Settled(ledger', CapitalType, ContributionClaims(contributions'))
  BY <1>1, SameContributions
<1> QED
  BY <1>1, <1>2 DEF CapitalKept, LedgerOK

LEMMA SubmitKept ==
    ASSUME LedgerOK, SharesInv, RecordDays, NEW t, Requested(t), NEW r \in PaymentIds, NEW policy,
           Submit(r, t, policy)
    PROVE  SharesKept
<1> DEFINE k == Len(shareTxns) + 1
<1>1. shareTxns \in Seq(ShareTxn) /\ t \in ShareTxn
  BY DEF SharesInv, SharesShape, Requested
<1>2. UNCHANGED <<shareholders, classes>> /\ day' = day
  BY DEF Submit
<1>3. CASE policy.requireApproval
  <2>1. /\ shareTxns' = Append(shareTxns, t)
        /\ ledger' = ledger /\ holdings' = holdings /\ contributions' = contributions
    BY <1>3 DEF Submit
  <2>2. /\ shareTxns' \in Seq(ShareTxn)
        /\ k \in Nat /\ k \notin DOMAIN shareTxns
        /\ DOMAIN shareTxns' = DOMAIN shareTxns \cup {k}
        /\ shareTxns'[k] = t
        /\ \A n \in DOMAIN shareTxns : shareTxns'[n] = shareTxns[n]
    BY <1>1, <2>1, TxnAppended
  <2> HIDE DEF k
  <2>3. SharesInv'
    BY <1>2, <2>1, <2>2, RequestKept
  <2>4. CapitalKept
    BY <2>1, NothingBooked
  <2>5. ~t.applied
    BY DEF Requested
  <2>6. AppliesNone(shareTxns, shareTxns')
    BY <2>2, <2>5 DEF AppliesNone, TxnsKept
  <2> QED
    BY <2>3, <2>4, <2>6, RecordsUntouched DEF SharesKept
<1>4. CASE ~policy.requireApproval
  <2>1. PostShares(t, k, r) /\ shareTxns' = Append(shareTxns, Posted(t))
    BY <1>4 DEF Submit
  <2>2. Posted(t) \in ShareTxn
    BY <1>1, PostedIs
  <2>3. k \in Nat /\ TakesEffect(shareTxns, shareTxns', k, t)
    BY <1>1, <2>1, <2>2, TxnAppended DEF TakesEffect
  <2>4. r \in RequestIds \cup {None}
    BY PaymentId
  <2> HIDE DEF k
  <2> QED
    BY <1>2, <2>1, <2>3, <2>4, EntryKept
<1> QED
  BY <1>3, <1>4

-----------------------------------------------------------------------------
(* The requests *)

LEMMA RequestIs ==
    ASSUME LedgerOK, NEW type \in {"issued", "transferred", "adjusted"}, NEW c \in Classes,
           NEW moves \in [Holders -> Int], NEW commits \in [Holders -> Int], NEW effective \in 1..day
    PROVE  LET t == NewShareTxn(type, c, moves, commits, effective)
           IN  /\ t \in ShareTxn /\ t.effective <= day
               /\ t.status = "pending_approval" /\ ~t.applied /\ t.paid = 0
               /\ t.type = type /\ t.payment = 0 /\ t.moves = moves
<1>1. effective \in Days /\ effective <= day
  BY BoundAssumption DEF LedgerOK, Days
<1> QED
  BY <1>1 DEF NewShareTxn, ShareTxn

LEMMA HowPaid ==
    ASSUME NEW pay \in PaidHow
    PROVE  /\ pay[1] \in {"none", "account", "prior_record"}
           /\ pay[2] \in Nat
           /\ pay[3] \in AccountIds \cup {None}
<1>1. CASE pay = <<"none", 0, None>>
  BY <1>1
<1>2. CASE pay \in {"account"} \X Amounts \X PaidInto
  BY <1>2, BoundAssumption, SharesAssumption DEF Amount
<1>3. CASE pay \in {"prior_record"} \X Amounts \X {None}
  BY <1>3, BoundAssumption DEF Amount
<1> QED
  BY <1>1, <1>2, <1>3 DEF PaidHow

LEMMA CountOfShares ==
    ASSUME NEW n \in ShareCounts PROVE n \in Int /\ n > 0 /\ -n \in Int
BY SharesAssumption DEF Amount

LEMMA ClassValue ==
    ASSUME SharesInv, NEW c \in Classes PROVE classes[c].value \in Int
<1>1. classes \in [Classes -> ShareClass]
  BY DEF SharesInv, SharesShape
<1>2. classes[c] \in ShareClass
  BY <1>1
<1> QED
  BY <1>2 DEF ShareClass

LEMMA IssueKept ==
    ASSUME LedgerOK, SharesInv, RecordDays, NEW r \in PaymentIds, NEW h \in Holders,
           NEW c \in Classes, NEW n \in ShareCounts, NEW effective \in 1..day, NEW pay \in PaidHow,
           NEW policy, IssueShares(r, h, c, n, effective, pay[1], pay[2], pay[3], policy)
    PROVE  SharesKept
<1> DEFINE v == classes[c].value
           committed == n * v
           s == NewShareTxn("issued", c, Only(h, n), Only(h, committed), effective)
           t == [s EXCEPT !.source = pay[1], !.payment = pay[2], !.account = pay[3]]
<1>1. n \in Int /\ n > 0 /\ v \in Int
  BY CountOfShares, ClassValue
<1>2. committed \in Int
  BY <1>1
<1>3. Submit(r, t, policy)
  BY DEF IssueShares
<1> HIDE DEF committed, v
<1>4. /\ Only(h, n) \in [Holders -> Int] /\ Only(h, committed) \in [Holders -> Int]
      /\ Only(h, n)[h] = n
  BY <1>1, <1>2, OnlyIs
<1>5. /\ s \in ShareTxn /\ s.effective <= day
      /\ s.status = "pending_approval" /\ ~s.applied /\ s.paid = 0
      /\ s.type = "issued" /\ s.moves = Only(h, n)
  BY <1>4, RequestIs
<1> HIDE DEF s
<1>6. /\ t \in ShareTxn /\ t.effective <= day
      /\ t.status = "pending_approval" /\ ~t.applied /\ t.paid = 0
      /\ t.type = "issued" /\ t.moves[h] = n
  BY <1>4, <1>5, HowPaid DEF ShareTxn
<1>7. Requested(t)
  BY <1>1, <1>6 DEF Requested
<1> HIDE DEF t
<1> QED
  BY <1>3, <1>7, SubmitKept

LEMMA TransferKept ==
    ASSUME LedgerOK, SharesInv, RecordDays, NEW r \in PaymentIds, NEW from \in Holders,
           NEW to \in Holders, NEW c \in Classes, NEW n \in ShareCounts, NEW effective \in 1..day,
           NEW policy, TransferShares(r, from, to, c, n, effective, policy)
    PROVE  SharesKept
<1> DEFINE z == 0
           moves == [Only(from, -n) EXCEPT ![to] = n]
           t == NewShareTxn("transferred", c, moves, Nothing, effective)
<1>1. n \in Int /\ -n \in Int /\ z \in Int
  BY CountOfShares
<1>2. Submit(r, t, policy)
  BY DEF TransferShares
<1> HIDE DEF z
<1>3. Only(from, -n) \in [Holders -> Int] /\ Nothing \in [Holders -> Int]
  BY <1>1, OnlyIs
<1>4. moves \in [Holders -> Int]
  BY <1>1, <1>3
<1> HIDE DEF moves
<1>5. Requested(t)
  BY <1>3, <1>4, RequestIs DEF Requested
<1> HIDE DEF t
<1> QED
  BY <1>2, <1>5, SubmitKept

LEMMA AdjustKept ==
    ASSUME LedgerOK, SharesInv, RecordDays, NEW r \in PaymentIds, NEW h \in Holders,
           NEW c \in Classes, NEW delta \in Int, NEW commitment \in BOOLEAN, NEW effective \in 1..day,
           NEW policy, AdjustShares(r, h, c, delta, commitment, effective, policy)
    PROVE  SharesKept
<1> DEFINE v == classes[c].value
           committed == IF commitment THEN delta * v ELSE 0
           t == NewShareTxn("adjusted", c, Only(h, delta), Only(h, committed), effective)
<1>1. v \in Int
  BY ClassValue
<1>2. Submit(r, t, policy)
  BY DEF AdjustShares
<1> HIDE DEF v
<1>3. committed \in Int
  BY <1>1
<1> HIDE DEF committed
<1>4. Only(h, delta) \in [Holders -> Int] /\ Only(h, committed) \in [Holders -> Int]
  BY <1>3, OnlyIs
<1>5. Requested(t)
  BY <1>4, RequestIs DEF Requested
<1> HIDE DEF t
<1> QED
  BY <1>2, <1>5, SubmitKept

\* A pending entry is still what was asked for.
LEMMA PendingIs ==
    ASSUME SharesInv, NEW k \in DOMAIN shareTxns, shareTxns[k].status = "pending_approval"
    PROVE  Requested(shareTxns[k]) /\ k \in Nat /\ shareTxns \in Seq(ShareTxn)
<1>1. shareTxns \in Seq(ShareTxn) /\ TxnFits(shareTxns[k], day)
  BY DEF SharesInv, SharesShape
<1>2. shareTxns[k] \in ShareTxn /\ k \in Nat
  BY <1>1
<1> QED
  BY <1>1, <1>2 DEF Requested, TxnFits, ShareTxn

LEMMA ApprovalKept ==
    ASSUME LedgerOK, SharesInv, RecordDays, NEW k \in DOMAIN shareTxns, NEW policy,
           ApproveShareTransaction(k, policy)
    PROVE  SharesKept
<1> DEFINE t == shareTxns[k]
           u == Posted(t)
<1>1. t.status = "pending_approval" /\ PostShares(t, k, None)
  BY DEF ApproveShareTransaction
<1>2. shareTxns' = [shareTxns EXCEPT ![k] = u]
  BY DEF ApproveShareTransaction
<1>3. UNCHANGED <<shareholders, classes>> /\ day' = day
  BY DEF ApproveShareTransaction
<1>4. Requested(t) /\ k \in Nat /\ shareTxns \in Seq(ShareTxn)
  BY <1>1, PendingIs
<1>5. t \in ShareTxn
  BY <1>4 DEF Requested
<1>6. u \in ShareTxn
  BY <1>5, PostedIs
<1> HIDE DEF u
<1>7. /\ shareTxns' \in Seq(ShareTxn) /\ DOMAIN shareTxns' = DOMAIN shareTxns
      /\ shareTxns'[k] = u /\ \A n \in DOMAIN shareTxns : n # k => shareTxns'[n] = shareTxns[n]
  BY <1>2, <1>4, <1>6, OneEdited
<1>8. TakesEffect(shareTxns, shareTxns', k, t)
  BY <1>7 DEF TakesEffect, u
<1>9. None \in RequestIds \cup {None}
  OBVIOUS
<1> HIDE DEF t
<1> QED
  BY <1>1, <1>3, <1>4, <1>8, <1>9, EntryKept

LEMMA RejectionKept ==
    ASSUME LedgerOK, SharesInv, NEW k \in DOMAIN shareTxns, RejectShareTransaction(k)
    PROVE  SharesKept
<1> DEFINE t == shareTxns[k]
           u == [t EXCEPT !.status = "rejected"]
<1>1. t.status = "pending_approval"
  BY DEF RejectShareTransaction
<1>2. shareTxns' = [shareTxns EXCEPT ![k] = u]
  BY DEF RejectShareTransaction
<1>3. UNCHANGED <<holdings, contributions, shareholders, classes>> /\ ledger' = ledger /\ day' = day
  BY DEF RejectShareTransaction, financeVars
<1>4. Requested(t) /\ k \in Nat /\ shareTxns \in Seq(ShareTxn)
  BY <1>1, PendingIs
<1>5. t \in ShareTxn
  BY <1>4 DEF Requested
<1>6. /\ u \in ShareTxn /\ u.class = t.class /\ u.effective = t.effective /\ u.moves = t.moves
      /\ u.commits = t.commits /\ u.type = t.type /\ u.payment = t.payment
      /\ u.applied = t.applied /\ u.paid = t.paid /\ u.status = "rejected"
  BY <1>5 DEF ShareTxn
<1> HIDE DEF u
<1>7. /\ shareTxns' \in Seq(ShareTxn) /\ DOMAIN shareTxns' = DOMAIN shareTxns
      /\ shareTxns'[k] = u /\ \A n \in DOMAIN shareTxns : n # k => shareTxns'[n] = shareTxns[n]
  BY <1>2, <1>4, <1>6, OneEdited
<1>8. Requested(u)
  BY <1>4, <1>6 DEF Requested
<1>9. SharesInv'
  <2>1. /\ DOMAIN shareTxns \subseteq DOMAIN shareTxns'
        /\ DOMAIN shareTxns' = DOMAIN shareTxns \cup {k}
        /\ k \in DOMAIN shareTxns =>
              /\ shareTxns[k].status = "pending_approval"
              /\ u.class = shareTxns[k].class /\ u.effective = shareTxns[k].effective
              /\ u.moves = shareTxns[k].moves /\ u.commits = shareTxns[k].commits
              /\ u.type = shareTxns[k].type
    BY <1>1, <1>6, <1>7
  <2> HIDE DEF t
  <2> QED
    BY <1>3, <1>7, <1>8, <2>1, RequestKept
<1>10. CapitalKept
  BY <1>3, NothingBooked
<1>11. AppliesNone(shareTxns, shareTxns')
  BY <1>6, <1>7 DEF AppliesNone, TxnsKept
<1> QED
  BY <1>9, <1>10, <1>11, RecordsUntouched DEF SharesKept

-----------------------------------------------------------------------------
(* Contributions taken back, and what is paid for an entry *)

\* The contributions T are taken back, those into an account with their entries.
LEMMA CapitalUndone ==
    ASSUME LedgerOK, SharesInv, NEW ds, ds = contributions', DOMAIN ds = DOMAIN contributions,
           NEW T, T \subseteq DOMAIN contributions,
           \A j \in DOMAIN contributions : /\ ds[j].entry = contributions[j].entry
                                           /\ ds[j].amount = contributions[j].amount,
           \A j \in DOMAIN contributions \ T : ds[j].posted <=> contributions[j].posted,
           \A j \in T : contributions[j].posted /\ ~ds[j].posted,
           Unbooks({contributions[j].entry : j \in T} \ {0})
    PROVE  CapitalKept
<1> DEFINE c == ContributionClaims(contributions)
           e == ContributionClaims(ds)
           S == {contributions[j].entry : j \in T} \ {0}
<1>1. Settled(ledger, CapitalType, c)
  BY DEF SharesInv
<1>2. /\ DOMAIN c = DOMAIN contributions /\ DOMAIN e = DOMAIN c
      /\ \A j \in T : c[j].txn = contributions[j].entry /\ e[j].txn = 0
      /\ \A j \in DOMAIN c \ T : e[j].txn = c[j].txn /\ e[j].n = c[j].n
  BY DEF ContributionClaims
<1>3. S = {c[d].txn : d \in T} \ {0}
  BY <1>2
<1>4. \A i \in S : ledger[i].type = CapitalType
  <2> SUFFICES ASSUME NEW i \in S PROVE ledger[i].type = CapitalType
    OBVIOUS
  <2>1. PICK d \in T : i = c[d].txn /\ i # 0
    BY <1>3
  <2>2. LiveIn(ledger, CapitalType, d) = {i}
    BY <1>1, <1>2, <2>1 DEF Settled
  <2> QED
    BY <2>2 DEF LiveIn
<1>5. Unbooks(S)
  OBVIOUS
<1> HIDE DEF c, e, S
<1>6. Settled(ledger', CapitalType, e)
  <2>1. CapitalType # "reversal" /\ Unbooks({c[d].txn : d \in T} \ {0}) /\ T \subseteq DOMAIN c
    BY <1>2, <1>3, <1>5 DEF CapitalType
  <2> QED
    BY <1>1, <1>2, <2>1, SettledAllUnpaid
<1>7. ledger' \in Seq(Entry)
  BY <1>5 DEF Unbooks, Turns
<1>8. \A t : t \notin {CapitalType, "reversal"} => Spares(t)
  BY <1>4, <1>5, UnbooksSpares
<1> QED
  BY <1>6, <1>7, <1>8 DEF CapitalKept, e

\* Only what was paid for entry k changes, to m.
Repays(ts, us, k, m) ==
    /\ us \in Seq(ShareTxn) /\ DOMAIN us = DOMAIN ts /\ k \in DOMAIN ts
    /\ us[k] = [ts[k] EXCEPT !.paid = m]
    /\ \A n \in DOMAIN ts : n # k => us[n] = ts[n]

LEMMA Repaid ==
    ASSUME SharesInv, NEW k \in DOMAIN shareTxns, shareTxns[k].applied, NEW m \in Nat,
           NEW us, Repays(shareTxns, us, k, m)
    PROVE  /\ AppliesNone(shareTxns, us) /\ TxnsKept(shareTxns, us)
           /\ \A n \in DOMAIN us : TxnFits(us[n], day)
           /\ \A n \in DOMAIN us : us[n].paid = IF n = k THEN m ELSE shareTxns[n].paid
           /\ us[k].applied /\ us[k].class = shareTxns[k].class
           /\ us[k].type = shareTxns[k].type
           /\ Receiver(us[k]) = Receiver(shareTxns[k])
           /\ \A j \in DOMAIN contributions : ContributionFits(us, contributions[j])
<1> DEFINE t == shareTxns[k]
           u == us[k]
<1>1. /\ shareTxns \in Seq(ShareTxn) /\ \A n \in DOMAIN shareTxns : TxnFits(shareTxns[n], day)
  BY DEF SharesInv, SharesShape
<1>2. t \in ShareTxn /\ t.applied /\ TxnFits(t, day)
  BY <1>1
<1>3. u = [t EXCEPT !.paid = m]
  BY DEF Repays
<1>4. /\ u.class = t.class /\ u.effective = t.effective /\ u.moves = t.moves
      /\ u.commits = t.commits /\ u.type = t.type /\ u.applied = t.applied
      /\ u.status = t.status /\ u.payment = t.payment /\ u.paid = m
  BY <1>2, <1>3 DEF ShareTxn
<1>5. DOMAIN us = DOMAIN shareTxns /\ \A n \in DOMAIN shareTxns : n # k => us[n] = shareTxns[n]
  BY DEF Repays
<1> HIDE DEF u, t
<1>6. TxnFits(u, day)
  BY <1>2, <1>4 DEF TxnFits
<1>7. TxnsKept(shareTxns, us)
  BY <1>4, <1>5 DEF TxnsKept, u, t
<1>8. \A n \in DOMAIN us : us[n].applied <=> n \in DOMAIN shareTxns /\ shareTxns[n].applied
  BY <1>4, <1>5 DEF u, t
<1>9. AppliesNone(shareTxns, us)
  BY <1>7, <1>8 DEF AppliesNone
<1>10. \A j \in DOMAIN contributions : ContributionFits(us, contributions[j])
  BY <1>5, <1>7, <1>8, ContributionsStillFit
<1>11. \A n \in DOMAIN us : TxnFits(us[n], day)
  BY <1>1, <1>5, <1>6 DEF u
<1>12. Receiver(u) = Receiver(t)
  BY <1>4 DEF Receiver
<1> QED
  BY <1>2, <1>4, <1>5, <1>7, <1>9, <1>10, <1>11, <1>12 DEF u, t

\* The book moves by a payment alone.
LEMMA OnlyPaid ==
    ASSUME SharesInv, NEW us, AppliesNone(shareTxns, us), NEW c \in Classes, NEW who, NEW n \in Int,
           ChangeBook(c, Nothing, Nothing, Only(who, n))
    PROVE  /\ Rewrites(c, Nothing, Nothing, who, n)
           /\ HistoryHolds(us, holdings', day)
<1> DEFINE z == 0
<1>1. z \in Int
  OBVIOUS
<1> HIDE DEF z
<1>2. /\ Nothing \in [Holders -> Int] /\ Only(who, n) \in [Holders -> Int]
      /\ \A h \in Holders : Nothing[h] = 0 /\ Only(who, n)[h] = IF h = who THEN n ELSE 0
  BY OnlyIs
<1>3. /\ holdings \in [Holders -> [Classes -> ShareHolding]] /\ shareTxns \in Seq(ShareTxn)
      /\ HistoryHolds(shareTxns, holdings, day)
  BY DEF SharesInv, SharesShape
<1>4. Rewrites(c, Nothing, Nothing, who, n)
  BY <1>2, <1>3, BookRewritten
<1>5. \A h \in Holders, x \in Classes : /\ holdings'[h][x].shares = holdings[h][x].shares
                                       /\ holdings'[h][x].committed = holdings[h][x].committed
  <2> SUFFICES ASSUME NEW h \in Holders, NEW x \in Classes
               PROVE  /\ holdings'[h][x].shares = holdings[h][x].shares
                      /\ holdings'[h][x].committed = holdings[h][x].committed
    OBVIOUS
  <2>1. holdings[h][x] \in ShareHolding
    BY <1>3
  <2>2. /\ holdings'[h][x].shares = holdings[h][x].shares + (IF x = c THEN Nothing[h] ELSE 0)
        /\ holdings'[h][x].committed = holdings[h][x].committed + (IF x = c THEN Nothing[h] ELSE 0)
    BY <1>4 DEF Rewrites
  <2>3. Nothing[h] = 0
    BY <1>2
  <2> QED
    BY <2>1, <2>2, <2>3 DEF ShareHolding
<1> HIDE DEF Nothing, Only
<1> QED
  BY <1>3, <1>4, <1>5, HistoryStays

\* A later contribution to an issue.
LEMMA ContributionKept ==
    ASSUME LedgerOK, SharesInv, NEW k \in DOMAIN shareTxns, NEW r \in PaymentIds, NEW n \in Amount,
           NEW source, NEW a \in AccountIds \cup {None}, NEW policy,
           RecordShareContribution(r, k, n, source, a, policy)
    PROVE  SharesKept
<1> DEFINE t == shareTxns[k]
           h == Receiver(t)
           m == t.paid + n
           u == [t EXCEPT !.paid = m]
           us == shareTxns'
           ds == contributions'
<1>1. shareTxns \in Seq(ShareTxn) /\ t \in ShareTxn /\ k \in Nat /\ TxnFits(t, day)
  BY OneOf DEF SharesInv, SharesShape
<1>2. /\ t.type = "issued" /\ t.status = "posted"
      /\ ChangeBook(t.class, Nothing, Nothing, Only(h, n))
      /\ TakeContribution(h, k, n, source, a, r)
      /\ UNCHANGED <<shareholders, classes>> /\ day' = day
  BY DEF RecordShareContribution
<1>3. us = [shareTxns EXCEPT ![k] = u]
  BY DEF RecordShareContribution
<1>4. t.applied /\ h \in Holders /\ t.paid \in Nat /\ n \in Nat /\ n \in Int /\ t.class \in Classes
  BY <1>1, <1>2, ReceiverIs DEF TxnFits, ShareTxn, Amount
<1>5. m \in Nat /\ u \in ShareTxn
  <2>1. m \in Nat
    BY <1>4
  <2> HIDE DEF m
  <2> QED
    BY <1>1, <2>1 DEF ShareTxn
<1>6. Repays(shareTxns, us, k, m)
  <2> HIDE DEF u, us
  <2>1. /\ us \in Seq(ShareTxn) /\ DOMAIN us = DOMAIN shareTxns
        /\ us[k] = u /\ \A x \in DOMAIN shareTxns : x # k => us[x] = shareTxns[x]
    BY <1>1, <1>3, <1>5, OneEdited
  <2> QED
    BY <2>1 DEF Repays, u
<1> HIDE DEF u, us, m
<1>7. /\ AppliesNone(shareTxns, us) /\ TxnsKept(shareTxns, us)
      /\ \A x \in DOMAIN us : TxnFits(us[x], day)
      /\ \A x \in DOMAIN us : us[x].paid = IF x = k THEN m ELSE shareTxns[x].paid
      /\ us[k].applied /\ us[k].class = t.class
      /\ us[k].type = t.type
      /\ Receiver(us[k]) = h
      /\ \A j \in DOMAIN contributions : ContributionFits(us, contributions[j])
  BY <1>4, <1>5, <1>6, Repaid
<1>8. Rewrites(t.class, Nothing, Nothing, h, n) /\ HistoryHolds(us, holdings', day)
  BY <1>2, <1>4, <1>7, OnlyPaid
<1>9. ComesIn(k, h, n) /\ CapitalKept
  <2>1. r \in RequestIds \cup {None}
    BY PaymentId
  <2> QED
    BY <1>1, <1>2, <1>4, <2>1, ContributionTaken
<1>10. PICK x : Adds(contributions, ds, x) /\ x.txn = k /\ x.holder = h /\ x.amount = n
  BY <1>9 DEF ComesIn
<1> HIDE DEF h, t, ds
<1>11. contributions \in Seq(Contribution) /\ Refers(shareTxns, contributions)
  BY ContributionsRefer
<1>12. /\ ds \in Seq(Contribution)
       /\ DOMAIN ds = DOMAIN contributions \cup {Len(contributions) + 1}
       /\ ds[Len(contributions) + 1] = x
       /\ \A j \in DOMAIN contributions : ds[j] = contributions[j]
  BY <1>10, <1>11, ContributionAdded
<1>13. us \in Seq(ShareTxn) /\ DOMAIN us = DOMAIN shareTxns
  BY <1>6 DEF Repays
<1>14. ContributionFits(us, x)
  BY <1>2, <1>7, <1>10, <1>13 DEF ContributionFits
<1>15. \A j \in DOMAIN ds : ContributionFits(us, ds[j])
  BY <1>7, <1>12, <1>14
<1>16. \A i \in DOMAIN us : PaidBefore(shareTxns, i) \in Nat
  BY PaidBeforeType
<1>17. \A i \in DOMAIN us :
          us[i].paid = PaidBefore(shareTxns, i) + (IF i = x.txn THEN x.amount ELSE 0)
  <2> SUFFICES ASSUME NEW i \in DOMAIN us
               PROVE  us[i].paid = PaidBefore(shareTxns, i) + (IF i = x.txn THEN x.amount ELSE 0)
    OBVIOUS
  <2>1. us[i].paid = (IF i = k THEN m ELSE shareTxns[i].paid) /\ i \in DOMAIN shareTxns
    BY <1>7, <1>13
  <2>2. PaidBefore(shareTxns, i) = shareTxns[i].paid /\ PaidBefore(shareTxns, i) \in Nat
    BY <1>16, <2>1 DEF PaidBefore
  <2> QED
    BY <1>4, <1>10, <2>1, <2>2 DEF m, t
<1>18. PaidAddsUp(us, ds, holdings')
  <2>1. x.txn \in DOMAIN us /\ Rewrites(us[x.txn].class, Nothing, Nothing, x.holder, x.amount)
    BY <1>7, <1>8, <1>10, <1>13
  <2>2. PaidAddsUp(shareTxns, contributions, holdings)
        /\ holdings \in [Holders -> [Classes -> ShareHolding]]
    BY DEF SharesInv, SharesShape
  <2> HIDE DEF Nothing
  <2> QED
    BY <1>7, <1>10, <1>11, <1>16, <1>17, <2>1, <2>2, PaidMore
<1>19. SharesShape'
  <2>1. holdings' \in [Holders -> [Classes -> ShareHolding]]
    BY <1>8 DEF Rewrites
  <2> QED
    BY <1>2, <1>7, <1>12, <1>13, <1>15, <2>1 DEF SharesInv, SharesShape, us, ds
<1>20. Settled(ledger', CapitalType, ContributionClaims(contributions'))
  BY <1>9 DEF CapitalKept
<1>21. SharesInv'
  BY <1>2, <1>8, <1>18, <1>19, <1>20 DEF SharesInv, us, ds
<1>22. RecordsKept
  BY <1>7, RecordsUntouched DEF us
<1> QED
  BY <1>9, <1>21, <1>22 DEF SharesKept

LEMMA PaidOfOne ==
    ASSUME NEW cs \in Seq(Contribution), NEW j \in DOMAIN cs
    PROVE  PaidOver(cs, {j}) = cs[j].amount
<1> DEFINE none == {}
<1>1. AmountsKept(cs, cs) /\ none \subseteq DOMAIN cs /\ j \notin none
  BY DEF AmountsKept
<1>2. PaidWith(cs, cs, none, j)
  <2> HIDE DEF none
  <2> QED
    BY <1>1, PaidGrows
<1>3. none \cup {j} = {j} /\ PaidOver(cs, none) = 0
  BY PaidOfNobody
<1>4. cs[j].amount \in Nat
  <2>1. cs[j] \in Contribution
    BY OneOf
  <2> QED
    BY <2>1 DEF Contribution, Amount
<1> HIDE DEF none
<1>5. PaidOver(cs, none \cup {j}) = PaidOver(cs, none) + cs[j].amount
  BY <1>2 DEF PaidWith
<1>6. PaidOver(cs, {j}) = 0 + cs[j].amount
  BY <1>3, <1>5
<1> QED
  BY <1>4, <1>6

\* What is taken back was paid.
LEMMA PaidLeaves ==
    ASSUME SharesInv, NEW k \in DOMAIN shareTxns, NEW T, T \subseteq LiveFrom(contributions, k)
    PROVE  /\ shareTxns[k].paid - PaidOver(contributions, T) \in Nat
           /\ PaidOver(contributions, T) \in Nat
<1> DEFINE S == LiveFrom(contributions, k)
<1>1. contributions \in Seq(Contribution) /\ shareTxns[k].paid = PaidOver(contributions, S)
  BY DEF SharesInv, SharesShape, PaidAddsUp
<1>2. S \subseteq DOMAIN contributions /\ T \subseteq DOMAIN contributions
  BY DEF LiveFrom
<1> HIDE DEF S
<1>3. T \subseteq S
  BY DEF S
<1>4. PaidWithout(contributions, S, T)
  BY <1>1, <1>2, <1>3, PaidShrinks
<1>5. S \ T \subseteq DOMAIN contributions
  BY <1>2
<1>6. PaidOver(contributions, S \ T) \in Nat /\ PaidOver(contributions, T) \in Nat
  <2>1. PaidOver(contributions, S \ T) \in Nat
    BY <1>1, <1>5, SomeContributions
  <2>2. PaidOver(contributions, T) \in Nat
    BY <1>1, <1>2, SomeContributions
  <2> QED
    BY <2>1, <2>2
<1> QED
  BY <1>1, <1>4, <1>6 DEF PaidWithout

LEMMA ContributionEdited ==
    ASSUME NEW cs \in Seq(Contribution), NEW j \in DOMAIN cs
    PROVE  LET x == [cs[j] EXCEPT !.posted = FALSE]
           IN  /\ x \in Contribution /\ ~x.posted /\ x.amount = cs[j].amount
               /\ x.txn = cs[j].txn /\ x.holder = cs[j].holder /\ x.entry = cs[j].entry
<1>1. cs[j] \in Contribution
  BY OneOf
<1> QED
  BY <1>1 DEF Contribution

LEMMA ContributionUndone ==
    ASSUME LedgerOK, SharesInv, NEW j \in DOMAIN contributions, ReverseShareContribution(j)
    PROVE  SharesKept
<1> DEFINE c == contributions[j]
           k == c.txn
           n == c.amount
           h == c.holder
           m == shareTxns[k].paid - n
           u == [shareTxns[k] EXCEPT !.paid = m]
           x == [c EXCEPT !.posted = FALSE]
           us == shareTxns'
           ds == contributions'
           T == {j}
<1>1. /\ shareTxns \in Seq(ShareTxn) /\ contributions \in Seq(Contribution)
      /\ ContributionFits(shareTxns, c)
  BY DEF SharesInv, SharesShape
<1>2. k \in DOMAIN shareTxns /\ shareTxns[k].applied /\ k \in Nat
  BY <1>1, OneOf DEF ContributionFits
<1>3. c \in Contribution /\ shareTxns[k] \in ShareTxn
  BY <1>1, <1>2, OneOf
<1>4. n \in Nat /\ -n \in Int /\ h \in Holders /\ c.entry \in Nat /\ shareTxns[k].class \in Classes
  BY <1>3 DEF Contribution, Amount, ShareTxn
<1>5. /\ c.posted
      /\ ChangeBook(shareTxns[k].class, Nothing, Nothing, Only(h, -n))
      /\ IF c.entry # 0 THEN ReverseEntry(c.entry) ELSE UNCHANGED financeVars
      /\ UNCHANGED <<shareholders, classes>>
  BY DEF ReverseShareContribution
<1>6. us = [shareTxns EXCEPT ![k] = u] /\ ds = [contributions EXCEPT ![j] = x]
  BY DEF ReverseShareContribution
<1>7. PaidOver(contributions, T) = n /\ T \subseteq LiveFrom(contributions, k)
  BY <1>1, <1>5, PaidOfOne DEF LiveFrom
<1>8. m \in Nat
  <2> HIDE DEF T, n, k
  <2>1. shareTxns[k].paid - PaidOver(contributions, T) \in Nat
    BY <1>2, <1>7, PaidLeaves
  <2> QED
    BY <1>7, <2>1
<1>9. u \in ShareTxn
  <2> HIDE DEF m, k
  <2> QED
    BY <1>3, <1>8 DEF ShareTxn
<1>10. /\ x \in Contribution /\ ~x.posted /\ x.amount = n /\ x.txn = k /\ x.holder = h
       /\ x.entry = c.entry
  BY <1>1, ContributionEdited
<1>11. Repays(shareTxns, us, k, m)
  <2> HIDE DEF u, us, k
  <2>1. /\ us \in Seq(ShareTxn) /\ DOMAIN us = DOMAIN shareTxns
        /\ us[k] = u /\ \A i \in DOMAIN shareTxns : i # k => us[i] = shareTxns[i]
    BY <1>1, <1>2, <1>6, <1>9, OneEdited
  <2> QED
    BY <1>2, <2>1 DEF Repays, u
<1>12. /\ ds \in Seq(Contribution) /\ DOMAIN ds = DOMAIN contributions /\ ds[j] = x
       /\ \A i \in DOMAIN contributions : i # j => ds[i] = contributions[i]
  <2> HIDE DEF x, ds
  <2> QED
    BY <1>1, <1>6, <1>10, OneEdited
<1>13. LedgerOK' /\ day' = day /\ Unbooks({contributions[i].entry : i \in T} \ {0})
  <2>1. {contributions[i].entry : i \in T} = {c.entry}
    OBVIOUS
  <2>2. CASE c.entry # 0
    <3>1. LiveIn(ledger, CapitalType, j) = {c.entry}
      BY <1>5, <2>2 DEF SharesInv, Settled, ContributionClaims
    <3>2. c.entry \in EntryNumbers /\ ReverseEntry(c.entry)
      BY <1>5, <2>2, <3>1 DEF LiveIn, EntryNumbers
    <3>3. Unbooks({c.entry}) /\ LedgerOK'
      BY <3>2, EntryUnbooks
    <3>4. day' = day
      BY <3>2 DEF ReverseEntry
    <3> QED
      BY <2>1, <2>2, <3>3, <3>4
  <2>3. CASE c.entry = 0
    <3>1. UNCHANGED financeVars /\ day' = day
      BY <1>5, <2>3 DEF financeVars
    <3>2. ledger' = ledger /\ LedgerOK'
      BY <3>1, FinanceUnchanged
    <3>3. Turns({}) /\ Added = {}
      BY <3>2, LedgerStays
    <3>4. {c.entry} \ {0} = {}
      BY <2>3
    <3> QED
      BY <2>1, <3>1, <3>2, <3>3, <3>4 DEF Unbooks
  <2> QED
    BY <2>2, <2>3
<1> HIDE DEF u, us, m, x, ds, k, n, h
<1>14. /\ AppliesNone(shareTxns, us) /\ TxnsKept(shareTxns, us)
       /\ \A i \in DOMAIN us : TxnFits(us[i], day)
       /\ \A i \in DOMAIN us : us[i].paid = IF i = k THEN m ELSE shareTxns[i].paid
       /\ us[k].class = shareTxns[k].class
       /\ \A i \in DOMAIN contributions : ContributionFits(us, contributions[i])
  BY <1>2, <1>8, <1>11, Repaid
<1>15. Rewrites(shareTxns[k].class, Nothing, Nothing, h, -n) /\ HistoryHolds(us, holdings', day)
  <2> DEFINE p == -n
  <2>1. p \in Int /\ ChangeBook(shareTxns[k].class, Nothing, Nothing, Only(h, p))
    BY <1>4, <1>5
  <2> HIDE DEF p
  <2>2. Rewrites(shareTxns[k].class, Nothing, Nothing, h, p) /\ HistoryHolds(us, holdings', day)
    BY <1>4, <1>14, <2>1, OnlyPaid
  <2> QED
    BY <2>2 DEF p
<1>16. us \in Seq(ShareTxn) /\ DOMAIN us = DOMAIN shareTxns
  BY <1>11 DEF Repays
<1>17. CapitalKept
  <2>1. \A i \in DOMAIN contributions : /\ ds[i].entry = contributions[i].entry
                                        /\ ds[i].amount = contributions[i].amount
    BY <1>10, <1>12 DEF n
  <2>2. \A i \in DOMAIN contributions \ T : ds[i].posted <=> contributions[i].posted
    BY <1>12
  <2>3. \A i \in T : contributions[i].posted /\ ~ds[i].posted
    BY <1>5, <1>10, <1>12
  <2>4. T \subseteq DOMAIN contributions
    OBVIOUS
  <2> HIDE DEF T
  <2> QED
    BY <1>12, <1>13, <2>1, <2>2, <2>3, <2>4, CapitalUndone DEF ds
<1>18. TakesBack(contributions, ds, T, k, h)
  <2>1. AmountsKept(contributions, ds)
    BY <1>10, <1>12 DEF AmountsKept, n, k, h
  <2>2. \A i \in DOMAIN contributions : ds[i].posted <=> contributions[i].posted /\ i \notin T
    BY <1>10, <1>12
  <2> QED
    BY <1>7, <1>12, <2>1, <2>2 DEF TakesBack, h
<1>19. \A i \in DOMAIN ds : ContributionFits(us, ds[i])
  <2>1. ContributionFits(us, x)
    BY <1>10, <1>14 DEF ContributionFits, k, h
  <2> QED
    BY <1>12, <1>14, <2>1
<1>20. contributions \in Seq(Contribution) /\ Refers(shareTxns, contributions)
  BY ContributionsRefer
<1>21. \A i \in DOMAIN us : PaidBefore(shareTxns, i) \in Nat
  BY PaidBeforeType
<1>22. \A i \in DOMAIN us :
          us[i].paid = PaidBefore(shareTxns, i) - (IF i = k THEN PaidOver(contributions, T) ELSE 0)
  <2> HIDE DEF T, c
  <2> SUFFICES ASSUME NEW i \in DOMAIN us
               PROVE  us[i].paid = PaidBefore(shareTxns, i)
                                     - (IF i = k THEN PaidOver(contributions, T) ELSE 0)
    OBVIOUS
  <2>1. us[i].paid = (IF i = k THEN m ELSE shareTxns[i].paid) /\ i \in DOMAIN shareTxns
    BY <1>14, <1>16
  <2>2. PaidBefore(shareTxns, i) = shareTxns[i].paid /\ PaidBefore(shareTxns, i) \in Nat
    BY <1>21, <2>1 DEF PaidBefore
  <2>3. m = shareTxns[k].paid - PaidOver(contributions, T) /\ PaidOver(contributions, T) = n
    BY <1>7 DEF m
  <2> QED
    BY <1>4, <2>1, <2>2, <2>3
<1> HIDE DEF T, c
<1>23. PaidAddsUp(us, ds, holdings')
  <2> DEFINE z == Nothing
  <2>1. k \in DOMAIN us /\ Rewrites(us[k].class, z, z, h, -PaidOver(contributions, T))
    BY <1>2, <1>7, <1>14, <1>15, <1>16
  <2>2. PaidAddsUp(shareTxns, contributions, holdings)
        /\ holdings \in [Holders -> [Classes -> ShareHolding]]
    BY DEF SharesInv, SharesShape
  <2> HIDE DEF z
  <2> QED
    BY <1>14, <1>18, <1>20, <1>21, <1>22, <2>1, <2>2, PaidLess
<1>24. SharesShape'
  <2>1. holdings' \in [Holders -> [Classes -> ShareHolding]]
    BY <1>15 DEF Rewrites
  <2> QED
    BY <1>5, <1>12, <1>13, <1>14, <1>16, <1>19, <2>1 DEF SharesInv, SharesShape, us, ds
<1>25. Settled(ledger', CapitalType, ContributionClaims(contributions'))
  BY <1>17 DEF CapitalKept
<1>26. SharesInv'
  BY <1>13, <1>15, <1>23, <1>24, <1>25 DEF SharesInv, us, ds
<1>27. RecordsKept
  BY <1>14, RecordsUntouched DEF us
<1> QED
  BY <1>17, <1>26, <1>27 DEF SharesKept

-----------------------------------------------------------------------------
(* The reversal of an ownership entry *)

LEMMA MinusIs ==
    ASSUME NEW f \in [Holders -> Int]
    PROVE  Minus(f) \in [Holders -> Int] /\ \A h \in Holders : Minus(f)[h] = -f[h]
<1>1. \A h \in Holders : -f[h] \in Int
  OBVIOUS
<1> QED
  BY <1>1 DEF Minus

\* The mirror of entry t, in effect today.
TxnMirror(t) ==
    [NewShareTxn("reversal", t.class, Minus(t.moves), Minus(t.commits), day) EXCEPT
        !.status = "posted", !.applied = TRUE]

LEMMA TxnMirrorIs ==
    ASSUME LedgerOK, NEW t \in ShareTxn
    PROVE  LET z == TxnMirror(t)
           IN  /\ z \in ShareTxn /\ TxnFits(z, day)
               /\ z.class = t.class /\ z.moves = Minus(t.moves) /\ z.commits = Minus(t.commits)
               /\ z.effective = day /\ z.applied /\ z.paid = 0
<1> DEFINE s == NewShareTxn("reversal", t.class, Minus(t.moves), Minus(t.commits), day)
           z == TxnMirror(t)
<1>1. /\ t.class \in Classes /\ Minus(t.moves) \in [Holders -> Int]
      /\ Minus(t.commits) \in [Holders -> Int]
  BY MinusIs DEF ShareTxn
<1>2. day \in Days /\ day <= day
  BY DayNumber DEF LedgerOK
<1>3. /\ s \in ShareTxn /\ s.class = t.class /\ s.moves = Minus(t.moves) /\ s.commits = Minus(t.commits)
      /\ s.effective = day /\ s.paid = 0 /\ s.payment = 0 /\ s.type = "reversal"
  BY <1>1, <1>2 DEF NewShareTxn, ShareTxn
<1> HIDE DEF s
<1>4. z = [s EXCEPT !.status = "posted", !.applied = TRUE]
  BY DEF TxnMirror, s
<1>5. /\ z \in ShareTxn
      /\ z.class = t.class /\ z.moves = Minus(t.moves) /\ z.commits = Minus(t.commits)
      /\ z.effective = day /\ z.applied /\ z.paid = 0 /\ z.status = "posted"
      /\ z.payment = 0 /\ z.type = "reversal"
  BY <1>3, <1>4 DEF ShareTxn
<1> HIDE DEF z
<1>6. TxnFits(z, day)
  BY <1>2, <1>5 DEF TxnFits
<1> QED
  BY <1>5, <1>6 DEF z

\* Entry k is reversed by its mirror: what us is then.
TxnReversed(ts, us, k) ==
    /\ us \in Seq(ShareTxn)
    /\ DOMAIN us = DOMAIN ts \cup {Len(ts) + 1}
    /\ us[k] = [ts[k] EXCEPT !.status = "reversed", !.paid = 0]
    /\ \A n \in DOMAIN ts : n # k => us[n] = ts[n]
    /\ us[Len(ts) + 1] = TxnMirror(ts[k])

ReversalAdded(ts, us, k) ==
    us = Append([ts EXCEPT ![k].status = "reversed", ![k].paid = 0], TxnMirror(ts[k]))

LEMMA ReversedIs ==
    ASSUME LedgerOK, NEW ts \in Seq(ShareTxn), NEW k \in DOMAIN ts, NEW us, ReversalAdded(ts, us, k)
    PROVE  TxnReversed(ts, us, k)
<1> DEFINE t == ts[k]
           u == [t EXCEPT !.status = "reversed", !.paid = 0]
           es == [ts EXCEPT ![k] = u]
           z == TxnMirror(t)
<1>1. us = Append(es, z)
  BY DEF ReversalAdded
<1>2. t \in ShareTxn
  BY OneOf
<1>3. u \in ShareTxn
  BY <1>2 DEF ShareTxn
<1>4. z \in ShareTxn
  BY <1>2, TxnMirrorIs
<1> HIDE DEF u, z
<1>5. /\ es \in Seq(ShareTxn) /\ DOMAIN es = DOMAIN ts /\ es[k] = u
      /\ \A n \in DOMAIN ts : n # k => es[n] = ts[n]
  BY <1>3, OneEdited
<1>6. Len(es) = Len(ts)
  BY <1>5, LenProperties
<1> HIDE DEF es
<1>7. /\ us \in Seq(ShareTxn) /\ DOMAIN us = DOMAIN es \cup {Len(es) + 1}
      /\ \A n \in DOMAIN es : us[n] = es[n]
      /\ us[Len(es) + 1] = z
  BY <1>1, <1>4, <1>5, TxnAppended
<1> QED
  BY <1>5, <1>6, <1>7 DEF TxnReversed, u, z

LEMMA ReversalApplies ==
    ASSUME LedgerOK, SharesInv, NEW k \in DOMAIN shareTxns, shareTxns[k].status = "posted",
           NEW us, TxnReversed(shareTxns, us, k), NEW m, m = Len(shareTxns) + 1
    PROVE  /\ AppliesOne(shareTxns, us, m) /\ TxnsKept(shareTxns, us)
           /\ us \in Seq(ShareTxn)
           /\ \A n \in DOMAIN us : TxnFits(us[n], day)
           /\ \A j \in DOMAIN contributions : ContributionFits(us, contributions[j])
           /\ us[m].class = shareTxns[k].class /\ us[m].effective = day
           /\ us[m].moves = Minus(shareTxns[k].moves) /\ us[m].commits = Minus(shareTxns[k].commits)
           /\ us[k].class = shareTxns[k].class /\ k \in DOMAIN us
           /\ \A n \in DOMAIN us : us[n].paid = IF n = k THEN 0 ELSE PaidBefore(shareTxns, n)
<1> DEFINE t == shareTxns[k]
           u == us[k]
           z == TxnMirror(t)
<1>1. /\ shareTxns \in Seq(ShareTxn) /\ \A n \in DOMAIN shareTxns : TxnFits(shareTxns[n], day)
  BY DEF SharesInv, SharesShape
<1>2. t \in ShareTxn /\ TxnFits(t, day) /\ t.applied
  BY <1>1, OneOf DEF TxnFits
<1>3. /\ us \in Seq(ShareTxn) /\ DOMAIN us = DOMAIN shareTxns \cup {m}
      /\ u = [t EXCEPT !.status = "reversed", !.paid = 0]
      /\ \A n \in DOMAIN shareTxns : n # k => us[n] = shareTxns[n]
      /\ us[m] = z
  BY DEF TxnReversed
<1>4. m \notin DOMAIN shareTxns /\ m # k
  BY <1>1, LenProperties
<1>5. /\ z \in ShareTxn /\ TxnFits(z, day)
      /\ z.class = t.class /\ z.moves = Minus(t.moves) /\ z.commits = Minus(t.commits)
      /\ z.effective = day /\ z.applied /\ z.paid = 0
  BY <1>2, TxnMirrorIs
<1>6. /\ u.class = t.class /\ u.effective = t.effective /\ u.moves = t.moves /\ u.commits = t.commits
      /\ u.type = t.type /\ u.applied = t.applied /\ u.status = "reversed" /\ u.paid = 0
      /\ u.payment = t.payment
  BY <1>2, <1>3 DEF ShareTxn
<1> HIDE DEF u, t, z
<1>7. TxnFits(u, day)
  BY <1>2, <1>6 DEF TxnFits
<1>8. TxnsKept(shareTxns, us)
  BY <1>3, <1>6 DEF TxnsKept, u, t
<1>9. AppliesOne(shareTxns, us, m)
  BY <1>3, <1>4, <1>5, <1>6, <1>8 DEF AppliesOne, u, t
<1>10. \A n \in DOMAIN us : TxnFits(us[n], day)
  BY <1>1, <1>3, <1>5, <1>7 DEF u
<1>11. \A j \in DOMAIN contributions : ContributionFits(us, contributions[j])
  <2>1. \A n \in DOMAIN shareTxns : shareTxns[n].applied => us[n].applied
    BY <1>3, <1>6 DEF u, t
  <2> QED
    BY <1>8, <2>1, ContributionsStillFit
<1>12. \A n \in DOMAIN us : us[n].paid = IF n = k THEN 0 ELSE PaidBefore(shareTxns, n)
  BY <1>3, <1>4, <1>5, <1>6 DEF PaidBefore, u
<1> QED
  BY <1>3, <1>5, <1>6, <1>8, <1>9, <1>10, <1>11, <1>12 DEF u, t

\* The money of the contributions to an entry.
LEMMA MoneyIn ==
    ASSUME SharesInv, NEW k
    PROVE  {contributions[j].entry : j \in LiveFrom(contributions, k)} \ {0} \subseteq EntryNumbers
<1> SUFFICES ASSUME NEW j \in LiveFrom(contributions, k), contributions[j].entry # 0
             PROVE  contributions[j].entry \in EntryNumbers
  OBVIOUS
<1>1. j \in DOMAIN contributions /\ contributions[j].posted
  BY DEF LiveFrom
<1>2. LiveIn(ledger, CapitalType, j) = {contributions[j].entry}
  BY <1>1 DEF SharesInv, Settled, ContributionClaims
<1> QED
  BY <1>2 DEF LiveIn, EntryNumbers

\* Nobody had less than nothing since the mirror took effect.
LEMMA MirrorCovered ==
    ASSUME LedgerOK, SharesInv, NEW c \in Classes, NEW moves, NEW commits, NEW who, NEW n,
           Rewrites(c, moves, commits, who, n), NEW z, z.effective = day, z.class = c, z.moves = moves
    PROVE  Covered(shareTxns, z)
<1> SUFFICES ASSUME NEW h \in Holders, NEW d \in Days, day <= d
             PROVE  HeldOn(shareTxns, h, c, d) + moves[h] >= 0
  BY DEF Covered
<1>1. holdings[h][c].shares = HeldOn(shareTxns, h, c, day)
  BY DEF SharesInv, HistoryHolds
<1>2. day \in Int /\ d \in Int
  BY EffectiveDays DEF Days
<1>3. HeldOn(shareTxns, h, c, d) = HeldOn(shareTxns, h, c, day)
  BY <1>2, EffectiveDays, HeldFrom
<1>4. holdings'[h][c].shares = holdings[h][c].shares + moves[h] /\ holdings'[h][c] \in ShareHolding
  BY DEF Rewrites
<1>5. holdings'[h][c].shares >= 0
  BY <1>4 DEF ShareHolding
<1> QED
  BY <1>1, <1>3, <1>4, <1>5

LEMMA EntryUndone ==
    ASSUME LedgerOK, SharesInv, RecordDays, NEW k \in DOMAIN shareTxns, NEW r,
           ReverseShareTransaction(r, k)
    PROVE  SharesKept
<1> DEFINE t == shareTxns[k]
           T == LiveFrom(contributions, k)
           back == PaidOver(contributions, T)
           who == Receiver(t)
           p == -back
           pays == IF T = {} THEN Nothing ELSE Only(who, p)
           m == Len(shareTxns) + 1
           us == shareTxns'
           ds == contributions'
<1>1. TakenBack(k) = T /\ PaidFor(T) = back
  BY DEF TakenBack, LiveContributions, LiveFrom, PaidFor, PaidOver
<1>2. /\ t.status = "posted" /\ RecordDateOpen(day)
      /\ ChangeBook(t.class, Minus(t.moves), Minus(t.commits), pays)
      /\ ReverseAll({contributions[j].entry : j \in T} \ {0})
      /\ UNCHANGED <<shareholders, classes>> /\ day' = day
  BY <1>1 DEF ReverseShareTransaction
<1>3. ds = [j \in DOMAIN contributions |->
              IF j \in T THEN [contributions[j] EXCEPT !.posted = FALSE] ELSE contributions[j]]
  BY <1>1 DEF ReverseShareTransaction
<1>4. ReversalAdded(shareTxns, us, k)
  BY DEF ReverseShareTransaction, TxnMirror, ReversalAdded
<1>5. /\ shareTxns \in Seq(ShareTxn) /\ contributions \in Seq(Contribution)
      /\ holdings \in [Holders -> [Classes -> ShareHolding]]
      /\ HistoryHolds(shareTxns, holdings, day)
      /\ PaidAddsUp(shareTxns, contributions, holdings)
      /\ \A j \in DOMAIN contributions : ContributionFits(shareTxns, contributions[j])
  BY DEF SharesInv, SharesShape
<1>6. t \in ShareTxn
  BY <1>5, OneOf
<1>7. T \subseteq DOMAIN contributions /\ \A j \in T : contributions[j].posted /\ contributions[j].txn = k
  BY DEF LiveFrom
<1>8. back \in Nat /\ t.paid = back
  <2>1. back \in Nat
    BY <1>5, <1>7, SomeContributions
  <2> QED
    BY <1>5, <2>1 DEF PaidAddsUp
<1> HIDE DEF us, ds, T, back, t
<1>9. TxnReversed(shareTxns, us, k)
  BY <1>4, <1>5, ReversedIs
<1> HIDE DEF m
<1>10. m = Len(shareTxns) + 1
  BY DEF m
<1>11. /\ AppliesOne(shareTxns, us, m) /\ TxnsKept(shareTxns, us)
       /\ us \in Seq(ShareTxn)
       /\ \A n \in DOMAIN us : TxnFits(us[n], day)
       /\ \A j \in DOMAIN contributions : ContributionFits(us, contributions[j])
       /\ us[m].class = t.class /\ us[m].effective = day
       /\ us[m].moves = Minus(t.moves) /\ us[m].commits = Minus(t.commits)
       /\ us[k].class = t.class /\ k \in DOMAIN us
       /\ \A n \in DOMAIN us : us[n].paid = IF n = k THEN 0 ELSE PaidBefore(shareTxns, n)
  BY <1>2, <1>9, <1>10, ReversalApplies DEF t
<1>12. /\ Minus(t.moves) \in [Holders -> Int] /\ Minus(t.commits) \in [Holders -> Int]
       /\ t.class \in Classes
  BY <1>6, MinusIs DEF ShareTxn
<1>13. p \in Int
  BY <1>8
<1>14. pays \in [Holders -> Int] /\ \A h \in Holders : pays[h] = IF h = who THEN p ELSE 0
  <2> HIDE DEF p, who
  <2>1. /\ Nothing \in [Holders -> Int] /\ Only(who, p) \in [Holders -> Int]
        /\ \A h \in Holders : Nothing[h] = 0 /\ Only(who, p)[h] = IF h = who THEN p ELSE 0
    BY <1>13, OnlyIs
  <2> HIDE DEF Nothing, Only
  <2>2. CASE T = {}
    <3>1. back = 0
      BY <2>2, PaidOfNobody DEF back
    <3>2. p = 0
      <4>1. p = 0 - back
        BY <1>8 DEF p
      <4> QED
        BY <3>1, <4>1
    <3> QED
      BY <2>1, <2>2, <3>2
  <2>3. CASE T # {}
    BY <2>1, <2>3
  <2> QED
    BY <2>2, <2>3
<1>15. Rewrites(t.class, Minus(t.moves), Minus(t.commits), who, p)
  <2> HIDE DEF p, who, pays
  <2> QED
    BY <1>2, <1>5, <1>12, <1>13, <1>14, BookRewritten
<1> HIDE DEF p, who, pays
<1>16. HistoryHolds(us, holdings', day)
  <2>1. Covered(shareTxns, us[m])
    BY <1>11, <1>12, <1>15, MirrorCovered
  <2>2. Rewrites(us[m].class, us[m].moves, us[m].commits, who, p)
    BY <1>11, <1>15
  <2>3. us[m].effective <= day
    BY <1>11, DayNumber
  <2> QED
    BY <1>5, <1>11, <2>1, <2>2, <2>3, HistoryGrows
<1>17. /\ ds \in Seq(Contribution) /\ DOMAIN ds = DOMAIN contributions
       /\ \A j \in DOMAIN contributions :
             /\ ds[j].amount = contributions[j].amount /\ ds[j].txn = contributions[j].txn
             /\ ds[j].holder = contributions[j].holder /\ ds[j].entry = contributions[j].entry
             /\ ds[j].posted <=> contributions[j].posted /\ j \notin T
  <2>1. DOMAIN ds = DOMAIN contributions
    BY <1>3
  <2>2. \A j \in DOMAIN contributions :
             /\ ds[j] \in Contribution
             /\ ds[j].amount = contributions[j].amount /\ ds[j].txn = contributions[j].txn
             /\ ds[j].holder = contributions[j].holder /\ ds[j].entry = contributions[j].entry
             /\ ds[j].posted <=> contributions[j].posted /\ j \notin T
    <3> SUFFICES ASSUME NEW j \in DOMAIN contributions
                 PROVE  /\ ds[j] \in Contribution
                        /\ ds[j].amount = contributions[j].amount /\ ds[j].txn = contributions[j].txn
                        /\ ds[j].holder = contributions[j].holder /\ ds[j].entry = contributions[j].entry
                        /\ ds[j].posted <=> contributions[j].posted /\ j \notin T
      OBVIOUS
    <3>1. contributions[j] \in Contribution
      BY <1>5, OneOf
    <3>2. ds[j] = IF j \in T THEN [contributions[j] EXCEPT !.posted = FALSE] ELSE contributions[j]
      BY <1>3
    <3>3. LET x == [contributions[j] EXCEPT !.posted = FALSE]
          IN  /\ x \in Contribution /\ ~x.posted /\ x.amount = contributions[j].amount
              /\ x.txn = contributions[j].txn /\ x.holder = contributions[j].holder
              /\ x.entry = contributions[j].entry
      BY <1>5, ContributionEdited
    <3> QED
      BY <3>1, <3>2, <3>3
  <2>3. DOMAIN ds = 1..Len(contributions) /\ Len(contributions) \in Nat
    BY <1>5, <2>1, LenProperties
  <2>4. ds \in [1..Len(contributions) -> Contribution]
    BY <1>3, <2>1, <2>2, <2>3
  <2>5. ds \in Seq(Contribution)
    BY <2>3, <2>4
  <2> QED
    BY <2>1, <2>2, <2>5
<1>18. Unbooks({contributions[j].entry : j \in T} \ {0})
  <2>1. {contributions[j].entry : j \in T} \ {0} \subseteq EntryNumbers
    BY MoneyIn DEF T
  <2> QED
    BY <1>2, <2>1, AllUnbook
<1>19. CapitalKept
  <2>1. \A j \in DOMAIN contributions : /\ ds[j].entry = contributions[j].entry
                                        /\ ds[j].amount = contributions[j].amount
    BY <1>17
  <2>2. \A j \in DOMAIN contributions \ T : ds[j].posted <=> contributions[j].posted
    BY <1>17
  <2>3. \A j \in T : contributions[j].posted /\ ~ds[j].posted
    BY <1>7, <1>17
  <2> QED
    BY <1>7, <1>17, <1>18, <2>1, <2>2, <2>3, CapitalUndone DEF ds
<1>20. TakesBack(contributions, ds, T, k, who)
  <2>1. AmountsKept(contributions, ds)
    BY <1>17 DEF AmountsKept
  <2>2. \A j \in T : contributions[j].holder = who
    BY <1>5, <1>7 DEF ContributionFits, who, t
  <2>3. T \subseteq LiveFrom(contributions, k)
    BY DEF T
  <2> QED
    BY <1>17, <2>1, <2>2, <2>3 DEF TakesBack
<1>21. \A j \in DOMAIN ds : ContributionFits(us, ds[j])
  BY <1>11, <1>17 DEF ContributionFits
<1>22. contributions \in Seq(Contribution) /\ Refers(shareTxns, contributions)
  BY ContributionsRefer
<1>23. \A i \in DOMAIN us : PaidBefore(shareTxns, i) \in Nat
  BY PaidBeforeType
<1>24. \A i \in DOMAIN us :
          us[i].paid = PaidBefore(shareTxns, i) - (IF i = k THEN PaidOver(contributions, T) ELSE 0)
  <2> SUFFICES ASSUME NEW i \in DOMAIN us
               PROVE  us[i].paid = PaidBefore(shareTxns, i)
                                     - (IF i = k THEN PaidOver(contributions, T) ELSE 0)
    OBVIOUS
  <2>1. us[i].paid = (IF i = k THEN 0 ELSE PaidBefore(shareTxns, i))
        /\ PaidBefore(shareTxns, i) \in Nat
    BY <1>11, <1>23
  <2>2. PaidBefore(shareTxns, k) = PaidOver(contributions, T) /\ PaidOver(contributions, T) \in Nat
    BY <1>8 DEF PaidBefore, back, t
  <2> QED
    BY <2>1, <2>2
<1>25. PaidAddsUp(us, ds, holdings')
  <2> DEFINE moves == Minus(t.moves)
             commits == Minus(t.commits)
  <2>1. Rewrites(us[k].class, moves, commits, who, -PaidOver(contributions, T))
    BY <1>11, <1>15 DEF p, back
  <2> HIDE DEF moves, commits
  <2> QED
    BY <1>5, <1>11, <1>20, <1>22, <1>23, <1>24, <2>1, PaidLess
<1>26. SharesShape'
  <2>1. holdings' \in [Holders -> [Classes -> ShareHolding]]
    BY <1>15 DEF Rewrites
  <2> QED
    BY <1>2, <1>11, <1>17, <1>21, <2>1 DEF SharesInv, SharesShape, us, ds
<1>27. Settled(ledger', CapitalType, ContributionClaims(contributions'))
  BY <1>19 DEF CapitalKept
<1>28. SharesInv'
  BY <1>2, <1>16, <1>25, <1>26, <1>27 DEF SharesInv, us, ds
<1>29. RecordsKept
  <2>1. RecordDateOpen(us[m].effective)
    BY <1>2, <1>11
  <2> QED
    BY <1>11, <2>1, RecordsOpen DEF RecordDays, us
<1> QED
  BY <1>19, <1>28, <1>29 DEF SharesKept

-----------------------------------------------------------------------------
(* Shares: every step *)

LEMMA ShareRequestsKept ==
    ASSUME LedgerOK, SharesInv, RecordDays, SharesStep
    PROVE  SharesKept
<1>1. ASSUME NEW r \in PaymentIds, NEW c \in Classes, NEW n \in ShareCounts, NEW effective \in 1..day,
             NEW policy \in Policies, NEW h \in Holders, NEW pay \in PaidHow,
             IssueShares(r, h, c, n, effective, pay[1], pay[2], pay[3], policy)
      PROVE  SharesKept
  BY <1>1, IssueKept
<1>2. ASSUME NEW r \in PaymentIds, NEW c \in Classes, NEW n \in ShareCounts, NEW effective \in 1..day,
             NEW policy \in Policies, NEW from \in Holders, NEW to \in Holders,
             TransferShares(r, from, to, c, n, effective, policy)
      PROVE  SharesKept
  BY <1>2, TransferKept
<1>3. ASSUME NEW r \in PaymentIds, NEW k \in DOMAIN shareTxns, ReverseShareTransaction(r, k)
      PROVE  SharesKept
  BY <1>3, EntryUndone
<1>4. ASSUME NEW k \in DOMAIN shareTxns, NEW policy \in Policies, ApproveShareTransaction(k, policy)
      PROVE  SharesKept
  BY <1>4, ApprovalKept
<1>5. ASSUME NEW k \in DOMAIN shareTxns, RejectShareTransaction(k)
      PROVE  SharesKept
  BY <1>5, RejectionKept
<1> QED
  BY <1>1, <1>2, <1>3, <1>4, <1>5 DEF SharesStep

LEMMA CorrectionsKept ==
    ASSUME LedgerOK, SharesInv, RecordDays, CorrectionStep
    PROVE  SharesKept
<1>1. PICK r \in PaymentIds, c \in Classes, n \in ShareCounts, effective \in 1..day,
           policy \in Policies, h \in Holders, up \in BOOLEAN, commitment \in BOOLEAN :
         AdjustShares(r, h, c, IF up THEN n ELSE -n, commitment, effective, policy)
  BY DEF CorrectionStep
<1> DEFINE delta == IF up THEN n ELSE -n
<1>2. delta \in Int
  BY CountOfShares
<1>3. AdjustShares(r, h, c, delta, commitment, effective, policy)
  BY <1>1
<1> HIDE DEF delta
<1> QED
  BY <1>2, <1>3, AdjustKept

LEMMA CapitalStepKept ==
    ASSUME LedgerOK, SharesInv, ContributionStep
    PROVE  SharesKept
<1>1. CASE \E r \in PaymentIds, k \in DOMAIN shareTxns, pay \in PaidHow \ {<<"none", 0, None>>},
              policy \in Policies : RecordShareContribution(r, k, pay[2], pay[1], pay[3], policy)
  <2>1. PICK r \in PaymentIds, k \in DOMAIN shareTxns, pay \in PaidHow \ {<<"none", 0, None>>},
             policy \in Policies : RecordShareContribution(r, k, pay[2], pay[1], pay[3], policy)
    BY <1>1
  <2>2. pay[2] \in Amount /\ pay[3] \in AccountIds \cup {None}
    <3>1. CASE pay \in {"account"} \X Amounts \X PaidInto
      BY <3>1, BoundAssumption, SharesAssumption
    <3>2. CASE pay \in {"prior_record"} \X Amounts \X {None}
      BY <3>2, BoundAssumption
    <3> QED
      BY <3>1, <3>2 DEF PaidHow
  <2> QED
    BY <2>1, <2>2, ContributionKept
<1>2. CASE \E j \in DOMAIN contributions : ReverseShareContribution(j)
  BY <1>2, ContributionUndone
<1> QED
  BY <1>1, <1>2 DEF ContributionStep

\* The steps of shares alone leave the calendar, the dividends and the register alone.
LEMMA SharesAlone ==
    ASSUME SharesStep \/ CorrectionStep \/ ContributionStep
    PROVE  UNCHANGED <<day, shareholders, classes, dividends, allocations>>
<1>1. ASSUME NEW r, NEW t, NEW policy, Submit(r, t, policy)
      PROVE  UNCHANGED <<day, shareholders, classes, dividends, allocations>>
  BY <1>1 DEF Submit, dividendVars
<1>2. CASE SharesStep
  <2>1. ASSUME NEW r, NEW h, NEW c, NEW n, NEW e, NEW pay, NEW policy,
               IssueShares(r, h, c, n, e, pay[1], pay[2], pay[3], policy)
        PROVE  UNCHANGED <<day, shareholders, classes, dividends, allocations>>
    BY <1>1, <2>1 DEF IssueShares
  <2>2. ASSUME NEW r, NEW from, NEW to, NEW c, NEW n, NEW e, NEW policy,
               TransferShares(r, from, to, c, n, e, policy)
        PROVE  UNCHANGED <<day, shareholders, classes, dividends, allocations>>
    BY <1>1, <2>2 DEF TransferShares
  <2>3. ASSUME NEW r, NEW k, ReverseShareTransaction(r, k)
        PROVE  UNCHANGED <<day, shareholders, classes, dividends, allocations>>
    BY <2>3 DEF ReverseShareTransaction, dividendVars
  <2>4. ASSUME NEW k, NEW policy, ApproveShareTransaction(k, policy)
        PROVE  UNCHANGED <<day, shareholders, classes, dividends, allocations>>
    BY <2>4 DEF ApproveShareTransaction, dividendVars
  <2>5. ASSUME NEW k, RejectShareTransaction(k)
        PROVE  UNCHANGED <<day, shareholders, classes, dividends, allocations>>
    BY <2>5 DEF RejectShareTransaction, dividendVars, financeVars
  <2> QED
    BY <1>2, <2>1, <2>2, <2>3, <2>4, <2>5 DEF SharesStep
<1>3. CASE CorrectionStep
  <2>1. PICK r \in PaymentIds, c \in Classes, n \in ShareCounts, e \in 1..day,
             policy \in Policies, h \in Holders, up \in BOOLEAN, commitment \in BOOLEAN :
           AdjustShares(r, h, c, IF up THEN n ELSE -n, commitment, e, policy)
    BY <1>3 DEF CorrectionStep
  <2> QED
    BY <1>1, <2>1 DEF AdjustShares
<1>4. CASE ContributionStep
  <2>1. ASSUME NEW r, NEW k, NEW n, NEW s, NEW a, NEW policy,
               RecordShareContribution(r, k, n, s, a, policy)
        PROVE  UNCHANGED <<day, shareholders, classes, dividends, allocations>>
    BY <2>1 DEF RecordShareContribution, dividendVars
  <2>2. ASSUME NEW j, ReverseShareContribution(j)
        PROVE  UNCHANGED <<day, shareholders, classes, dividends, allocations>>
    BY <2>2 DEF ReverseShareContribution, dividendVars, ReverseEntry, financeVars
  <2> QED
    BY <1>4, <2>1, <2>2 DEF ContributionStep
<1> QED
  BY <1>2, <1>3, <1>4

\* A change of the register alone: no name is struck from it.
RegisterMoves ==
    /\ ledger' = ledger /\ day' = day
    /\ shareTxns' = shareTxns /\ holdings' = holdings
    /\ dividends' = dividends /\ allocations' = allocations
    /\ \A h \in Holders : shareholders'[h] = "none" => shareholders[h] = "none"

LEMMA RegisterStep ==
    ASSUME LedgerOK, SharesInv,
           \/ ClassStep
           \/ RegisterChange
           \/ \E h \in Holders : CreateShareholder(h)
    PROVE  SharesInv' /\ RegisterMoves
<1>1. /\ shareholders \in [Holders -> {"none", "active", "inactive", "suspended", "exited"}]
      /\ classes \in [Classes -> ShareClass]
  BY DEF SharesInv, SharesShape
<1>2. ASSUME NEW h \in Holders, CreateShareholder(h) PROVE SharesInv' /\ RegisterMoves
  <2>1. /\ shareholders' = [shareholders EXCEPT ![h] = "active"] /\ classes' = classes
        /\ UNCHANGED <<financeVars, shareTxns, holdings, contributions>>
        /\ UNCHANGED <<ledger, day, dividends, allocations>>
    BY <1>2 DEF CreateShareholder, dividendVars, financeVars
  <2>2. /\ shareholders' \in [Holders -> {"none", "active", "inactive", "suspended", "exited"}]
        /\ \A x \in Holders : shareholders'[x] = "none" => shareholders[x] = "none"
    BY <1>1, <2>1
  <2> QED
    BY <1>1, <2>1, <2>2, RegisterKept DEF RegisterMoves
<1>3. ASSUME NEW h \in Holders, NEW status \in {"active", "inactive", "suspended", "exited"},
             SetShareholderStatus(h, status)
      PROVE  SharesInv' /\ RegisterMoves
  <2>1. /\ shareholders' = [shareholders EXCEPT ![h] = status] /\ classes' = classes
        /\ UNCHANGED <<financeVars, shareTxns, holdings, contributions>>
        /\ UNCHANGED <<ledger, day, dividends, allocations>>
    BY <1>3 DEF SetShareholderStatus, dividendVars, financeVars
  <2>2. /\ shareholders' \in [Holders -> {"none", "active", "inactive", "suspended", "exited"}]
        /\ \A x \in Holders : shareholders'[x] = "none" => shareholders[x] = "none"
    BY <1>1, <2>1
  <2> QED
    BY <1>1, <2>1, <2>2, RegisterKept DEF RegisterMoves
<1>4. ASSUME NEW c \in Classes, NEW x \in ShareClass, classes' = [classes EXCEPT ![c] = x],
             UNCHANGED <<financeVars, shareholders, shareTxns, holdings, contributions, dividendVars>>
      PROVE  SharesInv' /\ RegisterMoves
  <2>1. classes' \in [Classes -> ShareClass]
    BY <1>1, <1>4
  <2>2. UNCHANGED <<ledger, day, dividends, allocations>>
    BY <1>4 DEF dividendVars, financeVars
  <2> QED
    BY <1>1, <1>4, <2>1, <2>2, RegisterKept DEF RegisterMoves
<1>5. ASSUME NEW c \in Classes, NEW value \in ShareValues, CreateShareClass(c, value)
      PROVE  SharesInv' /\ RegisterMoves
  <2> DEFINE x == [exists |-> TRUE, active |-> TRUE, value |-> value]
  <2>1. x \in ShareClass
    BY SharesAssumption DEF ShareClass, Amount
  <2>2. classes' = [classes EXCEPT ![c] = x]
    BY <1>5 DEF CreateShareClass
  <2>3. UNCHANGED <<financeVars, shareholders, shareTxns, holdings, contributions, dividendVars>>
    BY <1>5 DEF CreateShareClass
  <2> HIDE DEF x
  <2> QED
    BY <1>4, <2>1, <2>2, <2>3
<1>6. ASSUME NEW c \in Classes, NEW value \in ShareValues, NEW active \in BOOLEAN,
             UpdateShareClass(c, value, active)
      PROVE  SharesInv' /\ RegisterMoves
  <2> DEFINE x == [classes[c] EXCEPT !.value = value, !.active = active]
  <2>1. x \in ShareClass
    <3>1. classes[c] \in ShareClass
      BY <1>1
    <3> QED
      BY <3>1, SharesAssumption DEF ShareClass, Amount
  <2>2. classes' = [classes EXCEPT ![c] = x]
    BY <1>6 DEF UpdateShareClass
  <2>3. UNCHANGED <<financeVars, shareholders, shareTxns, holdings, contributions, dividendVars>>
    BY <1>6 DEF UpdateShareClass
  <2> HIDE DEF x
  <2> QED
    BY <1>4, <2>1, <2>2, <2>3
<1>7. CASE ClassStep
  BY <1>5, <1>7 DEF ClassStep
<1>8. CASE RegisterChange
  BY <1>3, <1>6, <1>8 DEF RegisterChange
<1> QED
  BY <1>2, <1>7, <1>8

-----------------------------------------------------------------------------
(* The split of a dividend *)

LEMMA CutIs ==
    ASSUME NEW a \in Nat, NEW b \in Nat, b > 0
    PROVE  /\ a \div b \in Nat
           /\ b * (a \div b) <= a
           /\ a < b * (a \div b) + b
OBVIOUS

LEMMA TimesNat == ASSUME NEW a \in Nat, NEW b \in Nat PROVE a * b \in Nat
OBVIOUS

LEMMA TimesMonotone ==
    ASSUME NEW e \in Nat, e > 0, NEW a \in Int, NEW b \in Int
    PROVE  /\ e * a <= e * b => a <= b
           /\ e * a < e * b => a < b
<1>1. ASSUME a > b PROVE e * a > e * b
  <2>1. a - b \in Nat /\ a - b > 0
    BY <1>1
  <2>2. e * (a - b) > 0
    BY <2>1
  <2>3. e * (a - b) = e * a - e * b
    OBVIOUS
  <2>4. e * a \in Int /\ e * b \in Int
    OBVIOUS
  <2> QED
    BY <2>2, <2>3, <2>4
<1>2. ASSUME a = b PROVE e * a = e * b
  BY <1>2
<1>3. e * a \in Int /\ e * b \in Int
  OBVIOUS
<1> QED
  BY <1>1, <1>2, <1>3

\* One for each.
LEMMA TotalCounts ==
    ASSUME NEW S, IsFiniteSet(S), NEW w, \A x \in S : w[x] = 1
    PROVE  Total(w, S) = Cardinality(S) /\ Cardinality(S) \in Nat
<1> DEFINE Good == {T \in SUBSET S : Total(w, T) = Cardinality(T)}
<1>1. Cardinality(S) \in Nat
  BY FS_CardinalityType
<1>2. {} \in Good
  BY TotalEmpty, FS_EmptySet
<1>3. Weighs(w, S)
  BY DEF Weighs
<1>4. ASSUME NEW T \in SUBSET S, NEW x \in S, T \in Good, x \notin T
      PROVE  T \cup {x} \in Good
  <2>1. Total(w, T \cup {x}) = Total(w, T) + w[x]
    BY <1>3, <1>4, WeighedAdds
  <2>2. IsFiniteSet(T)
    BY FS_Subset
  <2>3. Cardinality(T \cup {x}) = Cardinality(T) + 1
    BY <1>4, <2>2, FS_AddElement
  <2> QED
    BY <1>4, <2>1, <2>3
<1> HIDE DEF Good
<1>5. S \in Good
  BY <1>2, <1>4, FiniteInduction
<1> QED
  BY <1>1, <1>5 DEF Good

\* Cut n in the proportion of f over S: what is left is less than one for each.
Portions(q, f, S, n) == \A x \in S : q[x] = (n * f[x]) \div Total(f, S)

LEMMA PortionsFit ==
    ASSUME NEW S, IsFiniteSet(S), NEW f, \A x \in S : f[x] \in Nat, Total(f, S) > 0,
           NEW n \in Nat, NEW q, Portions(q, f, S, n)
    PROVE  /\ \A x \in S : q[x] \in Nat
           /\ Total(q, S) \in Nat
           /\ 0 <= n - Total(q, S)
           /\ n - Total(q, S) < Cardinality(S)
<1> DEFINE e == Total(f, S)
           one == [x \in S |-> 1]
           part == [x \in S |-> n * f[x]]
           cut == [x \in S |-> e * q[x]]
           next == [x \in S |-> q[x] + one[x]]
           up == [x \in S |-> e * next[x]]
<1>1. e \in Nat /\ e > 0
  BY TotalNat
<1>2. \A x \in S : n * f[x] \in Nat
  BY TimesNat
<1>3. \A x \in S : q[x] = (n * f[x]) \div e
  BY DEF Portions
<1> HIDE DEF e
<1>4. \A x \in S : q[x] \in Nat /\ e * q[x] <= n * f[x] /\ n * f[x] < e * q[x] + e
  <2> SUFFICES ASSUME NEW x \in S
               PROVE  q[x] \in Nat /\ e * q[x] <= n * f[x] /\ n * f[x] < e * q[x] + e
    OBVIOUS
  <2> DEFINE a == n * f[x]
  <2>1. a \in Nat /\ q[x] = a \div e
    BY <1>2, <1>3
  <2> HIDE DEF a
  <2>2. /\ a \div e \in Nat
        /\ e * (a \div e) <= a
        /\ a < e * (a \div e) + e
    BY <1>1, <2>1, CutIs
  <2>3. q[x] \in Nat /\ e * q[x] <= a /\ a < e * q[x] + e
    BY <2>1, <2>2
  <2> QED
    BY <2>3 DEF a
<1>5. Weighs(q, S) /\ Weighs(f, S) /\ Weighs(one, S)
  BY <1>4 DEF Weighs
<1>6. Total(q, S) \in Nat
  BY <1>4, TotalNat
<1>7. Weighs(part, S) /\ Total(part, S) = n * e
  <2>1. n \in Int /\ \A x \in S : part[x] = n * f[x]
    OBVIOUS
  <2> HIDE DEF part
  <2> QED
    BY <1>5, <2>1, TotalScaled DEF e
<1>8. Weighs(cut, S) /\ Total(cut, S) = e * Total(q, S)
  <2>1. e \in Int /\ \A x \in S : cut[x] = e * q[x]
    BY <1>1
  <2> HIDE DEF cut
  <2> QED
    BY <1>5, <2>1, TotalScaled
<1>9. Weighs(next, S) /\ Total(next, S) = Total(q, S) + Total(one, S)
  <2>1. \A x \in S : next[x] = q[x] + one[x]
    OBVIOUS
  <2> HIDE DEF next, one
  <2> QED
    BY <1>5, <2>1, TotalPlus
<1>10. Weighs(up, S) /\ Total(up, S) = e * Total(next, S)
  <2>1. e \in Int /\ \A x \in S : up[x] = e * next[x]
    BY <1>1
  <2> HIDE DEF up, next
  <2> QED
    BY <1>9, <2>1, TotalScaled
<1>11. Total(one, S) = Cardinality(S) /\ Cardinality(S) \in Nat
  <2>1. \A x \in S : one[x] = 1
    OBVIOUS
  <2> HIDE DEF one
  <2> QED
    BY <2>1, TotalCounts
<1>12. Total(cut, S) <= Total(part, S)
  <2>1. \A x \in S : cut[x] <= part[x]
    BY <1>4
  <2> HIDE DEF cut, part
  <2> QED
    BY <1>7, <1>8, <2>1, TotalMonotone
<1>13. Total(part, S) + Cardinality(S) <= Total(up, S)
  <2> DEFINE more == [x \in S |-> part[x] + one[x]]
  <2>1. \A x \in S : more[x] = part[x] + one[x]
    OBVIOUS
  <2>2. \A x \in S : more[x] <= up[x]
    <3> SUFFICES ASSUME NEW x \in S PROVE more[x] <= up[x]
      OBVIOUS
    <3>1. more[x] = n * f[x] + 1 /\ up[x] = e * (q[x] + 1)
      OBVIOUS
    <3>2. e * (q[x] + 1) = e * q[x] + e
      BY <1>1, <1>4
    <3>3. n * f[x] \in Int /\ e * q[x] \in Int /\ n * f[x] < e * q[x] + e
      BY <1>1, <1>2, <1>4
    <3> QED
      BY <1>1, <3>1, <3>2, <3>3
  <2> HIDE DEF more, part, one, up
  <2>3. Weighs(more, S) /\ Total(more, S) = Total(part, S) + Total(one, S)
    <3>1. Weighs(part, S) /\ Weighs(one, S)
      BY <1>5, <1>7
    <3> QED
      BY <2>1, <3>1, TotalPlus
  <2>4. Total(more, S) <= Total(up, S)
    BY <1>10, <2>2, <2>3, TotalMonotone
  <2> QED
    BY <1>11, <2>3, <2>4
<1> HIDE DEF part, cut, next, up, one
<1> DEFINE m == Total(q, S)
           c == Cardinality(S)
<1>14. e * m <= e * n
  <2>1. n * e = e * n
    BY <1>1
  <2> QED
    BY <1>7, <1>8, <1>12, <2>1
<1>15. S # {}
  <2>1. S = {} => e = 0
    BY TotalNat DEF e
  <2> QED
    BY <1>1, <2>1
<1>16. c > 0
  BY <1>11, <1>15, FS_EmptySet
<1>17. e * n < e * (m + c)
  <2>1. n * e = e * n /\ e * n \in Int /\ e * (m + c) \in Int
    BY <1>1, <1>6, <1>11
  <2>2. n * e + c <= e * (m + c)
    BY <1>7, <1>9, <1>10, <1>11, <1>13
  <2> HIDE DEF c, m
  <2>3. c \in Nat
    BY <1>11 DEF c
  <2> QED
    BY <1>16, <2>1, <2>2, <2>3
<1>18. m \in Int /\ m + c \in Int
  BY <1>6, <1>11
<1> HIDE DEF m, c
<1>19. m <= n /\ n < m + c
  BY <1>1, <1>14, <1>17, <1>18, TimesMonotone
<1> QED
  BY <1>4, <1>6, <1>11, <1>19 DEF m, c

-----------------------------------------------------------------------------
(* Dividends: the inductive invariant *)

DividendType == "dividend_payment"

\* Dividends and allocations by themselves: as are the allocations, ts the ownership ledger.
CurrentOf(as, k) == {j \in DOMAIN as : as[j].dividend = k /\ as[j].current}
PaidOf(as, k) == {j \in CurrentOf(as, k) : as[j].entry # 0}
OwedOf(as, k) == {j \in CurrentOf(as, k) : as[j].net > 0}
NetOver(as, S) == SumFunction([j \in S |-> as[j].net])

EligibleOn(ts, d, h) ==
    SumFunction([c \in IF d.class = None THEN Classes ELSE {d.class} |-> HeldOn(ts, h, c, d.record)])
RecipientsOn(ts, d) == {h \in Holders : EligibleOn(ts, d, h) > 0}

\* The entry every allocation answers for.
DividendClaims(as) == [j \in DOMAIN as |-> [txn |-> as[j].entry, n |-> as[j].net]]

CountsAre(d, as, k) ==
    /\ d.paidCount = Cardinality(PaidOf(as, k))
    /\ d.paid = NetOver(as, PaidOf(as, k))
    /\ d.status = "paid" <=> PaidOf(as, k) = OwedOf(as, k) /\ PaidOf(as, k) # {}
    /\ d.status \in {"partially_paid", "paid"} <=> PaidOf(as, k) # {}

PoolIs(d, as, k) ==
    d.calculated => /\ d.pool = d.unallocated + NetOver(as, CurrentOf(as, k))
                    /\ 0 <= d.unallocated /\ d.unallocated < Cardinality(CurrentOf(as, k))

\* The record date of a dividend that stands is locked, so what it says cannot drift.
SnapshotIs(ts, d, as, k) ==
    d.calculated /\ d.status # "cancelled" =>
        /\ d.recordLocked
        /\ {as[j].holder : j \in CurrentOf(as, k)} = RecipientsOn(ts, d)
        /\ \A j \in CurrentOf(as, k) : as[j].shares = EligibleOn(ts, d, as[j].holder)

DividendsShape ==
    /\ dividends \in Seq(Dividend) /\ Len(dividends) <= MaxDividends
    /\ allocations \in Seq(Allocation)
    /\ \A j \in DOMAIN allocations :
          /\ allocations[j].dividend \in DOMAIN dividends
          /\ allocations[j].entry # 0 => allocations[j].current /\ allocations[j].net > 0

DividendsInv ==
    /\ DividendsShape
    /\ \A k \in DOMAIN dividends :
          /\ CountsAre(dividends[k], allocations, k)
          /\ PoolIs(dividends[k], allocations, k)
          /\ SnapshotIs(shareTxns, dividends[k], allocations, k)
    /\ Settled(ledger, DividendType, DividendClaims(allocations))

LEMMA EligibleIs ==
    ASSUME NEW d, NEW h
    PROVE  EligibleHeld(d, h) = EligibleOn(shareTxns, d, h)
<1>1. \A c : Held(h, c, d.record) = HeldOn(shareTxns, h, c, d.record)
  BY HeldIs
<1> QED
  BY <1>1 DEF EligibleHeld, EligibleOn

LEMMA RecipientsAre == ASSUME NEW d PROVE Recipients(d) = RecipientsOn(shareTxns, d)
BY EligibleIs DEF Recipients, RecipientsOn

LEMMA DividendsSay ==
    DividendsInv => DividendsTypeOK /\ DividendsMatchLedger /\ SnapshotHolds /\ RecordDays
<1> SUFFICES ASSUME DividendsInv
             PROVE  DividendsTypeOK /\ DividendsMatchLedger /\ SnapshotHolds /\ RecordDays
  OBVIOUS
<1>1. dividends \in Seq(Dividend) /\ allocations \in Seq(Allocation)
  BY DEF DividendsInv, DividendsShape
<1>2. DividendsTypeOK
  <2>1. \A k \in DOMAIN dividends : dividends[k] \in Dividend
    BY <1>1, OneOf
  <2>2. \A j \in DOMAIN allocations : allocations[j] \in Allocation
    BY <1>1, OneOf
  <2> QED
    BY <2>1, <2>2 DEF DividendsTypeOK
<1>3. /\ \A k : Current(k) = CurrentOf(allocations, k)
      /\ \A k : PaysOut(k) = OwedOf(allocations, k)
      /\ \A S : NetOfAll(S) = NetOver(allocations, S)
  BY DEF Current, CurrentOf, PaysOut, OwedOf, NetOfAll, NetOver
<1>4. ASSUME NEW j \in DOMAIN allocations
      PROVE  IF allocations[j].entry # 0
             THEN /\ PaidBy(allocations[j].entry, DividendType, j, allocations[j].net)
                  /\ allocations[j].current
                  /\ dividends[allocations[j].dividend].status \in {"partially_paid", "paid"}
             ELSE LiveFor(DividendType, j) = {}
  <2> DEFINE c == DividendClaims(allocations)
             k == allocations[j].dividend
  <2>1. IF c[j].txn # 0 THEN LiveIn(ledger, DividendType, j) = {c[j].txn}
                             /\ ledger[c[j].txn].amount = c[j].n
        ELSE LiveIn(ledger, DividendType, j) = {}
    BY DEF DividendsInv, Settled, DividendClaims
  <2>2. c[j].txn = allocations[j].entry /\ c[j].n = allocations[j].net
    BY DEF DividendClaims
  <2>3. LiveIn(ledger, DividendType, j) = LiveFor(DividendType, j)
    BY DEF LiveIn, LiveFor, EntryNumbers
  <2>4. ASSUME allocations[j].entry # 0
        PROVE  allocations[j].current /\ dividends[k].status \in {"partially_paid", "paid"}
    <3>1. allocations[j].current /\ k \in DOMAIN dividends
      BY <2>4 DEF DividendsInv, DividendsShape
    <3>2. j \in PaidOf(allocations, k)
      BY <2>4, <3>1 DEF PaidOf, CurrentOf
    <3>3. CountsAre(dividends[k], allocations, k)
      BY <3>1 DEF DividendsInv
    <3> QED
      BY <3>1, <3>2, <3>3 DEF CountsAre
  <2> HIDE DEF c
  <2> QED
    BY <2>1, <2>2, <2>3, <2>4 DEF PaidBy
<1>5. ASSUME NEW k \in DOMAIN dividends
      PROVE  LET d == dividends[k]
                 paid == {j \in Current(k) : allocations[j].entry # 0}
             IN  /\ d.paidCount = Cardinality(paid)
                 /\ d.paid = NetOfAll(paid)
                 /\ d.status = "paid" <=> paid = PaysOut(k) /\ paid # {}
                 /\ d.calculated =>
                       /\ d.pool = d.unallocated + NetOfAll(Current(k))
                       /\ 0 <= d.unallocated /\ d.unallocated < Cardinality(Current(k))
  <2>1. {j \in Current(k) : allocations[j].entry # 0} = PaidOf(allocations, k)
    BY <1>3 DEF PaidOf
  <2>2. CountsAre(dividends[k], allocations, k) /\ PoolIs(dividends[k], allocations, k)
    BY DEF DividendsInv
  <2> QED
    BY <1>3, <2>1, <2>2 DEF CountsAre, PoolIs
<1>6. DividendsMatchLedger
  BY <1>4, <1>5 DEF DividendsMatchLedger, DividendType
<1>7. SnapshotHolds
  <2> SUFFICES ASSUME NEW k \in DOMAIN dividends,
                      dividends[k].calculated, dividends[k].status # "cancelled"
               PROVE  /\ {allocations[j].holder : j \in Current(k)} = Recipients(dividends[k])
                      /\ \A j \in Current(k) :
                            allocations[j].shares = EligibleHeld(dividends[k], allocations[j].holder)
    BY DEF SnapshotHolds
  <2>1. SnapshotIs(shareTxns, dividends[k], allocations, k)
    BY DEF DividendsInv
  <2>2. /\ Recipients(dividends[k]) = RecipientsOn(shareTxns, dividends[k])
        /\ \A h : EligibleHeld(dividends[k], h) = EligibleOn(shareTxns, dividends[k], h)
    BY RecipientsAre, EligibleIs
  <2> QED
    BY <1>3, <2>1, <2>2 DEF SnapshotIs
<1>8. RecordDays
  BY <1>2 DEF DividendsTypeOK, RecordDays, Dividend
<1> QED
  BY <1>2, <1>6, <1>7, <1>8

LEMMA DividendsStart == FinanceInit /\ DividendsInit => DividendsInv
<1> SUFFICES ASSUME FinanceInit, DividendsInit PROVE DividendsInv
  OBVIOUS
<1>1. ledger = << >> /\ dividends = << >> /\ allocations = << >>
  BY DEF FinanceInit, DividendsInit
<1>2. DividendsShape
  <2>1. Len(dividends) = 0 /\ MaxDividends \in Nat
    BY <1>1, DividendAssumption
  <2> QED
    BY <1>1, <2>1 DEF DividendsShape
<1>3. Settled(ledger, DividendType, DividendClaims(allocations))
  BY <1>1 DEF Settled, DividendClaims
<1> QED
  BY <1>1, <1>2, <1>3 DEF DividendsInv

\* What was held on locked record dates is what the snapshots need.
LEMMA SnapshotStays ==
    ASSUME RecordsKept, NEW k \in DOMAIN dividends, dividends[k].class \in Classes \cup {None},
           NEW as, SnapshotIs(shareTxns, dividends[k], as, k)
    PROVE  SnapshotIs(shareTxns', dividends[k], as, k)
<1> DEFINE d == dividends[k]
<1> SUFFICES ASSUME d.calculated, d.status # "cancelled"
             PROVE  /\ d.recordLocked
                    /\ {as[j].holder : j \in CurrentOf(as, k)} = RecipientsOn(shareTxns', d)
                    /\ \A j \in CurrentOf(as, k) : as[j].shares = EligibleOn(shareTxns', d, as[j].holder)
  BY DEF SnapshotIs
<1>1. /\ d.recordLocked
      /\ {as[j].holder : j \in CurrentOf(as, k)} = RecipientsOn(shareTxns, d)
      /\ \A j \in CurrentOf(as, k) : as[j].shares = EligibleOn(shareTxns, d, as[j].holder)
  BY DEF SnapshotIs
<1>2. \A h \in Holders, c \in Classes : HeldOn(shareTxns', h, c, d.record) = HeldOn(shareTxns, h, c, d.record)
  BY <1>1 DEF RecordsKept
<1>3. ASSUME NEW h \in Holders PROVE EligibleOn(shareTxns', d, h) = EligibleOn(shareTxns, d, h)
  <2> DEFINE C == IF d.class = None THEN Classes ELSE {d.class}
             f == [c \in C |-> HeldOn(shareTxns', h, c, d.record)]
             g == [c \in C |-> HeldOn(shareTxns, h, c, d.record)]
  <2>1. C \subseteq Classes
    OBVIOUS
  <2> HIDE DEF C
  <2>2. f = g
    BY <1>2, <2>1
  <2> QED
    BY <2>2 DEF EligibleOn, C
<1> HIDE DEF d
<1>4. RecipientsOn(shareTxns', d) = RecipientsOn(shareTxns, d)
  BY <1>3 DEF RecipientsOn
<1>5. \A j \in CurrentOf(as, k) : as[j].holder \in Holders
  BY <1>1 DEF RecipientsOn
<1> QED
  BY <1>1, <1>3, <1>4, <1>5

\* Steps of others, and of the shares beside them.
LEMMA DividendsUndisturbed ==
    ASSUME LedgerOK, DividendsInv, RecordsKept, UNCHANGED <<dividends, allocations>>,
           Spares(DividendType)
    PROVE  DividendsInv'
<1> DEFINE c == DividendClaims(allocations)
<1>1. dividends' = dividends /\ allocations' = allocations
  OBVIOUS
<1>2. /\ DividendsShape /\ Settled(ledger, DividendType, c)
      /\ \A k \in DOMAIN dividends : /\ CountsAre(dividends[k], allocations, k)
                                     /\ PoolIs(dividends[k], allocations, k)
                                     /\ SnapshotIs(shareTxns, dividends[k], allocations, k)
  BY DEF DividendsInv
<1>3. DividendsShape'
  BY <1>1, <1>2 DEF DividendsShape
<1>4. \A k \in DOMAIN dividends : SnapshotIs(shareTxns', dividends[k], allocations, k)
  <2> SUFFICES ASSUME NEW k \in DOMAIN dividends
               PROVE  SnapshotIs(shareTxns', dividends[k], allocations, k)
    OBVIOUS
  <2>1. dividends[k] \in Dividend
    BY <1>2, OneOf DEF DividendsShape
  <2>2. dividends[k].class \in Classes \cup {None}
    BY <2>1 DEF Dividend
  <2> QED
    BY <1>2, <2>2, SnapshotStays
<1>5. Settled(ledger', DividendType, c)
  <2>1. SameClaims(c, c)
    BY DEF SameClaims
  <2> HIDE DEF c
  <2> QED
    BY <1>2, <2>1, SettledSpared
<1>6. c' = c
  BY <1>1 DEF DividendClaims
<1> QED
  BY <1>1, <1>2, <1>3, <1>4, <1>5, <1>6 DEF DividendsInv

\* Nothing of dividend i changes.
AllocationsKept(as, bs, i) ==
    /\ CurrentOf(bs, i) = CurrentOf(as, i)
    /\ \A j \in CurrentOf(as, i) : bs[j] = as[j]

LEMMA NetSame ==
    ASSUME NEW as, NEW bs, NEW S, \A j \in S : bs[j].net = as[j].net
    PROVE  NetOver(bs, S) = NetOver(as, S)
<1>1. [j \in S |-> bs[j].net] = [j \in S |-> as[j].net]
  OBVIOUS
<1> QED
  BY <1>1 DEF NetOver

LEMMA SameDividend ==
    ASSUME NEW ts, NEW d, NEW as, NEW bs, NEW i, AllocationsKept(as, bs, i),
           CountsAre(d, as, i), PoolIs(d, as, i), SnapshotIs(ts, d, as, i)
    PROVE  CountsAre(d, bs, i) /\ PoolIs(d, bs, i) /\ SnapshotIs(ts, d, bs, i)
<1>1. CurrentOf(bs, i) = CurrentOf(as, i) /\ \A j \in CurrentOf(as, i) : bs[j] = as[j]
  BY DEF AllocationsKept
<1>2. PaidOf(bs, i) = PaidOf(as, i) /\ OwedOf(bs, i) = OwedOf(as, i)
  BY <1>1 DEF PaidOf, OwedOf
<1>3. NetOver(bs, CurrentOf(as, i)) = NetOver(as, CurrentOf(as, i))
  BY <1>1, NetSame
<1>4. NetOver(bs, PaidOf(as, i)) = NetOver(as, PaidOf(as, i))
  <2>1. \A j \in PaidOf(as, i) : bs[j].net = as[j].net
    BY <1>1 DEF PaidOf
  <2> QED
    BY <2>1, NetSame
<1>5. CountsAre(d, bs, i)
  BY <1>2, <1>4 DEF CountsAre
<1>6. PoolIs(d, bs, i)
  BY <1>1, <1>3 DEF PoolIs
<1>7. SnapshotIs(ts, d, bs, i)
  BY <1>1 DEF SnapshotIs
<1> QED
  BY <1>5, <1>6, <1>7

\* A step that concerns dividend k alone.
OnlyDividend(k) ==
    /\ shareTxns' = shareTxns
    /\ DOMAIN dividends' = DOMAIN dividends \cup {k}
    /\ \A i \in DOMAIN dividends : i # k =>
          dividends'[i] = dividends[i] /\ AllocationsKept(allocations, allocations', i)

LEMMA DividendChanged ==
    ASSUME DividendsInv, NEW k, OnlyDividend(k), DividendsShape',
           CountsAre(dividends'[k], allocations', k), PoolIs(dividends'[k], allocations', k),
           SnapshotIs(shareTxns, dividends'[k], allocations', k),
           Settled(ledger', DividendType, DividendClaims(allocations'))
    PROVE  DividendsInv'
<1>1. /\ shareTxns' = shareTxns /\ DOMAIN dividends' = DOMAIN dividends \cup {k}
      /\ \A i \in DOMAIN dividends : i # k =>
            dividends'[i] = dividends[i] /\ AllocationsKept(allocations, allocations', i)
  BY DEF OnlyDividend
<1>2. ASSUME NEW i \in DOMAIN dividends'
      PROVE  /\ CountsAre(dividends'[i], allocations', i)
             /\ PoolIs(dividends'[i], allocations', i)
             /\ SnapshotIs(shareTxns, dividends'[i], allocations', i)
  <2>1. CASE i = k
    BY <2>1
  <2>2. CASE i # k
    <3>1. i \in DOMAIN dividends /\ dividends'[i] = dividends[i]
          /\ AllocationsKept(allocations, allocations', i)
      BY <1>1, <2>2
    <3>2. /\ CountsAre(dividends[i], allocations, i) /\ PoolIs(dividends[i], allocations, i)
          /\ SnapshotIs(shareTxns, dividends[i], allocations, i)
      BY <3>1 DEF DividendsInv
    <3> QED
      BY <3>1, <3>2, SameDividend
  <2> QED
    BY <2>1, <2>2
<1> QED
  BY <1>1, <1>2 DEF DividendsInv

\* A draft pays nobody.
LEMMA NothingCurrent ==
    ASSUME NEW as, NEW k, CurrentOf(as, k) = {}
    PROVE  PaidOf(as, k) = {} /\ OwedOf(as, k) = {} /\ NetOver(as, PaidOf(as, k)) = 0
<1>1. PaidOf(as, k) = {} /\ OwedOf(as, k) = {}
  BY DEF PaidOf, OwedOf
<1>2. NetOver(as, {}) = 0
  BY SumOfNone DEF NetOver
<1> QED
  BY <1>1, <1>2

LEMMA DraftIs ==
    ASSUME NEW c \in DividendsOf, NEW method \in {"pool", "per_share"}, NEW n \in DividendAmounts,
           NEW record \in Days, NEW as, NEW k, CurrentOf(as, k) = {}, NEW ts
    PROVE  LET d == Draft(c, method, n, record)
           IN  d \in Dividend /\ CountsAre(d, as, k) /\ PoolIs(d, as, k) /\ SnapshotIs(ts, d, as, k)
<1> DEFINE d == Draft(c, method, n, record)
<1>1. c \in Classes \cup {None} /\ n \in Amount
  BY DividendAssumption
<1>2. d \in Dividend
  BY <1>1 DEF Draft, Dividend, DividendStatuses
<1>3. d.paidCount = 0 /\ d.paid = 0 /\ d.status = "draft" /\ d.calculated = FALSE
  BY DEF Draft
<1>4. Cardinality({}) = 0
  BY FS_EmptySet
<1> HIDE DEF d
<1>5. CountsAre(d, as, k)
  BY <1>3, <1>4, NothingCurrent DEF CountsAre
<1>6. PoolIs(d, as, k) /\ SnapshotIs(ts, d, as, k)
  BY <1>3 DEF PoolIs, SnapshotIs
<1> QED
  BY <1>2, <1>5, <1>6 DEF d

\* What a dividend is before it is paid.
LEMMA UnpaidIs ==
    ASSUME DividendsInv, NEW k \in DOMAIN dividends,
           dividends[k].status \notin {"partially_paid", "paid"}
    PROVE  PaidOf(allocations, k) = {}
BY DEF DividendsInv, CountsAre

-----------------------------------------------------------------------------
(* Dividends up to approval *)

\* No money moves: allocations may be added, none paid.
LEMMA NoDividendMoney ==
    ASSUME LedgerOK, DividendsInv, UNCHANGED financeVars, NEW bs, bs = allocations',
           DOMAIN allocations \subseteq DOMAIN bs,
           \A j \in DOMAIN allocations : bs[j].entry = allocations[j].entry /\ bs[j].net = allocations[j].net,
           \A j \in DOMAIN bs \ DOMAIN allocations : bs[j].entry = 0
    PROVE  Settled(ledger', DividendType, DividendClaims(bs))
<1> DEFINE c == DividendClaims(allocations)
           e == DividendClaims(bs)
<1>1. Settled(ledger, DividendType, c)
  BY DEF DividendsInv
<1>2. /\ DOMAIN c \subseteq DOMAIN e
      /\ \A d \in DOMAIN c : e[d].txn = c[d].txn /\ e[d].n = c[d].n
      /\ \A d \in DOMAIN e \ DOMAIN c : e[d].txn = 0
  BY DEF DividendClaims
<1>3. Spares(DividendType)
  BY FinanceUnchanged
<1> HIDE DEF c, e
<1>4. Settled(ledger', DividendType, e)
  BY <1>1, <1>2, <1>3, SettledGrows
<1> QED
  BY <1>4 DEF e

LEMMA NothingMoves ==
    ASSUME NotDividends
    PROVE  /\ UNCHANGED financeVars /\ UNCHANGED shareVars /\ shareTxns' = shareTxns
           /\ ledger' = ledger /\ day' = day /\ shareholders' = shareholders
BY DEF NotDividends, shareVars, financeVars

LEMMA DividendCreated ==
    ASSUME LedgerOK, DividendsInv, NEW c \in DividendsOf, NEW method \in {"pool", "per_share"},
           NEW n \in DividendAmounts, NEW record \in Days, CreateDividend(c, method, n, record)
    PROVE  DividendsInv'
<1> DEFINE d == Draft(c, method, n, record)
           k == Len(dividends) + 1
<1>1. /\ Len(dividends) < MaxDividends /\ dividends' = Append(dividends, d)
      /\ allocations' = allocations /\ NotDividends
  BY DEF CreateDividend
<1>2. DividendsShape
  BY DEF DividendsInv
<1>3. dividends \in Seq(Dividend) /\ Len(dividends) \in Nat /\ DOMAIN dividends = 1..Len(dividends)
  BY <1>2, LenProperties DEF DividendsShape
<1>4. k \notin DOMAIN dividends
  BY <1>3
<1>5. CurrentOf(allocations, k) = {}
  BY <1>2, <1>4 DEF CurrentOf, DividendsShape
<1>6. /\ d \in Dividend /\ CountsAre(d, allocations, k) /\ PoolIs(d, allocations, k)
      /\ SnapshotIs(shareTxns, d, allocations, k)
  BY <1>5, DraftIs
<1> HIDE DEF d
<1>7. /\ dividends' \in Seq(Dividend) /\ DOMAIN dividends' = DOMAIN dividends \cup {k}
      /\ dividends'[k] = d /\ \A i \in DOMAIN dividends : dividends'[i] = dividends[i]
  BY <1>1, <1>3, <1>6, OneAdded
<1>8. Len(dividends') <= MaxDividends
  <2>1. Len(dividends') = Len(dividends) + 1
    BY <1>1, <1>3
  <2> QED
    BY <1>1, <1>3, <2>1, DividendAssumption
<1> HIDE DEF k
<1>9. DividendsShape'
  BY <1>1, <1>2, <1>7, <1>8 DEF DividendsShape
<1>10. OnlyDividend(k)
  BY <1>1, <1>7, NothingMoves DEF OnlyDividend, AllocationsKept
<1>11. Settled(ledger', DividendType, DividendClaims(allocations'))
  BY <1>1, NoDividendMoney, NothingMoves
<1> QED
  BY <1>1, <1>6, <1>7, <1>9, <1>10, <1>11, DividendChanged

\* The allocations of dividend k are superseded.
LEMMA SupersededIs ==
    ASSUME DividendsInv, NEW k \in DOMAIN dividends, PaidOf(allocations, k) = {}
    PROVE  LET bs == Superseded(k)
           IN  /\ bs \in Seq(Allocation) /\ DOMAIN bs = DOMAIN allocations
               /\ Len(bs) = Len(allocations)
               /\ \A j \in DOMAIN allocations :
                     /\ bs[j].dividend = allocations[j].dividend
                     /\ bs[j].entry = allocations[j].entry /\ bs[j].net = allocations[j].net
                     /\ bs[j].entry # 0 => bs[j].current /\ bs[j].net > 0
               /\ CurrentOf(bs, k) = {}
               /\ \A i : i # k => AllocationsKept(allocations, bs, i)
<1> DEFINE bs == Superseded(k)
<1>1. /\ allocations \in Seq(Allocation)
      /\ \A j \in DOMAIN allocations :
            /\ allocations[j].dividend \in DOMAIN dividends
            /\ allocations[j].entry # 0 => allocations[j].current /\ allocations[j].net > 0
  BY DEF DividendsInv, DividendsShape
<1>2. Current(k) = CurrentOf(allocations, k)
  BY DEF Current, CurrentOf
<1>3. bs = [j \in DOMAIN allocations |->
               IF j \in CurrentOf(allocations, k) THEN [allocations[j] EXCEPT !.current = FALSE]
               ELSE allocations[j]]
  BY <1>2 DEF Superseded
<1>4. DOMAIN bs = DOMAIN allocations
  BY <1>3
<1>5. ASSUME NEW j \in DOMAIN allocations
      PROVE  /\ bs[j] \in Allocation
             /\ bs[j].dividend = allocations[j].dividend
             /\ bs[j].entry = allocations[j].entry /\ bs[j].net = allocations[j].net
             /\ bs[j].current <=> allocations[j].current /\ j \notin CurrentOf(allocations, k)
             /\ j \notin CurrentOf(allocations, k) => bs[j] = allocations[j]
  <2>1. allocations[j] \in Allocation
    BY <1>1, OneOf
  <2>2. bs[j] = IF j \in CurrentOf(allocations, k) THEN [allocations[j] EXCEPT !.current = FALSE]
                ELSE allocations[j]
    BY <1>3
  <2> HIDE DEF bs
  <2> QED
    BY <2>1, <2>2 DEF Allocation
<1>6. Len(allocations) \in Nat /\ DOMAIN allocations = 1..Len(allocations)
  BY <1>1, LenProperties
<1> HIDE DEF bs
<1>7. bs \in [1..Len(allocations) -> Allocation]
  BY <1>3, <1>4, <1>5, <1>6
<1>8. bs \in Seq(Allocation) /\ Len(bs) = Len(allocations)
  BY <1>6, <1>7
<1>9. \A j \in DOMAIN allocations : allocations[j].entry # 0 => j \notin CurrentOf(allocations, k)
  BY DEF PaidOf
<1>10. CurrentOf(bs, k) = {}
  BY <1>4, <1>5 DEF CurrentOf
<1>11. ASSUME NEW i, i # k PROVE AllocationsKept(allocations, bs, i)
  <2>1. CurrentOf(bs, i) = CurrentOf(allocations, i)
    BY <1>4, <1>5, <1>11 DEF CurrentOf
  <2>2. \A j \in CurrentOf(allocations, i) : bs[j] = allocations[j]
    BY <1>5, <1>11 DEF CurrentOf
  <2> QED
    BY <2>1, <2>2 DEF AllocationsKept
<1>12. \A j \in DOMAIN allocations : bs[j].entry # 0 => bs[j].current /\ bs[j].net > 0
  BY <1>1, <1>5, <1>9
<1> QED
  BY <1>4, <1>5, <1>8, <1>10, <1>11, <1>12 DEF bs

LEMMA DividendAmended ==
    ASSUME LedgerOK, DividendsInv, NEW k \in DOMAIN dividends, NEW c \in DividendsOf,
           NEW method \in {"pool", "per_share"}, NEW n \in DividendAmounts, NEW record \in Days,
           UpdateDividend(k, c, method, n, record)
    PROVE  DividendsInv'
<1> DEFINE d == Draft(c, method, n, record)
           bs == Superseded(k)
<1>1. /\ dividends[k].status = "draft" /\ dividends' = [dividends EXCEPT ![k] = d]
      /\ allocations' = bs /\ NotDividends
  BY DEF UpdateDividend
<1>2. DividendsShape /\ dividends \in Seq(Dividend) /\ Len(dividends) <= MaxDividends
  BY DEF DividendsInv, DividendsShape
<1>3. PaidOf(allocations, k) = {}
  BY <1>1, UnpaidIs
<1>4. /\ bs \in Seq(Allocation) /\ DOMAIN bs = DOMAIN allocations
      /\ \A j \in DOMAIN allocations :
            /\ bs[j].dividend = allocations[j].dividend
            /\ bs[j].entry = allocations[j].entry /\ bs[j].net = allocations[j].net
            /\ bs[j].entry # 0 => bs[j].current /\ bs[j].net > 0
      /\ CurrentOf(bs, k) = {}
      /\ \A i : i # k => AllocationsKept(allocations, bs, i)
  BY <1>3, SupersededIs
<1> HIDE DEF bs
<1>5. d \in Dividend /\ CountsAre(d, bs, k) /\ PoolIs(d, bs, k) /\ SnapshotIs(shareTxns, d, bs, k)
  BY <1>4, DraftIs
<1> HIDE DEF d
<1>6. /\ dividends' \in Seq(Dividend) /\ DOMAIN dividends' = DOMAIN dividends
      /\ dividends'[k] = d /\ \A i \in DOMAIN dividends : i # k => dividends'[i] = dividends[i]
  BY <1>1, <1>2, <1>5, OneEdited
<1>7. Len(dividends') = Len(dividends)
  BY <1>2, <1>6, LenProperties
<1>8. DividendsShape'
  BY <1>1, <1>2, <1>4, <1>6, <1>7 DEF DividendsShape
<1>9. OnlyDividend(k)
  BY <1>1, <1>4, <1>6, NothingMoves DEF OnlyDividend
<1>10. Settled(ledger', DividendType, DividendClaims(bs))
  BY <1>1, <1>4, NoDividendMoney, NothingMoves
<1> QED
  BY <1>1, <1>5, <1>6, <1>8, <1>9, <1>10, DividendChanged

\* Another status, while nothing is paid.
LEMMA StatusMoves ==
    ASSUME LedgerOK, DividendsInv, NEW k \in DOMAIN dividends,
           dividends[k].status \notin {"partially_paid", "paid"},
           NEW s \in DividendStatuses, s \notin {"partially_paid", "paid"}, NEW l \in BOOLEAN,
           s = "cancelled" \/ (l = dividends[k].recordLocked /\ dividends[k].status # "cancelled"),
           NEW d, d = [dividends[k] EXCEPT !.status = s, !.recordLocked = l],
           dividends' = [dividends EXCEPT ![k] = d], allocations' = allocations, NotDividends
    PROVE  DividendsInv'
<1> DEFINE b == dividends[k]
<1>1. DividendsShape /\ dividends \in Seq(Dividend) /\ Len(dividends) <= MaxDividends
  BY DEF DividendsInv, DividendsShape
<1>2. b \in Dividend
  BY <1>1, OneOf
<1>3. /\ CountsAre(b, allocations, k) /\ PoolIs(b, allocations, k)
      /\ SnapshotIs(shareTxns, b, allocations, k)
  BY DEF DividendsInv
<1>4. PaidOf(allocations, k) = {}
  BY UnpaidIs
<1>5. /\ d \in Dividend /\ d.status = s /\ d.recordLocked = l /\ d.paidCount = b.paidCount
      /\ d.paid = b.paid /\ d.calculated = b.calculated /\ d.pool = b.pool
      /\ d.unallocated = b.unallocated /\ d.class = b.class /\ d.record = b.record
  BY <1>2 DEF Dividend
<1>6. /\ dividends' \in Seq(Dividend) /\ DOMAIN dividends' = DOMAIN dividends
      /\ dividends'[k] = d /\ \A i \in DOMAIN dividends : i # k => dividends'[i] = dividends[i]
  BY <1>1, <1>5, OneEdited
<1>7. CountsAre(d, allocations, k)
  BY <1>3, <1>4, <1>5 DEF CountsAre
<1>8. PoolIs(d, allocations, k)
  BY <1>3, <1>5 DEF PoolIs
<1>9. SnapshotIs(shareTxns, d, allocations, k)
  <2>1. CASE s = "cancelled"
    BY <1>5, <2>1 DEF SnapshotIs
  <2>2. CASE l = b.recordLocked /\ b.status # "cancelled"
    <3>1. \A h : EligibleOn(shareTxns, d, h) = EligibleOn(shareTxns, b, h)
      BY <1>5 DEF EligibleOn
    <3>2. RecipientsOn(shareTxns, d) = RecipientsOn(shareTxns, b)
      BY <3>1 DEF RecipientsOn
    <3> QED
      BY <1>3, <1>5, <2>2, <3>1, <3>2 DEF SnapshotIs
  <2> QED
    BY <2>1, <2>2
<1> HIDE DEF b
<1>10. Len(dividends') = Len(dividends)
  BY <1>1, <1>6, LenProperties
<1>11. DividendsShape'
  BY <1>1, <1>6, <1>10 DEF DividendsShape
<1>12. OnlyDividend(k)
  BY <1>6, NothingMoves DEF OnlyDividend, AllocationsKept
<1>13. Settled(ledger', DividendType, DividendClaims(allocations'))
  BY NoDividendMoney, NothingMoves
<1> QED
  BY <1>6, <1>7, <1>8, <1>9, <1>11, <1>12, <1>13, DividendChanged

LEMMA DividendStatusKept ==
    ASSUME LedgerOK, DividendsInv, NEW k \in DOMAIN dividends, NEW action,
           UpdateDividendStatus(k, action)
    PROVE  DividendsInv'
<1> DEFINE b == dividends[k]
           l == b.recordLocked
<1>1. allocations' = allocations /\ NotDividends
  BY DEF UpdateDividendStatus
<1>2. PICK s \in {"declared", "draft", "approved"} :
         /\ dividends' = [dividends EXCEPT ![k].status = s]
         /\ b.status \in {"draft", "declared"}
  BY DEF UpdateDividendStatus
<1>3. b \in Dividend
  BY OneOf DEF DividendsInv, DividendsShape
<1> DEFINE d == [b EXCEPT !.status = s, !.recordLocked = l]
<1>4. d = [b EXCEPT !.status = s]
  BY <1>3 DEF Dividend
<1>5. dividends' = [dividends EXCEPT ![k] = d] /\ l \in BOOLEAN
  <2>1. dividends' = [dividends EXCEPT ![k] = [dividends[k] EXCEPT !.status = s]]
    BY <1>2
  <2> QED
    BY <1>3, <1>4, <2>1 DEF Dividend
<1>6. s \in DividendStatuses /\ s \notin {"partially_paid", "paid"}
  BY DEF DividendStatuses
<1>7. b.status \notin {"partially_paid", "paid"} /\ b.status # "cancelled"
  BY <1>2
<1> HIDE DEF d, l
<1>8. s = "cancelled" \/ (l = dividends[k].recordLocked /\ dividends[k].status # "cancelled")
  BY <1>7 DEF l
<1>9. d = [dividends[k] EXCEPT !.status = s, !.recordLocked = l]
  BY DEF d
<1> QED
  BY <1>1, <1>5, <1>6, <1>7, <1>8, <1>9, StatusMoves

LEMMA DividendCancelled ==
    ASSUME LedgerOK, DividendsInv, NEW k \in DOMAIN dividends, CancelDividend(k)
    PROVE  DividendsInv'
<1> DEFINE b == dividends[k]
           s == "cancelled"
           l == FALSE
           d == [b EXCEPT !.status = s, !.recordLocked = l]
<1>1. allocations' = allocations /\ NotDividends
  BY DEF CancelDividend
<1>2. dividends' = [dividends EXCEPT ![k].status = "cancelled", ![k].recordLocked = FALSE]
  BY DEF CancelDividend
<1>3. b \in Dividend /\ dividends \in Seq(Dividend)
  BY OneOf DEF DividendsInv, DividendsShape
<1>4. dividends' = [dividends EXCEPT ![k] = d]
  BY <1>2
<1>5. b.status \notin {"partially_paid", "paid"}
  BY DEF CancelDividend, NothingPaid
<1>6. s \in DividendStatuses /\ s \notin {"partially_paid", "paid"} /\ l \in BOOLEAN
  BY DEF DividendStatuses
<1>7. d = [dividends[k] EXCEPT !.status = s, !.recordLocked = l]
  OBVIOUS
<1>8. s = "cancelled" \/ (l = dividends[k].recordLocked /\ dividends[k].status # "cancelled")
  OBVIOUS
<1> HIDE DEF d, l, s
<1> QED
  BY <1>1, <1>4, <1>5, <1>6, <1>7, <1>8, StatusMoves

-----------------------------------------------------------------------------
(* Calculating a dividend *)

LEMMA EligibleType ==
    ASSUME SharesInv, NEW d \in Dividend, NEW h \in Holders
    PROVE  EligibleHeld(d, h) \in Int
<1> DEFINE C == IF d.class = None THEN Classes ELSE {d.class}
           f == [c \in C |-> HeldOn(shareTxns, h, c, d.record)]
           N == Int
<1>1. C \subseteq Classes
  BY DEF Dividend
<1>2. IsFiniteSet(C)
  <2>1. C \in SUBSET Classes
    BY <1>1
  <2> HIDE DEF C
  <2> QED
    BY <2>1, SharesAssumption, FS_Subset
<1>3. shareTxns \in Seq(ShareTxn)
  BY DEF SharesInv, SharesShape
<1>4. ASSUME NEW c PROVE HeldOn(shareTxns, h, c, d.record) \in Int
  <2>1. BookedBy(shareTxns, c, d.record) \subseteq DOMAIN shareTxns
    BY DEF BookedBy
  <2> QED
    BY <1>3, <2>1, SomeTxns DEF HeldOn
<1>5. DOMAIN f = C /\ \A c \in C : f[c] \in N
  BY <1>4
<1>6. EligibleHeld(d, h) = SumFunction(f)
  BY EligibleIs DEF EligibleOn
<1> HIDE DEF f, C
<1>7. N = Int \/ N = Nat
  OBVIOUS
<1> HIDE DEF N
<1>8. SumFunction(f) \in N
  BY <1>2, <1>5, <1>7, SumType
<1> QED
  BY <1>6, <1>8 DEF N

\* What is shared out is the pool but for less than a shilling each.
SplitIs(d, R, q) ==
    /\ IsFiniteSet(R) /\ R \subseteq Holders /\ R # {}
    /\ \A h \in R : EligibleHeld(d, h) \in Amount /\ q[h] = ShareOf(d, h) /\ q[h] \in Nat
    /\ Total(q, R) \in Nat /\ PoolOf(d) \in Nat
    /\ PoolOf(d) - Total(q, R) \in Nat
    /\ PoolOf(d) - Total(q, R) < Cardinality(R)

LEMMA Split ==
    ASSUME SharesInv, NEW d \in Dividend, Recipients(d) # {}
    PROVE  SplitIs(d, Recipients(d), [h \in Recipients(d) |-> ShareOf(d, h)])
<1> DEFINE R == Recipients(d)
           f == [h \in R |-> EligibleHeld(d, h)]
           q == [h \in R |-> ShareOf(d, h)]
           n == d.amount
           e == Total(f, R)
<1>1. R \subseteq Holders /\ \A h \in R : EligibleHeld(d, h) > 0 /\ h \in Holders
  BY DEF Recipients
<1>2. \A h \in R : EligibleHeld(d, h) \in Amount
  BY <1>1, EligibleType DEF Amount
<1>3. IsFiniteSet(R)
  <2>1. R \in SUBSET Holders
    BY <1>1
  <2> HIDE DEF R
  <2> QED
    BY <2>1, SharesAssumption, FS_Subset
<1>4. n \in Nat /\ n > 0 /\ d.method \in {"pool", "per_share"}
  BY DEF Dividend, Amount
<1>5. EligibleShares(d) = e
  <2>1. EligibleShares(d) = SumFunction(f) /\ DOMAIN f = R
    BY DEF EligibleShares
  <2> HIDE DEF f
  <2> QED
    BY <2>1, SumIsTotal
<1>6. \A h \in R : f[h] \in Nat /\ f[h] > 0 /\ f[h] = EligibleHeld(d, h)
  BY <1>2 DEF Amount
<1>7. \A h \in R : q[h] = ShareOf(d, h)
  OBVIOUS
<1>8. R # {}
  OBVIOUS
<1> HIDE DEF f, q, R, n
<1>9. e \in Nat /\ e > 0
  <2>1. e \in Nat /\ (e = 0 <=> \A h \in R : f[h] = 0)
    BY <1>3, <1>6, TotalNat
  <2>2. PICK h \in R : TRUE
    BY <1>8
  <2>3. f[h] > 0 /\ f[h] # 0
    BY <1>6
  <2> QED
    BY <2>1, <2>3
<1> DEFINE c == Cardinality(R)
<1>10. c \in Nat /\ c > 0
  BY <1>3, <1>8, FS_CardinalityType, FS_EmptySet
<1>11. Weighs(f, R)
  BY <1>3, <1>6 DEF Weighs
<1>12. ASSUME d.method = "per_share" PROVE SplitIs(d, R, q)
  <2>1. \A h \in R : q[h] = n * f[h]
    BY <1>6, <1>7, <1>12 DEF ShareOf, n
  <2>2. n \in Int
    BY <1>4
  <2>3. Total(q, R) = n * e
    BY <1>11, <2>1, <2>2, TotalScaled
  <2>4. PoolOf(d) = n * e
    BY <1>5, <1>12 DEF PoolOf, n
  <2>5. \A h \in R : q[h] \in Nat
    BY <1>4, <1>6, <2>1, TimesNat
  <2> DEFINE p == n * e
  <2>6. p \in Nat
    BY <1>4, <1>9, TimesNat
  <2> HIDE DEF p
  <2>7. Total(q, R) = p /\ PoolOf(d) = p
    BY <2>3, <2>4 DEF p
  <2>8. PoolOf(d) - Total(q, R) = 0
    BY <2>6, <2>7
  <2> HIDE DEF e
  <2> QED
    BY <1>1, <1>2, <1>3, <1>7, <1>8, <1>10, <2>5, <2>6, <2>7, <2>8 DEF SplitIs
<1>13. ASSUME d.method = "pool" PROVE SplitIs(d, R, q)
  <2>1. Portions(q, f, R, n)
    BY <1>5, <1>6, <1>7, <1>13 DEF Portions, ShareOf, n
  <2>2. \A h \in R : f[h] \in Nat
    BY <1>6
  <2>3. Total(f, R) > 0
    BY <1>9
  <2>4. /\ \A h \in R : q[h] \in Nat
        /\ Total(q, R) \in Nat
        /\ 0 <= n - Total(q, R)
        /\ n - Total(q, R) < Cardinality(R)
    BY <1>3, <1>4, <2>1, <2>2, <2>3, PortionsFit
  <2>5. PoolOf(d) = n
    BY <1>13 DEF PoolOf, n
  <2>6. n - Total(q, R) \in Nat
    BY <1>4, <2>4
  <2> QED
    BY <1>1, <1>2, <1>3, <1>4, <1>7, <1>8, <2>4, <2>5, <2>6 DEF SplitIs
<1>14. SplitIs(d, R, q)
  BY <1>4, <1>12, <1>13
<1> QED
  BY <1>14 DEF R, q

LEMMA Joined ==
    ASSUME NEW S, NEW s \in Seq(S), NEW n \in Nat, NEW t \in [1..n -> S]
    PROVE  /\ s \o t \in Seq(S) /\ Len(s) \in Nat
           /\ DOMAIN s = 1..Len(s)
           /\ DOMAIN (s \o t) = 1..(Len(s) + n)
           /\ \A j \in 1..Len(s) : (s \o t)[j] = s[j]
           /\ \A i \in 1..n : (s \o t)[Len(s) + i] = t[i]
<1>1. t \in Seq(S) /\ Len(t) = n
  OBVIOUS
<1>2. Len(s) \in Nat /\ DOMAIN s = 1..Len(s)
  BY LenProperties
<1> QED
  BY <1>1, <1>2

\* bs are n more allocations of dividend k, one for each of R in their order.
AllocatedTo(bs, k, R, shares, q, m, n) ==
    /\ IsFiniteSet(R) /\ m \in Nat /\ n \in Nat /\ n = Cardinality(R)
    /\ CurrentOf(bs, k) = (m + 1)..(m + n)
    /\ \E order : /\ Enumerates(order, R)
                  /\ \A i \in 1..n : /\ bs[m + i].holder = order[i]
                                     /\ bs[m + i].shares = shares[order[i]]
                                     /\ bs[m + i].net = q[order[i]]

LEMMA AllocatedSums ==
    ASSUME NEW bs, NEW k, NEW R, NEW shares, NEW q, NEW m, NEW n,
           AllocatedTo(bs, k, R, shares, q, m, n), \A h \in R : q[h] \in Nat
    PROVE  /\ NetOver(bs, CurrentOf(bs, k)) = Total(q, R)
           /\ Cardinality(CurrentOf(bs, k)) = Cardinality(R)
           /\ {bs[j].holder : j \in CurrentOf(bs, k)} = R
           /\ \A j \in CurrentOf(bs, k) : bs[j].shares = shares[bs[j].holder]
<1> DEFINE C == CurrentOf(bs, k)
           I == 1..n
<1>1. /\ IsFiniteSet(R) /\ m \in Nat /\ n \in Nat /\ n = Cardinality(R)
      /\ C = (m + 1)..(m + n)
  BY DEF AllocatedTo
<1>2. PICK order : /\ Enumerates(order, R)
                   /\ \A i \in 1..n : /\ bs[m + i].holder = order[i]
                                      /\ bs[m + i].shares = shares[order[i]]
                                      /\ bs[m + i].net = q[order[i]]
  BY DEF AllocatedTo
<1>3. /\ \A i \in I : order[i] \in R
      /\ \A x \in R : \E i \in I : order[i] = x
      /\ \A i, j \in I : order[i] = order[j] => i = j
  BY <1>1, <1>2 DEF Enumerates
<1>4. /\ \A i \in I : m + i \in C
      /\ \A j \in C : j - m \in I /\ m + (j - m) = j
  BY <1>1
<1>5. Cardinality(C) = n
  BY <1>1, FS_Interval
<1>6. {bs[j].holder : j \in C} = R
  <2>1. ASSUME NEW j \in C PROVE bs[j].holder \in R
    <3> DEFINE i == j - m
    <3>1. i \in I /\ m + i = j
      BY <1>4
    <3> HIDE DEF i, I
    <3> QED
      BY <1>2, <1>3, <3>1 DEF I
  <2>2. ASSUME NEW x \in R PROVE \E j \in C : bs[j].holder = x
    <3>1. PICK i \in I : order[i] = x
      BY <1>3
    <3>2. m + i \in C /\ bs[m + i].holder = x
      BY <1>2, <1>4, <3>1
    <3> QED
      BY <3>2
  <2> HIDE DEF C
  <2> QED
    BY <2>1, <2>2
<1>7. \A j \in C : bs[j].shares = shares[bs[j].holder]
  <2> SUFFICES ASSUME NEW j \in C PROVE bs[j].shares = shares[bs[j].holder]
    OBVIOUS
  <2> DEFINE i == j - m
  <2>1. i \in I /\ m + i = j
    BY <1>4
  <2> HIDE DEF i, I
  <2> QED
    BY <1>2, <2>1 DEF I
<1> DEFINE f == [i \in I |-> q[order[i]]]
           w == [j \in C |-> bs[j].net]
           up == [i \in I |-> m + i]
<1>8. IsFiniteSet(I)
  BY <1>1, FS_Interval
<1>9. Weighs(f, I)
  BY <1>3, <1>8 DEF Weighs
<1>10. NetOver(bs, C) = Total(w, C)
  <2>1. NetOver(bs, C) = SumFunction(w) /\ DOMAIN w = C
    BY DEF NetOver
  <2> HIDE DEF w
  <2> QED
    BY <2>1, SumIsTotal
<1>11. Total(w, C) = Total(f, I)
  <2>1. \A x \in I : w[up[x]] = f[x]
    <3> SUFFICES ASSUME NEW x \in I PROVE w[m + x] = q[order[x]]
      OBVIOUS
    <3>1. m + x \in C
      BY <1>4
    <3>2. bs[m + x].net = q[order[x]]
      BY <1>2
    <3> HIDE DEF C
    <3> QED
      BY <3>1, <3>2
  <2>2. \A x, y \in I : up[x] = up[y] => x = y
    BY <1>1
  <2>3. {up[x] : x \in I} = C
    <3>1. \A x \in I : up[x] \in C
      BY <1>4
    <3>2. \A j \in C : \E x \in I : up[x] = j
      <4> SUFFICES ASSUME NEW j \in C PROVE \E x \in I : up[x] = j
        OBVIOUS
      <4> DEFINE i == j - m
      <4>1. i \in I /\ m + i = j
        BY <1>4
      <4> HIDE DEF i, I, C
      <4> QED
        BY <4>1
    <3> HIDE DEF C, I, up
    <3> QED
      BY <3>1, <3>2
  <2> HIDE DEF w, f, up, I, C
  <2>4. LET Z == {up[x] : x \in I} IN Weighs(w, Z) /\ Total(w, Z) = Total(f, I)
    BY <1>9, <2>1, <2>2, TotalRenamed
  <2> QED
    BY <2>3, <2>4
<1>12. Total(q, R) = Total(f, I)
  <2>1. \A x \in I : q[order[x]] = f[x]
    OBVIOUS
  <2>2. {order[x] : x \in I} = R
    BY <1>3
  <2>4. \A x, y \in I : order[x] = order[y] => x = y
    BY <1>3
  <2> HIDE DEF f, I
  <2>3. LET Z == {order[x] : x \in I} IN Weighs(q, Z) /\ Total(q, Z) = Total(f, I)
    BY <1>9, <2>1, <2>4, TotalRenamed
  <2> QED
    BY <2>2, <2>3
<1> QED
  BY <1>1, <1>5, <1>6, <1>7, <1>10, <1>11, <1>12

LEMMA DividendCalculated ==
    ASSUME LedgerOK, SharesInv, DividendsInv, NEW k \in DOMAIN dividends, CalculateDividend(k)
    PROVE  DividendsInv'
<1> DEFINE b == dividends[k]
           R == Recipients(b)
           q == [h \in R |-> ShareOf(b, h)]
           shares == [h \in R |-> EligibleHeld(b, h)]
           order == SetToSeq(R)
           made == [i \in DOMAIN order |->
                      [dividend |-> k, holder |-> order[i], shares |-> EligibleHeld(b, order[i]),
                       net |-> ShareOf(b, order[i]), current |-> TRUE, entry |-> 0]]
           old == Superseded(k)
           left == PoolOf(b) - SumFunction(q)
           d == [b EXCEPT !.calculated = TRUE, !.recordLocked = TRUE, !.pool = PoolOf(b),
                          !.unallocated = left]
           bs == allocations'
           m == Len(allocations)
           n == Cardinality(R)
<1>1. /\ b.status = "draft" /\ R # {} /\ NotDividends
      /\ bs = old \o made
      /\ dividends' = [dividends EXCEPT ![k] = d]
  BY DEF CalculateDividend
<1>2. /\ DividendsShape /\ dividends \in Seq(Dividend) /\ Len(dividends) <= MaxDividends
      /\ allocations \in Seq(Allocation)
  BY DEF DividendsInv, DividendsShape
<1>3. b \in Dividend /\ k \in 1..MaxDividends
  <2>1. DOMAIN dividends = 1..Len(dividends) /\ Len(dividends) \in Nat
    BY <1>2, LenProperties
  <2>2. k \in 1..MaxDividends
    BY <1>2, <2>1, DividendAssumption
  <2> QED
    BY <1>2, <2>2, OneOf
<1>4. PaidOf(allocations, k) = {}
  BY <1>1, UnpaidIs
<1>5. /\ old \in Seq(Allocation) /\ DOMAIN old = DOMAIN allocations /\ Len(old) = m
      /\ \A j \in DOMAIN allocations :
            /\ old[j].dividend = allocations[j].dividend
            /\ old[j].entry = allocations[j].entry /\ old[j].net = allocations[j].net
            /\ old[j].entry # 0 => old[j].current /\ old[j].net > 0
      /\ CurrentOf(old, k) = {}
      /\ \A i : i # k => AllocationsKept(allocations, old, i)
  BY <1>4, SupersededIs
<1>6. SplitIs(b, R, q)
  BY <1>1, <1>3, Split
<1>7. /\ IsFiniteSet(R) /\ R \subseteq Holders
      /\ \A h \in R : EligibleHeld(b, h) \in Amount /\ q[h] = ShareOf(b, h) /\ q[h] \in Nat
      /\ Total(q, R) \in Nat /\ PoolOf(b) \in Nat
      /\ PoolOf(b) - Total(q, R) \in Nat
      /\ PoolOf(b) - Total(q, R) < Cardinality(R)
  BY <1>6 DEF SplitIs
<1>8. Enumerates(order, R) /\ n \in Nat
  BY <1>7, SetListed
<1>9. left = PoolOf(b) - Total(q, R)
  <2>1. DOMAIN q = R
    OBVIOUS
  <2> HIDE DEF q
  <2> QED
    BY <2>1, SumIsTotal
<1>10. DOMAIN shares = R /\ \A h \in R : shares[h] = EligibleHeld(b, h)
  OBVIOUS
<1> HIDE DEF left, q, old, order, shares
<1>11. order \in [1..n -> R] /\ DOMAIN order = 1..n
  BY <1>8 DEF Enumerates
<1>12. DOMAIN made = 1..n
  BY <1>11
<1>13. \A i \in 1..n : /\ made[i] \in Allocation /\ made[i].dividend = k /\ made[i].current
                       /\ made[i].entry = 0 /\ made[i].holder = order[i]
                       /\ made[i].shares = shares[order[i]] /\ made[i].net = q[order[i]]
  <2> SUFFICES ASSUME NEW i \in 1..n
               PROVE  /\ made[i] \in Allocation /\ made[i].dividend = k /\ made[i].current
                      /\ made[i].entry = 0 /\ made[i].holder = order[i]
                      /\ made[i].shares = shares[order[i]] /\ made[i].net = q[order[i]]
    OBVIOUS
  <2> DEFINE h == order[i]
  <2>1. h \in R /\ h \in Holders
    BY <1>7, <1>11
  <2>2. /\ EligibleHeld(b, h) \in Amount /\ ShareOf(b, h) \in Nat
        /\ q[h] = ShareOf(b, h) /\ shares[h] = EligibleHeld(b, h)
    BY <1>7, <1>10, <2>1
  <2>3. made[i] = [dividend |-> k, holder |-> h, shares |-> EligibleHeld(b, h),
                   net |-> ShareOf(b, h), current |-> TRUE, entry |-> 0]
    BY <1>11
  <2> HIDE DEF made, h
  <2> QED
    BY <1>3, <2>1, <2>2, <2>3 DEF Allocation, h
<1>14. made \in [1..n -> Allocation]
  BY <1>12, <1>13
<1> HIDE DEF made, R, b
<1>15. /\ bs \in Seq(Allocation) /\ m \in Nat /\ DOMAIN allocations = 1..m
       /\ DOMAIN bs = 1..(m + n)
       /\ \A j \in 1..m : bs[j] = old[j]
       /\ \A i \in 1..n : bs[m + i] = made[i]
  <2>1. /\ old \o made \in Seq(Allocation) /\ Len(old) \in Nat
        /\ DOMAIN old = 1..Len(old)
        /\ DOMAIN (old \o made) = 1..(Len(old) + n)
        /\ \A j \in 1..Len(old) : (old \o made)[j] = old[j]
        /\ \A i \in 1..n : (old \o made)[Len(old) + i] = made[i]
    BY <1>5, <1>8, <1>14, Joined
  <2> QED
    BY <1>1, <1>5, <2>1
<1> HIDE DEF bs, m, n, d
<1>16. \A j \in DOMAIN bs : j \in DOMAIN allocations \/ (j - m \in 1..n /\ j = m + (j - m))
  BY <1>8, <1>15
<1>17. CurrentOf(bs, k) = (m + 1)..(m + n)
  <2>1. \A j \in DOMAIN allocations : j \in DOMAIN bs /\ bs[j] = old[j] /\ j \in DOMAIN old
    BY <1>5, <1>8, <1>15
  <2>2. \A j \in DOMAIN allocations : j \notin CurrentOf(bs, k)
    BY <1>5, <2>1 DEF CurrentOf
  <2>3. \A i \in 1..n : m + i \in CurrentOf(bs, k)
    <3>1. \A i \in 1..n : m + i \in DOMAIN bs
      BY <1>8, <1>15
    <3> QED
      BY <1>13, <1>15, <3>1 DEF CurrentOf
  <2>4. \A j \in CurrentOf(bs, k) : j \in (m + 1)..(m + n)
    <3>1. \A j \in CurrentOf(bs, k) : j \in DOMAIN bs /\ j \notin DOMAIN allocations
      BY <2>2 DEF CurrentOf
    <3> QED
      BY <1>8, <1>15, <3>1
  <2>5. \A j \in (m + 1)..(m + n) : j \in CurrentOf(bs, k)
    <3> SUFFICES ASSUME NEW j \in (m + 1)..(m + n) PROVE j \in CurrentOf(bs, k)
      OBVIOUS
    <3>1. j - m \in 1..n /\ m + (j - m) = j
      BY <1>8, <1>15
    <3> DEFINE i == j - m
    <3> HIDE DEF i
    <3>2. i \in 1..n /\ m + i = j
      BY <3>1 DEF i
    <3> QED
      BY <2>3, <3>2
  <2> QED
    BY <2>4, <2>5
<1>18. ASSUME NEW i, i # k PROVE AllocationsKept(allocations, bs, i)
  <2>1. AllocationsKept(allocations, old, i)
    BY <1>5, <1>18
  <2>2. CurrentOf(bs, i) = CurrentOf(old, i)
    <3>1. \A j \in DOMAIN allocations : j \in DOMAIN bs /\ bs[j] = old[j] /\ j \in DOMAIN old
      BY <1>5, <1>8, <1>15
    <3>2. \A j \in CurrentOf(bs, i) : j \in DOMAIN allocations
      <4>1. \A x \in 1..n : bs[m + x].dividend = k
        BY <1>13, <1>15
      <4> SUFFICES ASSUME NEW j \in CurrentOf(bs, i), j \notin DOMAIN allocations PROVE FALSE
        OBVIOUS
      <4>2. j \in DOMAIN bs /\ bs[j].dividend = i
        BY DEF CurrentOf
      <4>3. j - m \in 1..n /\ j = m + (j - m)
        BY <1>16, <4>2
      <4> QED
        BY <1>18, <4>1, <4>2, <4>3
    <3> QED
      BY <1>5, <3>1, <3>2 DEF CurrentOf
  <2>3. \A j \in CurrentOf(allocations, i) : bs[j] = old[j]
    BY <1>15 DEF CurrentOf
  <2> QED
    BY <2>1, <2>2, <2>3 DEF AllocationsKept
<1>19. AllocatedTo(bs, k, R, shares, q, m, n)
  <2>1. \A i \in 1..n : /\ bs[m + i].holder = order[i]
                        /\ bs[m + i].shares = shares[order[i]]
                        /\ bs[m + i].net = q[order[i]]
    BY <1>13, <1>15
  <2> QED
    BY <1>7, <1>8, <1>15, <1>17, <2>1 DEF AllocatedTo, n
<1>20. /\ NetOver(bs, CurrentOf(bs, k)) = Total(q, R)
       /\ Cardinality(CurrentOf(bs, k)) = Cardinality(R)
       /\ {bs[j].holder : j \in CurrentOf(bs, k)} = R
       /\ \A j \in CurrentOf(bs, k) : bs[j].shares = shares[bs[j].holder]
  BY <1>7, <1>19, AllocatedSums
<1>21. /\ d \in Dividend /\ d.status = "draft" /\ d.calculated /\ d.recordLocked
       /\ d.pool = PoolOf(b) /\ d.unallocated = left /\ d.paidCount = b.paidCount /\ d.paid = b.paid
       /\ d.class = b.class /\ d.record = b.record
  <2>1. left \in Nat
    BY <1>7, <1>9
  <2> QED
    BY <1>1, <1>3, <1>7, <2>1 DEF Dividend, d
<1>22. PaidOf(bs, k) = {}
  <2> SUFFICES ASSUME NEW j \in CurrentOf(bs, k) PROVE bs[j].entry = 0
    BY DEF PaidOf
  <2> DEFINE i == j - m
  <2>1. i \in 1..n /\ j = m + i
    BY <1>8, <1>15, <1>17
  <2> HIDE DEF i
  <2> QED
    BY <1>13, <1>15, <2>1
<1>23. CountsAre(d, bs, k)
  <2>1. CountsAre(b, allocations, k)
    BY DEF DividendsInv, b
  <2>2. NetOver(bs, {}) = 0 /\ NetOver(allocations, {}) = 0
    BY SumOfNone DEF NetOver
  <2> QED
    BY <1>4, <1>21, <1>22, <2>1, <2>2 DEF CountsAre
<1>24. PoolIs(d, bs, k)
  <2>1. d.unallocated = PoolOf(b) - Total(q, R)
    BY <1>9, <1>21
  <2> QED
    BY <1>7, <1>20, <1>21, <2>1 DEF PoolIs
<1>25. SnapshotIs(shareTxns, d, bs, k)
  <2>1. \A h : EligibleOn(shareTxns, d, h) = EligibleHeld(b, h)
    <3>1. \A h : EligibleOn(shareTxns, d, h) = EligibleOn(shareTxns, b, h)
      BY <1>21 DEF EligibleOn
    <3> QED
      BY <3>1, EligibleIs
  <2>2. RecipientsOn(shareTxns, d) = R
    BY <2>1 DEF RecipientsOn, Recipients, R
  <2>3. \A j \in CurrentOf(bs, k) : bs[j].holder \in R
    BY <1>20
  <2> QED
    BY <1>10, <1>20, <1>21, <2>1, <2>2, <2>3 DEF SnapshotIs
<1>26. /\ dividends' \in Seq(Dividend) /\ DOMAIN dividends' = DOMAIN dividends
       /\ dividends'[k] = d /\ \A i \in DOMAIN dividends : i # k => dividends'[i] = dividends[i]
  BY <1>1, <1>2, <1>21, OneEdited
<1>27. DividendsShape'
  <2>1. Len(dividends') = Len(dividends)
    BY <1>2, <1>26, LenProperties
  <2>2. \A j \in DOMAIN bs :
          /\ bs[j].dividend \in DOMAIN dividends
          /\ bs[j].entry # 0 => bs[j].current /\ bs[j].net > 0
    <3> SUFFICES ASSUME NEW j \in DOMAIN bs
                 PROVE  /\ bs[j].dividend \in DOMAIN dividends
                        /\ bs[j].entry # 0 => bs[j].current /\ bs[j].net > 0
      OBVIOUS
    <3>1. CASE j \in DOMAIN allocations
      <4>1. bs[j] = old[j]
        BY <1>15, <3>1
      <4> QED
        BY <1>2, <1>5, <3>1, <4>1 DEF DividendsShape
    <3>2. CASE j - m \in 1..n /\ j = m + (j - m)
      <4> DEFINE i == j - m
      <4>1. i \in 1..n /\ bs[j] = made[i]
        BY <1>15, <3>2
      <4> HIDE DEF i
      <4> QED
        BY <1>13, <4>1
    <3> QED
      BY <1>16, <3>1, <3>2
  <2> QED
    BY <1>2, <1>15, <1>26, <2>1, <2>2 DEF DividendsShape, bs
<1>28. OnlyDividend(k)
  BY <1>1, <1>18, <1>26, NothingMoves DEF OnlyDividend, bs
<1>29. Settled(ledger', DividendType, DividendClaims(bs))
  <2>1. DOMAIN allocations \subseteq DOMAIN bs
    BY <1>8, <1>15
  <2>2. \A j \in DOMAIN allocations : bs[j].entry = allocations[j].entry /\ bs[j].net = allocations[j].net
    BY <1>5, <1>15
  <2>3. \A j \in DOMAIN bs \ DOMAIN allocations : bs[j].entry = 0
    <3> SUFFICES ASSUME NEW j \in DOMAIN bs, j \notin DOMAIN allocations PROVE bs[j].entry = 0
      OBVIOUS
    <3> DEFINE i == j - m
    <3>1. i \in 1..n /\ bs[j] = made[i]
      BY <1>15, <1>16
    <3> HIDE DEF i
    <3> QED
      BY <1>13, <3>1
  <2> QED
    BY <1>1, <2>1, <2>2, <2>3, NoDividendMoney, NothingMoves DEF bs
<1> QED
  BY <1>23, <1>24, <1>25, <1>26, <1>27, <1>28, <1>29, DividendChanged DEF bs

-----------------------------------------------------------------------------
(* Paying a dividend *)

\* Only what allocations were paid with changes.
OnlyEntries(as, bs) ==
    /\ bs \in Seq(Allocation) /\ DOMAIN bs = DOMAIN as
    /\ \A j \in DOMAIN as : /\ bs[j].dividend = as[j].dividend /\ bs[j].holder = as[j].holder
                            /\ bs[j].shares = as[j].shares /\ bs[j].net = as[j].net
                            /\ bs[j].current = as[j].current

LEMMA OnlyEntriesKeep ==
    ASSUME NEW as, NEW bs, OnlyEntries(as, bs)
    PROVE  /\ \A i : CurrentOf(bs, i) = CurrentOf(as, i) /\ OwedOf(bs, i) = OwedOf(as, i)
           /\ \A i : CurrentOf(as, i) \subseteq DOMAIN as /\ PaidOf(as, i) \subseteq DOMAIN as
           /\ \A S : S \subseteq DOMAIN as => NetOver(bs, S) = NetOver(as, S)
<1>1. \A i : CurrentOf(bs, i) = CurrentOf(as, i)
  BY DEF CurrentOf, OnlyEntries
<1>2. \A i : CurrentOf(as, i) \subseteq DOMAIN as /\ PaidOf(as, i) \subseteq DOMAIN as
  BY DEF CurrentOf, PaidOf
<1>3. ASSUME NEW i PROVE OwedOf(bs, i) = OwedOf(as, i)
  <2>1. \A j \in CurrentOf(as, i) : bs[j].net = as[j].net
    BY <1>2 DEF OnlyEntries
  <2>2. CurrentOf(bs, i) = CurrentOf(as, i)
    BY <1>1
  <2> QED
    BY <2>1, <2>2 DEF OwedOf
<1>4. ASSUME NEW S, S \subseteq DOMAIN as PROVE NetOver(bs, S) = NetOver(as, S)
  <2>1. \A j \in S : bs[j].net = as[j].net
    BY <1>4 DEF OnlyEntries
  <2> QED
    BY <2>1, NetSame
<1> QED
  BY <1>1, <1>2, <1>3, <1>4

LEMMA SomeAllocations ==
    ASSUME NEW as \in Seq(Allocation), NEW S, S \subseteq DOMAIN as
    PROVE  /\ IsFiniteSet(S) /\ Cardinality(S) \in Nat
           /\ \A j \in S : as[j].net \in Nat
           /\ NetOver(as, S) \in Nat
           /\ NetOver(as, S) = Total([j \in DOMAIN as |-> as[j].net], S)
<1> DEFINE w == [j \in DOMAIN as |-> as[j].net]
           v == [j \in S |-> as[j].net]
<1>1. IsFiniteSet(S)
  <2> DEFINE n == Len(as)
  <2>0. Len(as) \in Nat /\ DOMAIN as = 1..Len(as)
    BY LenProperties
  <2>1. n \in Int /\ DOMAIN as = 1..n
    BY <2>0
  <2> HIDE DEF n
  <2>a. IsFiniteSet(1..n)
    BY <2>1, FS_Interval
  <2>2. IsFiniteSet(DOMAIN as)
    BY <2>1, <2>a
  <2>3. S \in SUBSET DOMAIN as
    OBVIOUS
  <2> QED
    BY <2>2, <2>3, FS_Subset
<1>2. \A j \in S : as[j].net \in Nat
  <2>1. \A j \in DOMAIN as : as[j] \in Allocation
    BY OneOf
  <2> QED
    BY <2>1 DEF Allocation
<1>3. Cardinality(S) \in Nat
  BY <1>1, FS_CardinalityType
<1>4. NetOver(as, S) = Total(v, S)
  <2>1. NetOver(as, S) = SumFunction(v) /\ DOMAIN v = S
    BY DEF NetOver
  <2> HIDE DEF v
  <2> QED
    BY <2>1, SumIsTotal
<1>5. \A j \in S : w[j] = v[j] /\ v[j] \in Nat
  BY <1>2
<1> HIDE DEF w, v
<1>6. Total(w, S) = Total(v, S)
  BY <1>1, <1>5, TotalSame
<1>7. Total(v, S) \in Nat
  BY <1>1, <1>5, TotalNat
<1> QED
  BY <1>1, <1>2, <1>3, <1>4, <1>6, <1>7 DEF w

\* Payments of k counted, one way or the other.
PaymentCounts(d, k, count, n, as, bs) ==
    /\ OnlyEntries(as, bs)
    /\ PaidOf(bs, k) \subseteq OwedOf(bs, k)
    /\ d.paidCount + count = Cardinality(PaidOf(bs, k))
    /\ d.paid + n = NetOver(bs, PaidOf(bs, k))

DividendMoves(k, d) ==
    /\ dividends' \in Seq(Dividend) /\ Len(dividends') = Len(dividends)
    /\ DOMAIN dividends' = DOMAIN dividends
    /\ dividends'[k] = d /\ \A i \in DOMAIN dividends : i # k => dividends'[i] = dividends[i]

LEMMA PaymentCounted ==
    ASSUME DividendsInv, NEW k \in DOMAIN dividends, dividends[k].status # "cancelled",
           NEW count \in Int, NEW n \in Int, DividendPaid(k, count, n), NEW bs,
           PaymentCounts(dividends[k], k, count, n, allocations, bs)
    PROVE  \E d : /\ DividendMoves(k, d) /\ CountsAre(d, bs, k) /\ PoolIs(d, bs, k)
                  /\ SnapshotIs(shareTxns, d, bs, k)
<1> DEFINE b == dividends[k]
           p == b.paidCount + count
           s == StatusAfterPayments(k, p)
           d == [b EXCEPT !.paidCount = p, !.paid = b.paid + n, !.status = s]
           P == PaidOf(bs, k)
           O == OwedOf(bs, k)
<1>1. /\ OnlyEntries(allocations, bs) /\ P \subseteq O
      /\ p = Cardinality(P) /\ b.paid + n = NetOver(bs, P)
  BY DEF PaymentCounts
<1>2. dividends \in Seq(Dividend) /\ allocations \in Seq(Allocation)
  BY DEF DividendsInv, DividendsShape
<1>3. b \in Dividend
  BY <1>2, OneOf
<1>4. /\ CountsAre(b, allocations, k) /\ PoolIs(b, allocations, k)
      /\ SnapshotIs(shareTxns, b, allocations, k)
  BY DEF DividendsInv
<1>5. /\ CurrentOf(bs, k) = CurrentOf(allocations, k) /\ O = OwedOf(allocations, k)
      /\ CurrentOf(allocations, k) \subseteq DOMAIN allocations
      /\ NetOver(bs, CurrentOf(allocations, k)) = NetOver(allocations, CurrentOf(allocations, k))
  BY <1>1, OnlyEntriesKeep
<1>6. bs \in Seq(Allocation) /\ DOMAIN bs = DOMAIN allocations
  BY <1>1 DEF OnlyEntries
<1>7. O \subseteq DOMAIN bs /\ P \subseteq DOMAIN bs
  BY DEF OwedOf, PaidOf, CurrentOf
<1>8. IsFiniteSet(O) /\ Cardinality(O) \in Nat
  BY <1>6, <1>7, SomeAllocations
<1>9. Cardinality(P) \in Nat /\ NetOver(bs, P) \in Nat /\ IsFiniteSet(P)
  BY <1>6, <1>7, SomeAllocations
<1>10. PaysOut(k) = O
  BY <1>5 DEF PaysOut, OwedOf, Current, CurrentOf
<1>11. s = IF p = 0 THEN "approved" ELSE IF p >= Cardinality(O) THEN "paid" ELSE "partially_paid"
  BY <1>10 DEF StatusAfterPayments
<1>12. dividends' = [dividends EXCEPT ![k] = d]
  BY DEF DividendPaid
<1> HIDE DEF s, P, O
<1>13. /\ p = 0 <=> P = {}
       /\ p >= Cardinality(O) <=> P = O
  <2>1. p = 0 <=> P = {}
    <3>1. Cardinality(P) = 0 <=> P = {}
      BY <1>9, FS_EmptySet
    <3> QED
      BY <1>1, <3>1
  <2>2. Cardinality(P) <= Cardinality(O) /\ (Cardinality(P) = Cardinality(O) => P = O)
    BY <1>1, <1>8, FS_Subset
  <2> QED
    BY <1>1, <1>8, <1>9, <2>1, <2>2
<1> HIDE DEF p
<1>14. s \in DividendStatuses /\ s # "cancelled"
  BY <1>11 DEF DividendStatuses
<1>15. /\ d \in Dividend /\ d.status = s /\ d.paidCount = p /\ d.paid = b.paid + n
       /\ d.calculated = b.calculated /\ d.pool = b.pool /\ d.unallocated = b.unallocated
       /\ d.class = b.class /\ d.record = b.record /\ d.recordLocked = b.recordLocked
  <2>1. p \in Nat /\ b.paid + n \in Nat
    BY <1>1, <1>9
  <2> QED
    BY <1>3, <1>14, <2>1 DEF Dividend
<1> HIDE DEF d
<1>16. DividendMoves(k, d)
  <2>1. /\ dividends' \in Seq(Dividend) /\ DOMAIN dividends' = DOMAIN dividends
        /\ dividends'[k] = d /\ \A i \in DOMAIN dividends : i # k => dividends'[i] = dividends[i]
    BY <1>2, <1>12, <1>15, OneEdited
  <2>2. Len(dividends') = Len(dividends)
    BY <1>2, <2>1, LenProperties
  <2> QED
    BY <2>1, <2>2 DEF DividendMoves
<1>17. CountsAre(d, bs, k)
  <2>1. d.status = "paid" <=> P = O /\ P # {}
    BY <1>11, <1>13, <1>15
  <2>2. d.status \in {"partially_paid", "paid"} <=> P # {}
    BY <1>11, <1>13, <1>15
  <2> QED
    BY <1>1, <1>15, <2>1, <2>2 DEF CountsAre, P, O
<1>18. PoolIs(d, bs, k)
  BY <1>4, <1>5, <1>15 DEF PoolIs
<1>19. SnapshotIs(shareTxns, d, bs, k)
  <2>1. \A h : EligibleOn(shareTxns, d, h) = EligibleOn(shareTxns, b, h)
    BY <1>15 DEF EligibleOn
  <2>2. RecipientsOn(shareTxns, d) = RecipientsOn(shareTxns, b)
    BY <2>1 DEF RecipientsOn
  <2>3. \A j \in CurrentOf(allocations, k) :
           bs[j].holder = allocations[j].holder /\ bs[j].shares = allocations[j].shares
    BY <1>1, <1>5 DEF OnlyEntries
  <2>4. b.status # "cancelled"
    OBVIOUS
  <2> HIDE DEF b
  <2>5. {bs[j].holder : j \in CurrentOf(allocations, k)} = {allocations[j].holder : j \in CurrentOf(allocations, k)}
    BY <2>3
  <2> QED
    BY <1>4, <1>5, <1>15, <2>1, <2>2, <2>3, <2>4, <2>5 DEF SnapshotIs
<1> QED
  BY <1>16, <1>17, <1>18, <1>19

\* Entry e pays allocation j the amount n.
PaysFor(e, j, n) ==
    e \in Entry /\ e.type = DividendType /\ e.about = j /\ e.amount = n /\ e.posted

LEMMA PayingEntry ==
    ASSUME NEW n \in Amount, NEW a \in AccountIds, NEW j \in Nat
    PROVE  PaysFor([NewEntry("dividend_payment", n, a, None) EXCEPT !.about = j], j, n)
<1> DEFINE e == NewEntry("dividend_payment", n, a, None)
<1>1. e \in Entry
  <2>1. "dividend_payment" \in PostingTypes
    BY DEF PostingTypes, OwnershipTypes
  <2> QED
    BY <2>1, NewEntryType
<1>2. e.type = DividendType /\ e.amount = n /\ e.posted
  BY DEF NewEntry, DividendType
<1> HIDE DEF e
<1>3. PaysFor([e EXCEPT !.about = j], j, n)
  BY <1>1, <1>2 DEF PaysFor, Entry
<1> QED
  BY <1>3 DEF e

\* The batch listed in this order is paid at the end of the ledger.
PaysEach(order, n) ==
    /\ ledger' \in Seq(Entry) /\ n \in Nat
    /\ DOMAIN ledger' = 1..(Len(ledger) + n)
    /\ \A i \in 1..Len(ledger) : ledger'[i] = ledger[i]
    /\ \A i \in 1..n : PaysFor(ledger'[Len(ledger) + i], order[i], allocations[order[i]].net)

LEMMA BatchPays ==
    ASSUME LedgerOK, NEW batch, NEW order, NEW n \in Nat, n = Cardinality(batch),
           Enumerates(order, batch),
           \A j \in batch : j \in Nat /\ allocations[j].net \in Amount,
           NEW a \in AccountIds, NEW es, DOMAIN es = 1..n,
           \A i \in 1..n : es[i] = [NewEntry("dividend_payment", allocations[order[i]].net, a, None)
                                       EXCEPT !.about = order[i]],
           PostAll(ledger, es)
    PROVE  PaysEach(order, n)
<1>1. \A i \in 1..n : order[i] \in batch
  BY DEF Enumerates
<1>2. \A i \in 1..n : PaysFor(es[i], order[i], allocations[order[i]].net)
  BY <1>1, PayingEntry
<1>3. Batch(es, n)
  BY <1>2 DEF Batch, PaysFor
<1>4. Extends(ledger, es, n)
  BY <1>3, PostAllAppends DEF LedgerOK
<1>5. ASSUME NEW i \in 1..n
      PROVE  PaysFor(ledger'[Len(ledger) + i], order[i], allocations[order[i]].net)
  <2>1. ledger'[Len(ledger) + i] = [es[i] EXCEPT !.day = day] /\ es[i] \in Entry
    BY <1>3, <1>4 DEF Extends, Batch
  <2>2. PaysFor(es[i], order[i], allocations[order[i]].net)
    BY <1>2
  <2> QED
    BY <2>1, <2>2, DatedEntry DEF PaysFor
<1> QED
  BY <1>4, <1>5 DEF Extends, PaysEach

LEMMA BatchTurns ==
    ASSUME LedgerOK, NEW order, NEW n, PaysEach(order, n)
    PROVE  /\ Turns({}) /\ Added = (Len(ledger) + 1)..(Len(ledger) + n)
           /\ \A t : t # DividendType => Spares(t)
<1>1. /\ ledger' \in Seq(Entry) /\ n \in Nat /\ DOMAIN ledger' = 1..(Len(ledger) + n)
      /\ \A i \in 1..Len(ledger) : ledger'[i] = ledger[i]
  BY DEF PaysEach
<1>2. Len(ledger) \in Nat /\ EntryNumbers = 1..Len(ledger) /\ DOMAIN ledger = 1..Len(ledger)
  BY DayNumber, LenProperties DEF LedgerOK
<1>3. Turns({})
  BY <1>1, <1>2 DEF Turns
<1>4. Added = (Len(ledger) + 1)..(Len(ledger) + n)
  BY <1>1, <1>2 DEF Added
<1>5. ASSUME NEW j \in Added PROVE ledger'[j].type = DividendType
  <2> DEFINE i == j - Len(ledger)
  <2>1. i \in 1..n /\ j = Len(ledger) + i
    BY <1>1, <1>2, <1>4
  <2> HIDE DEF i
  <2>2. PaysFor(ledger'[Len(ledger) + i], order[i], allocations[order[i]].net)
    BY <2>1 DEF PaysEach
  <2> QED
    BY <2>1, <2>2 DEF PaysFor
<1>6. \A t : t # DividendType => Spares(t)
  BY <1>3, <1>5 DEF Spares
<1> QED
  BY <1>3, <1>4, <1>6

\* Each allocation of the batch names its entry, the others are as they were.
MarksPaid(bs, batch, order, n) ==
    /\ DOMAIN bs = DOMAIN allocations
    /\ \A j \in DOMAIN allocations : j \notin batch => bs[j] = allocations[j]
    /\ \A i \in 1..n : /\ bs[order[i]].entry = Len(ledger) + i
                       /\ bs[order[i]].net = allocations[order[i]].net

LEMMA BatchSettles ==
    ASSUME LedgerOK, DividendsInv, NEW batch, batch \subseteq DOMAIN allocations,
           \A j \in batch : allocations[j].entry = 0,
           NEW order, NEW n, n = Cardinality(batch), Enumerates(order, batch), PaysEach(order, n),
           NEW bs, MarksPaid(bs, batch, order, n)
    PROVE  Settled(ledger', DividendType, DividendClaims(bs))
<1> DEFINE c == DividendClaims(allocations)
           e == DividendClaims(bs)
           t == DividendType
           m == Len(ledger)
<1>1. /\ DOMAIN c = DOMAIN allocations
      /\ \A j \in DOMAIN allocations : c[j].txn = allocations[j].entry /\ c[j].n = allocations[j].net
  BY DEF DividendClaims
<1>2. /\ DOMAIN e = DOMAIN bs
      /\ \A j \in DOMAIN bs : e[j].txn = bs[j].entry /\ e[j].n = bs[j].net
  BY DEF DividendClaims
<1>3. Settled(ledger, t, c)
  BY DEF DividendsInv
<1>4. Turns({}) /\ Added = (m + 1)..(m + n)
  BY BatchTurns
<1>5. m \in Nat /\ n \in Nat
  BY DayNumber DEF PaysEach
<1>6. \A i \in 1..n : PaysFor(ledger'[m + i], order[i], allocations[order[i]].net)
  BY DEF PaysEach
<1>7. /\ DOMAIN bs = DOMAIN allocations
      /\ \A j \in DOMAIN allocations : j \notin batch => bs[j] = allocations[j]
      /\ \A i \in 1..n : /\ bs[order[i]].entry = m + i
                         /\ bs[order[i]].net = allocations[order[i]].net
  BY DEF MarksPaid
<1>8. /\ \A i \in 1..n : order[i] \in batch
      /\ \A j \in batch : \E i \in 1..n : order[i] = j
      /\ \A i, h \in 1..n : order[i] = order[h] => i = h
  BY DEF Enumerates
<1> HIDE DEF c, e, t, m
<1>9. \A j \in Added : \E i \in 1..n : j = m + i
  <2> SUFFICES ASSUME NEW j \in Added PROVE \E i \in 1..n : j = m + i
    OBVIOUS
  <2>1. j - m \in 1..n /\ j = m + (j - m)
    BY <1>4, <1>5
  <2> QED
    BY <2>1
<1>10. \A i \in 1..n : /\ ledger'[m + i].type = t /\ ledger'[m + i].about = order[i]
                       /\ ledger'[m + i].amount = allocations[order[i]].net /\ ledger'[m + i].posted
                       /\ m + i \in Added /\ m + i # 0
  BY <1>4, <1>5, <1>6 DEF PaysFor, t
<1>11. ASSUME NEW d \in DOMAIN e PROVE Follows({}, t, c, e, d)
  <2>1. d \in DOMAIN allocations /\ d \in DOMAIN bs /\ d \in DOMAIN c
    BY <1>1, <1>2, <1>7
  <2>2. ASSUME d \in batch PROVE Follows({}, t, c, e, d)
    <3>1. PICK i \in 1..n : order[i] = d
      BY <1>8, <2>2
    <3> DEFINE x == m + i
    <3>2. \A j \in NewFor(t, d) : j = x
      <4> SUFFICES ASSUME NEW j \in NewFor(t, d) PROVE j = x
        OBVIOUS
      <4>1. PICK h \in 1..n : j = m + h
        BY <1>9 DEF NewFor
      <4>2. order[h] = d
        BY <1>10, <4>1 DEF NewFor
      <4>3. h = i
        BY <1>8, <3>1, <4>2
      <4> QED
        BY <4>1, <4>3
    <3>3. /\ x \in Added /\ x # 0 /\ ledger'[x].type = t /\ ledger'[x].about = d
          /\ ledger'[x].posted /\ ledger'[x].amount = allocations[d].net
      BY <1>10, <3>1
    <3>4. bs[d].entry = x /\ bs[d].net = allocations[d].net
      BY <1>7, <3>1
    <3> HIDE DEF x
    <3>5. NewFor(t, d) = {x}
      BY <3>2, <3>3 DEF NewFor
    <3>6. e[d].txn = x /\ e[d].n = allocations[d].net
      BY <1>2, <2>1, <3>4
    <3>7. c[d].txn = 0
      BY <1>1, <2>1, <2>2
    <3> QED
      BY <2>1, <3>3, <3>5, <3>6, <3>7 DEF Follows
  <2>3. ASSUME d \notin batch PROVE Follows({}, t, c, e, d)
    <3>1. NewFor(t, d) = {}
      <4> SUFFICES ASSUME NEW j \in NewFor(t, d) PROVE FALSE
        OBVIOUS
      <4>1. PICK h \in 1..n : j = m + h
        BY <1>9 DEF NewFor
      <4>2. order[h] = d
        BY <1>10, <4>1 DEF NewFor
      <4> QED
        BY <1>8, <2>3, <4>2
    <3>2. e[d].txn = c[d].txn /\ e[d].n = c[d].n
      BY <1>1, <1>2, <1>7, <2>1, <2>3
    <3> QED
      BY <2>1, <3>1, <3>2 DEF Follows
  <2> QED
    BY <2>2, <2>3
<1>12. \A j \in Added : ledger'[j].about \in DOMAIN e
  BY <1>2, <1>7, <1>8, <1>9, <1>10
<1>13. DOMAIN c \subseteq DOMAIN e
  BY <1>1, <1>2, <1>7
<1>14. Settled(ledger', t, e)
  BY <1>3, <1>4, <1>11, <1>12, <1>13, SettledStep
<1> QED
  BY <1>14 DEF t, e

\* Two parts of the allocations together.
NetAdds(as, S, T) ==
    /\ NetOver(as, S \cup T) = NetOver(as, S) + NetOver(as, T)
    /\ Cardinality(S \cup T) = Cardinality(S) + Cardinality(T)

LEMMA NetTogether ==
    ASSUME NEW as \in Seq(Allocation), NEW S, S \subseteq DOMAIN as, NEW T, T \subseteq DOMAIN as,
           S \cap T = {}
    PROVE  NetAdds(as, S, T)
<1> DEFINE w == [j \in DOMAIN as |-> as[j].net]
           U == S \cup T
<1>1. U \subseteq DOMAIN as
  OBVIOUS
<1>2. /\ IsFiniteSet(S) /\ IsFiniteSet(T) /\ IsFiniteSet(U)
      /\ NetOver(as, S) = Total(w, S) /\ NetOver(as, T) = Total(w, T) /\ NetOver(as, U) = Total(w, U)
      /\ NetOver(as, S) \in Nat /\ NetOver(as, T) \in Nat /\ NetOver(as, U) \in Nat
      /\ Cardinality(S) \in Nat /\ Cardinality(T) \in Nat
      /\ \A j \in U : as[j].net \in Nat
  BY <1>1, SomeAllocations
<1>3. Weighs(w, U)
  <2>1. \A j \in U : w[j] \in Nat
    BY <1>1, <1>2
  <2> HIDE DEF w
  <2> QED
    BY <1>2, <2>1 DEF Weighs
<1> HIDE DEF w
<1>4. Total(w, U \ T) = Total(w, U) - Total(w, T)
  BY <1>3, TotalWithout
<1>5. U \ T = S
  OBVIOUS
<1>6. Cardinality(U) = Cardinality(S) + Cardinality(T)
  <2>1. Cardinality(U) = Cardinality(S) + Cardinality(T) - Cardinality(S \cap T)
    BY <1>2, FS_Union
  <2>2. Cardinality(S \cap T) = 0
    BY FS_EmptySet
  <2> HIDE DEF U
  <2> QED
    BY <1>2, <2>1, <2>2
<1> HIDE DEF U
<1>7. NetOver(as, U) = NetOver(as, S) + NetOver(as, T)
  <2>1. Total(w, S) = Total(w, U) - Total(w, T)
    BY <1>4, <1>5
  <2> QED
    BY <1>2, <2>1
<1> QED
  BY <1>6, <1>7 DEF U, NetAdds

\* What a change of payments of k keeps of the shape of the dividends.
LEMMA PaymentsShape ==
    ASSUME DividendsInv, NEW k \in DOMAIN dividends, NEW d, DividendMoves(k, d),
           NEW bs, OnlyEntries(allocations, bs), allocations' = bs,
           \A j \in DOMAIN bs : bs[j].entry # 0 => bs[j].current /\ bs[j].net > 0,
           \A j \in DOMAIN bs : allocations[j].dividend # k => bs[j] = allocations[j],
           shareTxns' = shareTxns
    PROVE  DividendsShape' /\ OnlyDividend(k)
<1>1. /\ dividends' \in Seq(Dividend) /\ Len(dividends') = Len(dividends)
      /\ DOMAIN dividends' = DOMAIN dividends
      /\ dividends'[k] = d /\ \A i \in DOMAIN dividends : i # k => dividends'[i] = dividends[i]
  BY DEF DividendMoves
<1>2. bs \in Seq(Allocation) /\ DOMAIN bs = DOMAIN allocations
  BY DEF OnlyEntries
<1>3. \A j \in DOMAIN bs : bs[j].dividend \in DOMAIN dividends'
  BY <1>1 DEF OnlyEntries, DividendsInv, DividendsShape
<1>4. Len(dividends') <= MaxDividends
  BY <1>1 DEF DividendsInv, DividendsShape
<1>5. DividendsShape'
  BY <1>1, <1>2, <1>3, <1>4 DEF DividendsShape
<1>6. ASSUME NEW i \in DOMAIN dividends, i # k PROVE AllocationsKept(allocations, bs, i)
  <2>1. CurrentOf(bs, i) = CurrentOf(allocations, i)
    BY OnlyEntriesKeep
  <2>2. \A j \in CurrentOf(allocations, i) : j \in DOMAIN bs /\ allocations[j].dividend # k
    BY <1>2, <1>6 DEF CurrentOf
  <2>3. \A j \in CurrentOf(allocations, i) : bs[j] = allocations[j]
    BY <2>2
  <2> QED
    BY <2>1, <2>3 DEF AllocationsKept
<1>7. OnlyDividend(k)
  BY <1>1, <1>6 DEF OnlyDividend
<1> QED
  BY <1>5, <1>7

\* Paying a batch.
LEMMA BatchCounts ==
    ASSUME DividendsInv, NEW k \in DOMAIN dividends, NEW batch, batch \subseteq StillUnpaid(k),
           NEW bs, OnlyEntries(allocations, bs),
           \A j \in batch : bs[j].entry # 0,
           \A j \in DOMAIN allocations : j \notin batch => bs[j].entry = allocations[j].entry
    PROVE  PaymentCounts(dividends[k], k, Cardinality(batch), NetOfAll(batch), allocations, bs)
<1> DEFINE as == allocations
           P == PaidOf(as, k)
           Q == PaidOf(bs, k)
<1>1. /\ as \in Seq(Allocation)
      /\ \A j \in DOMAIN as : as[j].entry # 0 => as[j].current /\ as[j].net > 0
  BY DEF DividendsInv, DividendsShape
<1>2. /\ CurrentOf(bs, k) = CurrentOf(as, k) /\ OwedOf(bs, k) = OwedOf(as, k)
      /\ CurrentOf(as, k) \subseteq DOMAIN as /\ P \subseteq DOMAIN as
      /\ \A S : S \subseteq DOMAIN as => NetOver(bs, S) = NetOver(as, S)
  BY OnlyEntriesKeep
<1>3. \A j \in batch : j \in CurrentOf(as, k) /\ as[j].net > 0 /\ as[j].entry = 0
  BY DEF StillUnpaid, PaysOut, Current, CurrentOf
<1>4. batch \subseteq DOMAIN as /\ P \cap batch = {}
  BY <1>2, <1>3 DEF PaidOf
<1>5. Q = P \cup batch
  <2>1. \A j \in CurrentOf(as, k) : bs[j].entry # 0 <=> as[j].entry # 0 \/ j \in batch
    BY <1>2
  <2> QED
    BY <1>2, <1>3, <2>1 DEF PaidOf
<1>6. Q \subseteq OwedOf(bs, k)
  <2>1. P \subseteq OwedOf(as, k)
    BY <1>1, <1>2 DEF PaidOf, OwedOf
  <2>2. batch \subseteq OwedOf(as, k)
    BY <1>3 DEF OwedOf
  <2> HIDE DEF P, Q
  <2> QED
    BY <1>2, <1>5, <2>1, <2>2
<1>7. CountsAre(dividends[k], as, k)
  BY DEF DividendsInv
<1>8. dividends[k].paidCount = Cardinality(P) /\ dividends[k].paid = NetOver(as, P)
  BY <1>7 DEF CountsAre
<1>9. NetOfAll(batch) = NetOver(as, batch)
  BY DEF NetOfAll, NetOver
<1> HIDE DEF as, P, Q
<1>10. /\ NetOver(as, P \cup batch) = NetOver(as, P) + NetOver(as, batch)
       /\ Cardinality(P \cup batch) = Cardinality(P) + Cardinality(batch)
  <2>1. as \in Seq(Allocation)
    BY <1>1
  <2>2. P \subseteq DOMAIN as /\ batch \subseteq DOMAIN as /\ P \cap batch = {}
    BY <1>2, <1>4
  <2>3. NetAdds(as, P, batch)
    BY <2>1, <2>2, NetTogether
  <2> QED
    BY <2>3 DEF NetAdds
<1>11. NetOver(bs, Q) = NetOver(as, P \cup batch)
  BY <1>2, <1>4, <1>5
<1>12. /\ dividends[k].paidCount + Cardinality(batch) = Cardinality(Q)
       /\ dividends[k].paid + NetOfAll(batch) = NetOver(bs, Q)
  BY <1>5, <1>8, <1>9, <1>10, <1>11
<1> QED
  BY <1>6, <1>12 DEF PaymentCounts, as, Q

LEMMA DividendBatchPaid ==
    ASSUME LedgerOK, DividendsInv, NEW k \in DOMAIN dividends, NEW r \in PaymentIds,
           NEW a \in AccountIds, NEW batch, PayDividend(r, k, batch, a)
    PROVE  /\ DividendsInv' /\ LedgerOK' /\ UNCHANGED shareVars /\ day' = day
           /\ \A t : t # DividendType => Spares(t)
<1> DEFINE as == allocations
           order == SetToSeq(batch)
           es == [i \in DOMAIN order |->
                     [NewEntry("dividend_payment", as[order[i]].net, a, None) EXCEPT !.about = order[i]]]
           bs == [j \in DOMAIN as |-> IF j \notin batch THEN as[j]
                     ELSE [as[j] EXCEPT !.entry = Len(ledger) + CHOOSE i \in DOMAIN order : order[i] = j]]
           n == Cardinality(batch)
<1>1. /\ batch \subseteq StillUnpaid(k) /\ PostAll(ledger, es)
      /\ DividendPaid(k, n, NetOfAll(batch)) /\ day' = day /\ UNCHANGED shareVars
      /\ dividends[k].status # "cancelled"
  BY DEF PayDividend
<1>2. allocations' = bs
  BY DEF PayDividend
<1>3. shareTxns' = shareTxns
  BY <1>1 DEF shareVars
<1>4. /\ as \in Seq(Allocation) /\ DOMAIN bs = DOMAIN as
      /\ \A j \in DOMAIN as : as[j].entry # 0 => as[j].current /\ as[j].net > 0
  BY DEF DividendsInv, DividendsShape
<1>5. \A j \in batch : /\ j \in DOMAIN as /\ as[j].dividend = k /\ as[j].current
                       /\ as[j].net > 0 /\ as[j].entry = 0
  BY <1>1 DEF StillUnpaid, PaysOut, Current
<1>6. \A j \in DOMAIN as : as[j] \in Allocation /\ j \in Nat
  BY <1>4, OneOf
<1>7. IsFiniteSet(batch) /\ n \in Nat /\ NetOfAll(batch) \in Nat /\ batch \subseteq DOMAIN as
  <2>1. batch \subseteq DOMAIN as
    BY <1>5
  <2>2. NetOfAll(batch) = NetOver(as, batch)
    BY DEF NetOfAll, NetOver
  <2> HIDE DEF as
  <2> QED
    BY <1>4, <2>1, <2>2, SomeAllocations
<1>8. Enumerates(order, batch)
  BY <1>7, SetListed
<1>9. /\ DOMAIN order = 1..n
      /\ \A i \in 1..n : order[i] \in batch
      /\ \A j \in batch : \E i \in 1..n : order[i] = j
      /\ \A i, h \in 1..n : order[i] = order[h] => i = h
  BY <1>8 DEF Enumerates
<1>10. Len(ledger) \in Nat
  BY DayNumber
<1> HIDE DEF n, order
<1>11. PaysEach(order, n)
  <2>1. \A j \in batch : j \in Nat /\ allocations[j].net \in Amount
    <3> SUFFICES ASSUME NEW j \in batch PROVE j \in Nat /\ allocations[j].net \in Amount
      OBVIOUS
    <3>1. as[j] \in Allocation /\ j \in Nat /\ as[j].net > 0
      BY <1>5, <1>6
    <3> QED
      BY <3>1 DEF Allocation, Amount
  <2>2. DOMAIN es = 1..n
    BY <1>9
  <2>3. \A i \in 1..n : es[i] = [NewEntry("dividend_payment", allocations[order[i]].net, a, None)
                                    EXCEPT !.about = order[i]]
    BY <1>9
  <2>4. n = Cardinality(batch)
    BY DEF n
  <2>5. PostAll(ledger, es)
    BY <1>1
  <2> HIDE DEF es
  <2> QED
    BY <1>7, <1>8, <2>1, <2>2, <2>3, <2>4, <2>5, BatchPays
<1>12. \A i \in 1..n : bs[order[i]].entry = Len(ledger) + i
  <2> SUFFICES ASSUME NEW i \in 1..n PROVE bs[order[i]].entry = Len(ledger) + i
    OBVIOUS
  <2> DEFINE j == order[i]
  <2>1. j \in batch /\ j \in DOMAIN as /\ as[j] \in Allocation
    BY <1>5, <1>6, <1>9
  <2>2. (CHOOSE h \in DOMAIN order : order[h] = j) = i
    BY <1>9
  <2>3. bs[j] = [as[j] EXCEPT !.entry = Len(ledger) + i]
    BY <2>1, <2>2
  <2> HIDE DEF j
  <2>4. bs[j].entry = Len(ledger) + i
    BY <2>1, <2>3 DEF Allocation
  <2> QED
    BY <2>4 DEF j
<1>13. \A j \in DOMAIN as : j \notin batch => bs[j] = as[j]
  OBVIOUS
<1>14. \A j \in batch : /\ bs[j].entry \in Nat /\ bs[j].entry # 0
                        /\ bs[j] = [as[j] EXCEPT !.entry = bs[j].entry]
  <2> SUFFICES ASSUME NEW j \in batch
               PROVE  /\ bs[j].entry \in Nat /\ bs[j].entry # 0
                      /\ bs[j] = [as[j] EXCEPT !.entry = bs[j].entry]
    OBVIOUS
  <2>1. PICK i \in 1..n : order[i] = j
    BY <1>9
  <2>2. bs[j].entry \in Nat /\ bs[j].entry # 0
    <3>1. bs[j].entry = Len(ledger) + i
      BY <1>12, <2>1
    <3>2. Len(ledger) + i \in Nat /\ Len(ledger) + i # 0
      BY <1>7, <1>10
    <3> QED
      BY <3>1, <3>2
  <2> DEFINE x == Len(ledger) + CHOOSE h \in DOMAIN order : order[h] = j
  <2>3. bs[j] = [as[j] EXCEPT !.entry = x] /\ as[j] \in Allocation
    BY <1>5, <1>6
  <2> HIDE DEF x, bs
  <2>4. bs[j].entry = x
    BY <2>3 DEF Allocation
  <2> QED
    BY <2>2, <2>3, <2>4
<1> HIDE DEF bs
<1>15. /\ \A j \in DOMAIN as : bs[j] \in Allocation
       /\ \A j \in DOMAIN as : /\ bs[j].dividend = as[j].dividend /\ bs[j].holder = as[j].holder
                               /\ bs[j].shares = as[j].shares /\ bs[j].net = as[j].net
                               /\ bs[j].current = as[j].current
  <2> SUFFICES ASSUME NEW j \in DOMAIN as
               PROVE  /\ bs[j] \in Allocation
                      /\ bs[j].dividend = as[j].dividend /\ bs[j].holder = as[j].holder
                      /\ bs[j].shares = as[j].shares /\ bs[j].net = as[j].net
                      /\ bs[j].current = as[j].current
    OBVIOUS
  <2>1. as[j] \in Allocation
    BY <1>6
  <2>2. CASE j \notin batch
    BY <1>13, <2>1, <2>2
  <2>3. CASE j \in batch
    <3>1. PICK x \in Nat : bs[j] = [as[j] EXCEPT !.entry = x]
      BY <1>14, <2>3
    <3> QED
      BY <2>1, <3>1 DEF Allocation
  <2> QED
    BY <2>2, <2>3
<1>16. OnlyEntries(as, bs)
  <2>1. bs \in Seq(Allocation)
    <3>1. Len(as) \in Nat /\ DOMAIN as = 1..Len(as)
      BY <1>4, LenProperties
    <3>2. bs \in [1..Len(as) -> Allocation]
      BY <1>4, <1>15, <3>1 DEF bs
    <3> HIDE DEF as
    <3> QED
      BY <3>1, <3>2, SeqDef
  <2> HIDE DEF as
  <2> QED
    BY <1>4, <1>15, <2>1 DEF OnlyEntries
<1>17. MarksPaid(bs, batch, order, n)
  BY <1>4, <1>9, <1>12, <1>13, <1>15, <1>5 DEF MarksPaid
<1>18. Settled(ledger', DividendType, DividendClaims(bs))
  BY <1>5, <1>7, <1>8, <1>11, <1>17, BatchSettles DEF n
<1>19. PaymentCounts(dividends[k], k, n, NetOfAll(batch), as, bs)
  BY <1>1, <1>13, <1>14, <1>16, BatchCounts DEF n
<1>20. PICK d : /\ DividendMoves(k, d) /\ CountsAre(d, bs, k) /\ PoolIs(d, bs, k)
                /\ SnapshotIs(shareTxns, d, bs, k)
  BY <1>1, <1>7, <1>19, PaymentCounted
<1>21. DividendsShape' /\ OnlyDividend(k)
  <2>1. \A j \in DOMAIN bs : bs[j].entry # 0 => bs[j].current /\ bs[j].net > 0
    BY <1>4, <1>5, <1>13, <1>15
  <2>2. \A j \in DOMAIN bs : allocations[j].dividend # k => bs[j] = allocations[j]
    BY <1>4, <1>5, <1>13
  <2> QED
    BY <1>2, <1>3, <1>16, <1>20, <2>1, <2>2, PaymentsShape
<1>22. dividends'[k] = d
  BY <1>20 DEF DividendMoves
<1>23. DividendsInv'
  BY <1>2, <1>18, <1>20, <1>21, <1>22, DividendChanged
<1>24. Turns({}) /\ \A t : t # DividendType => Spares(t)
  BY <1>11, BatchTurns
<1>25. LedgerOK'
  BY <1>1, <1>24, TurnsKeeps DEF LedgerOK
<1> QED
  BY <1>1, <1>23, <1>24, <1>25

\* Taking a payment back.
LEMMA DividendPaymentReversed ==
    ASSUME LedgerOK, DividendsInv, NEW j \in DOMAIN allocations, ReverseDividendPayment(j)
    PROVE  /\ DividendsInv' /\ LedgerOK' /\ UNCHANGED shareVars /\ day' = day
           /\ \A t : t \notin {DividendType, "reversal"} => Spares(t)
<1> DEFINE as == allocations
           i == as[j].entry
           k == as[j].dividend
           bs == [as EXCEPT ![j] = [as[j] EXCEPT !.entry = 0]]
           c == DividendClaims(as)
           e == DividendClaims(bs)
           count == -1
           n == -as[j].net
<1>1. i # 0 /\ ReverseEntry(i) /\ DividendPaid(k, count, n) /\ UNCHANGED shareVars
  BY DEF ReverseDividendPayment
<1>2. allocations' = [allocations EXCEPT ![j].entry = 0]
  BY DEF ReverseDividendPayment
<1>3. day' = day /\ shareTxns' = shareTxns
  BY <1>1 DEF ReverseEntry, shareVars
<1>4. /\ as \in Seq(Allocation) /\ k \in DOMAIN dividends
      /\ \A x \in DOMAIN as : as[x].entry # 0 => as[x].current /\ as[x].net > 0
  BY DEF DividendsInv, DividendsShape
<1>5. as[j] \in Allocation
  BY <1>4, OneOf
<1>6. allocations' = bs
  BY <1>2, <1>5 DEF Allocation
<1>7. DOMAIN c = DOMAIN as /\ \A x \in DOMAIN as : c[x].txn = as[x].entry /\ c[x].n = as[x].net
  BY DEF DividendClaims
<1>8. Settled(ledger, DividendType, c)
  BY DEF DividendsInv
<1>9. LiveIn(ledger, DividendType, j) = {i}
  <2> HIDE DEF c
  <2>1. j \in DOMAIN c /\ c[j].txn = i
    BY <1>7
  <2> QED
    BY <1>1, <1>8, <2>1 DEF Settled
<1>10. i \in EntryNumbers /\ ledger[i].type = DividendType /\ ledger[i].about = j
  BY <1>9 DEF LiveIn, EntryNumbers
<1>11. Unbooks({i}) /\ LedgerOK'
  BY <1>1, <1>10, EntryUnbooks
<1>12. [as[j] EXCEPT !.entry = 0] \in Allocation
  BY <1>5 DEF Allocation
<1>13. /\ bs \in Seq(Allocation) /\ DOMAIN bs = DOMAIN as
       /\ bs[j] = [as[j] EXCEPT !.entry = 0] /\ \A x \in DOMAIN as : x # j => bs[x] = as[x]
  BY <1>4, <1>12, OneEdited
<1>14. /\ bs[j].entry = 0 /\ bs[j].dividend = k /\ bs[j].holder = as[j].holder
       /\ bs[j].shares = as[j].shares /\ bs[j].net = as[j].net /\ bs[j].current = as[j].current
  <2> HIDE DEF bs
  <2> QED
    BY <1>5, <1>13 DEF Allocation
<1>15. DOMAIN e = DOMAIN bs /\ \A x \in DOMAIN bs : e[x].txn = bs[x].entry /\ e[x].n = bs[x].net
  BY DEF DividendClaims
<1> HIDE DEF bs
<1>16. OnlyEntries(as, bs)
  <2>1. \A x \in DOMAIN as : /\ bs[x].dividend = as[x].dividend /\ bs[x].holder = as[x].holder
                             /\ bs[x].shares = as[x].shares /\ bs[x].net = as[x].net
                             /\ bs[x].current = as[x].current
    BY <1>13, <1>14
  <2> HIDE DEF as
  <2> QED
    BY <1>13, <2>1 DEF OnlyEntries
<1> HIDE DEF c, e
<1>17. Settled(ledger', DividendType, e)
  <2>1. DividendType # "reversal"
    BY DEF DividendType
  <2>2. DOMAIN e = DOMAIN c /\ e[j].txn = 0 /\ j \in DOMAIN c
    BY <1>7, <1>13, <1>14, <1>15
  <2>3. \A x \in DOMAIN c \ {j} : e[x].txn = c[x].txn /\ (c[x].txn # 0 => e[x].n = c[x].n)
    BY <1>7, <1>13, <1>15
  <2> HIDE DEF i
  <2> QED
    BY <1>8, <1>10, <1>11, <2>1, <2>2, <2>3, SettledUnpaid
<1>18. PaidOf(as, k) = PaidOf(bs, k) \cup {j} /\ j \notin PaidOf(bs, k)
  <2>1. CurrentOf(bs, k) = CurrentOf(as, k)
    BY <1>16, OnlyEntriesKeep
  <2>2. j \in CurrentOf(as, k)
    BY <1>1, <1>4 DEF CurrentOf
  <2>3. \A x \in CurrentOf(as, k) : bs[x].entry # 0 <=> as[x].entry # 0 /\ x # j
    BY <1>13, <1>14 DEF CurrentOf
  <2> QED
    BY <1>1, <2>1, <2>2, <2>3 DEF PaidOf
<1>19. PaidOf(bs, k) \subseteq OwedOf(bs, k)
  <2>1. \A x \in DOMAIN bs : bs[x].entry # 0 => bs[x].net > 0
    BY <1>4, <1>13, <1>14
  <2>2. \A x \in CurrentOf(bs, k) : x \in DOMAIN bs
    BY DEF CurrentOf
  <2> QED
    BY <2>1, <2>2 DEF PaidOf, OwedOf
<1>20. CountsAre(dividends[k], as, k)
  BY <1>4 DEF DividendsInv
<1>21. PaymentCounts(dividends[k], k, count, n, as, bs)
  <2> DEFINE P == PaidOf(as, k)
             Q == PaidOf(bs, k)
             one == {j}
  <2>1. /\ dividends[k].paidCount = Cardinality(P) /\ dividends[k].paid = NetOver(as, P)
    BY <1>20 DEF CountsAre
  <2>2. /\ P \subseteq DOMAIN as /\ \A S : S \subseteq DOMAIN as => NetOver(bs, S) = NetOver(as, S)
    BY <1>16, OnlyEntriesKeep
  <2>3. P = Q \cup one /\ Q \cap one = {} /\ one \subseteq DOMAIN bs
    BY <1>13, <1>18
  <2> HIDE DEF P, Q
  <2>4. Q \subseteq DOMAIN as /\ Q \subseteq DOMAIN bs
    BY <1>13, <2>2, <2>3
  <2>5. NetAdds(bs, Q, one)
    <3> HIDE DEF one
    <3> QED
      BY <1>13, <2>3, <2>4, NetTogether
  <2>6. Cardinality(one) = 1
    BY FS_Singleton
  <2>7. NetOver(bs, one) = as[j].net
    <3> DEFINE w == [x \in DOMAIN bs |-> bs[x].net]
    <3>1. NetOver(bs, one) = Total(w, one)
      <4> HIDE DEF one
      <4> QED
        BY <1>13, <2>3, SomeAllocations
    <3>2. w[j] = as[j].net
      BY <1>13, <1>14
    <3>3. as[j].net \in Int
      BY <1>5 DEF Allocation
    <3> HIDE DEF w
    <3>4. Total(w, one) = w[j]
      BY <3>2, <3>3, TotalOne
    <3> QED
      BY <3>1, <3>2, <3>4
  <2>8. as[j].net \in Nat
    BY <1>5 DEF Allocation
  <2>9. Cardinality(Q) \in Nat /\ NetOver(bs, Q) \in Nat
    BY <1>13, <2>4, SomeAllocations
  <2>10. NetOver(bs, P) = NetOver(as, P)
    BY <2>2
  <2> HIDE DEF one
  <2>11. /\ Cardinality(P) = Cardinality(Q) + 1
         /\ NetOver(as, P) = NetOver(bs, Q) + as[j].net
    BY <2>3, <2>5, <2>6, <2>7, <2>10 DEF NetAdds
  <2> DEFINE x == as[j].net
             u == Cardinality(Q)
             v == NetOver(bs, Q)
             p == dividends[k].paidCount
             q == dividends[k].paid
  <2>a. x \in Nat /\ u \in Nat /\ v \in Nat /\ p = u + 1 /\ q = v + x /\ n = -x
    BY <2>1, <2>8, <2>9, <2>11
  <2> HIDE DEF x, u, v, p, q, n
  <2>b. p + count = u /\ q + n = v
    BY <2>a
  <2>12. /\ dividends[k].paidCount + count = Cardinality(Q)
         /\ dividends[k].paid + n = NetOver(bs, Q)
    BY <2>b DEF u, v, p, q
  <2> QED
    BY <1>16, <1>19, <2>12 DEF PaymentCounts, Q
<1>22. count \in Int /\ n \in Int
  BY <1>5 DEF Allocation
<1>23. dividends[k].status # "cancelled"
  <2>1. dividends[k].status \in {"partially_paid", "paid"}
    BY <1>18, <1>20 DEF CountsAre
  <2> QED
    BY <2>1
<1> HIDE DEF count, n, k, i
<1>24. PICK d : /\ DividendMoves(k, d) /\ CountsAre(d, bs, k) /\ PoolIs(d, bs, k)
                /\ SnapshotIs(shareTxns, d, bs, k)
  BY <1>1, <1>4, <1>21, <1>22, <1>23, PaymentCounted
<1>25. DividendsShape' /\ OnlyDividend(k)
  <2>1. \A x \in DOMAIN bs : bs[x].entry # 0 => bs[x].current /\ bs[x].net > 0
    BY <1>4, <1>13, <1>14
  <2>2. \A x \in DOMAIN bs : allocations[x].dividend # k => bs[x] = allocations[x]
    BY <1>13 DEF k
  <2> QED
    BY <1>3, <1>4, <1>6, <1>16, <1>24, <2>1, <2>2, PaymentsShape
<1>26. dividends'[k] = d
  BY <1>24 DEF DividendMoves
<1>27. DividendsInv'
  BY <1>6, <1>17, <1>24, <1>25, <1>26, DividendChanged DEF e
<1>28. ASSUME NEW t, t \notin {DividendType, "reversal"} PROVE Spares(t)
  <2>1. \A x \in {i} : ledger[x].type # t
    BY <1>10, <1>28
  <2> QED
    BY <1>11, <1>28, <2>1, UnbooksSpares
<1> QED
  BY <1>1, <1>3, <1>11, <1>27, <1>28

\* What a step of the dividends leaves.
DividendsKept ==
    /\ DividendsInv' /\ LedgerOK' /\ UNCHANGED shareVars /\ day' = day
    /\ \A t : t \notin {DividendType, "reversal"} => Spares(t)

LEMMA DividendPaperwork ==
    ASSUME LedgerOK, DividendsInv', NotDividends
    PROVE  DividendsKept
<1>1. UNCHANGED financeVars /\ UNCHANGED shareVars /\ day' = day
  BY NothingMoves
<1> QED
  BY <1>1, FinanceUnchanged DEF DividendsKept

LEMMA DividendsStepKept ==
    ASSUME LedgerOK, SharesInv, DividendsInv, DividendsStep \/ AmendStep
    PROVE  DividendsKept
<1>1. CASE \E c \in DividendsOf, method \in {"pool", "per_share"}, n \in DividendAmounts,
              record \in Days : CreateDividend(c, method, n, record)
  BY <1>1, DividendCreated, DividendPaperwork DEF CreateDividend
<1>2. ASSUME NEW k \in DOMAIN dividends, CalculateDividend(k) PROVE DividendsKept
  BY <1>2, DividendCalculated, DividendPaperwork DEF CalculateDividend
<1>3. ASSUME NEW k \in DOMAIN dividends, CancelDividend(k) PROVE DividendsKept
  BY <1>3, DividendCancelled, DividendPaperwork DEF CancelDividend
<1>4. ASSUME NEW k \in DOMAIN dividends, NEW action, UpdateDividendStatus(k, action)
      PROVE  DividendsKept
  BY <1>4, DividendStatusKept, DividendPaperwork DEF UpdateDividendStatus
<1>5. ASSUME NEW k \in DOMAIN dividends, NEW r \in PaymentIds, NEW a \in AccountIds, NEW batch,
             PayDividend(r, k, batch, a)
      PROVE  DividendsKept
  BY <1>5, DividendBatchPaid DEF DividendsKept
<1>6. ASSUME NEW j \in DOMAIN allocations, ReverseDividendPayment(j) PROVE DividendsKept
  BY <1>6, DividendPaymentReversed DEF DividendsKept
<1>7. ASSUME NEW k \in DOMAIN dividends, NEW c \in DividendsOf,
             NEW method \in {"pool", "per_share"}, NEW n \in DividendAmounts, NEW record \in Days,
             UpdateDividend(k, c, method, n, record)
      PROVE  DividendsKept
  BY <1>7, DividendAmended, DividendPaperwork DEF UpdateDividend
<1>8. CASE DividendsStep
  BY <1>1, <1>2, <1>3, <1>4, <1>5, <1>6, <1>8 DEF DividendsStep
<1>9. CASE AmendStep
  BY <1>7, <1>9 DEF AmendStep
<1> QED
  BY <1>8, <1>9

-----------------------------------------------------------------------------
(* The ownership desk *)

OwnershipInv == SharesInv /\ DividendsInv

\* What a step of the desk leaves.
OwnershipKept ==
    /\ OwnershipInv' /\ LedgerOK'
    /\ \A t : t \notin OwnershipTypes \cup {"reversal"} => Spares(t)

LEMMA OwnershipDeskTypes ==
    OwnershipTypes = {CapitalType, DividendType} /\ CapitalType # DividendType
BY DEF OwnershipTypes, CapitalType, DividendType

LEMMA OwnershipSays ==
    OwnershipInv => /\ SharesTypeOK /\ DividendsTypeOK /\ CapitalMatchesLedger /\ DividendsMatchLedger
                    /\ HoldingsMatchHistory /\ SnapshotHolds
BY SharesSays, DividendsSay DEF OwnershipInv

LEMMA OwnershipStarts == FinanceInit /\ SharesInit /\ DividendsInit => OwnershipInv
BY SharesStarts, DividendsStart DEF OwnershipInv

LEMMA SharesLeave ==
    ASSUME LedgerOK, OwnershipInv, SharesStep \/ CorrectionStep \/ ContributionStep
    PROVE  OwnershipKept
<1>1. SharesInv /\ DividendsInv /\ RecordDays
  BY DividendsSay DEF OwnershipInv
<1>2. SharesKept
  BY <1>1, ShareRequestsKept, CorrectionsKept, CapitalStepKept
<1>3. SharesInv' /\ CapitalKept /\ RecordsKept
  BY <1>2 DEF SharesKept
<1>4. day' = day /\ UNCHANGED <<dividends, allocations>>
  BY SharesAlone
<1>5. ledger' \in Seq(Entry) /\ \A t : t \notin {CapitalType, "reversal"} => Spares(t)
  BY <1>3 DEF CapitalKept
<1>6. Spares(DividendType)
  BY <1>5 DEF CapitalType, DividendType
<1>7. DividendsInv'
  BY <1>1, <1>3, <1>4, <1>6, DividendsUndisturbed
<1>8. LedgerOK'
  BY <1>4, <1>5 DEF LedgerOK
<1> QED
  BY <1>3, <1>5, <1>7, <1>8, OwnershipDeskTypes DEF OwnershipKept, OwnershipInv

LEMMA HoldingsStayRecorded == shareTxns' = shareTxns => RecordsKept
BY DEF RecordsKept

LEMMA RegisterLeaves ==
    ASSUME LedgerOK, OwnershipInv,
           \/ ClassStep
           \/ RegisterChange
           \/ \E h \in Holders : CreateShareholder(h)
    PROVE  OwnershipKept
<1>1. SharesInv /\ DividendsInv
  BY DEF OwnershipInv
<1>2. SharesInv' /\ RegisterMoves
  BY <1>1, RegisterStep
<1>3. /\ ledger' = ledger /\ day' = day /\ shareTxns' = shareTxns
      /\ UNCHANGED <<dividends, allocations>>
  BY <1>2 DEF RegisterMoves
<1>4. \A t : Spares(t)
  BY <1>3, LedgerStays
<1>5. DividendsInv'
  BY <1>1, <1>3, <1>4, HoldingsStayRecorded, DividendsUndisturbed
<1>6. LedgerOK'
  BY <1>3 DEF LedgerOK
<1> QED
  BY <1>2, <1>4, <1>5, <1>6 DEF OwnershipKept, OwnershipInv

LEMMA DividendsLeave ==
    ASSUME LedgerOK, OwnershipInv, DividendsStep \/ AmendStep
    PROVE  OwnershipKept
<1>1. SharesInv /\ DividendsInv
  BY DEF OwnershipInv
<1>2. DividendsKept
  BY <1>1, DividendsStepKept
<1>3. /\ DividendsInv' /\ LedgerOK' /\ UNCHANGED shareVars /\ day' = day
      /\ \A t : t \notin {DividendType, "reversal"} => Spares(t)
  BY <1>2 DEF DividendsKept
<1>4. Spares(CapitalType)
  BY <1>3 DEF CapitalType, DividendType
<1>5. SharesInv'
  BY <1>1, <1>3, <1>4, SharesUndisturbed
<1> QED
  BY <1>3, <1>5, OwnershipDeskTypes DEF OwnershipKept, OwnershipInv

\* Steps of the other desks, and the next day.
LEMMA OwnershipUndisturbed ==
    ASSUME LedgerOK, OwnershipInv, UNCHANGED ownershipVars,
           \A t \in OwnershipTypes : Spares(t), day' = day \/ NextDay
    PROVE  OwnershipInv'
<1>1. SharesInv /\ DividendsInv
  BY DEF OwnershipInv
<1>2. UNCHANGED shareVars /\ shareTxns' = shareTxns /\ UNCHANGED <<dividends, allocations>>
  BY DEF ownershipVars, shareVars
<1>3. Spares(CapitalType) /\ Spares(DividendType)
  BY OwnershipDeskTypes
<1>4. SharesInv'
  BY <1>1, <1>2, <1>3, SharesUndisturbed, SharesOnward
<1>5. DividendsInv'
  BY <1>1, <1>2, <1>3, HoldingsStayRecorded, DividendsUndisturbed
<1> QED
  BY <1>4, <1>5 DEF OwnershipInv
=============================================================================
