---------------------------- MODULE FinanceProofs ----------------------------
(* Theorems about Finance, for every value of its constants: what an entry   *)
(* is and what it does to the balances (types, cash promised to requests),   *)
(* then the ledger as a whole (append-only, reversals in pairs, the journal  *)
(* it implements) and the summaries of its days.                             *)
EXTENDS Finance, SequenceTheorems, FiniteSetTheorems, TLAPS

-----------------------------------------------------------------------------
(* Sums over finite sets.  SumOver takes an operator, which no lemma can be      *)
(* about; Total sums the values of a function, and a sum over an operator is *)
(* the Total of the function that tabulates it (as in SumOfAmounts below).   *)

Total(w, S) == SumOver(LAMBDA x : w[x], S)

AnyOf(s) == CHOOSE x \in s : TRUE

\* g is the recursive function of subsets of S that the fold defines.
Iterates(w, S, g) ==
    g = [s \in SUBSET S |-> IF s = {} THEN 0 ELSE w[AnyOf(s)] + g[s \ {AnyOf(s)}]]

\* Of some subsets of a finite set there is one with none of the others in it.
LEMMA SmallestSubset ==
    ASSUME NEW S, IsFiniteSet(S), NEW C, C \subseteq SUBSET S, C # {}
    PROVE  \E s \in C : \A t \in C : t \subseteq s => t = s
<1>1. FiniteSubsetsOf(S) = SUBSET S
  BY FS_FiniteSubsetsOfFinite
<1>2. IsWellFoundedOn(StrictSubsetOrdering(S), SUBSET S)
  BY <1>1, FS_StrictSubsetOrderingWellFounded
<1>3. PICK s \in C : \A t \in C : ~(<<t, s>> \in StrictSubsetOrdering(S))
  BY <1>2, WFMin
<1> QED
  BY <1>3 DEF StrictSubsetOrdering

\* Two such functions agree where their weights do.
LEMMA IteratesAgree ==
    ASSUME NEW S, IsFiniteSet(S), NEW T \in SUBSET S, NEW U \in SUBSET S, NEW w, NEW v,
           NEW g, NEW h, Iterates(w, T, g), Iterates(v, U, h),
           \A x \in T \cap U : w[x] = v[x],
           NEW r \in SUBSET T, r \in SUBSET U
    PROVE  g[r] = h[r]
<1> DEFINE C == {s \in SUBSET S : s \subseteq T /\ s \subseteq U /\ g[s] # h[s]}
<1>1. ASSUME C # {} PROVE FALSE
  <2>1. PICK s \in C : \A t \in C : t \subseteq s => t = s
    <3>1. C \subseteq SUBSET S
      OBVIOUS
    <3> HIDE DEF C
    <3> QED
      BY <1>1, <3>1, SmallestSubset
  <2>2. s \in SUBSET T /\ s \in SUBSET U /\ g[s] # h[s]
    BY <2>1
  <2>3. g[s] = IF s = {} THEN 0 ELSE w[AnyOf(s)] + g[s \ {AnyOf(s)}]
    BY <2>2 DEF Iterates
  <2>4. h[s] = IF s = {} THEN 0 ELSE v[AnyOf(s)] + h[s \ {AnyOf(s)}]
    BY <2>2 DEF Iterates
  <2>5. s # {}
    BY <2>2, <2>3, <2>4
  <2>6. AnyOf(s) \in s
    BY <2>5 DEF AnyOf
  <2>7. s \ {AnyOf(s)} \notin C
    BY <2>1, <2>6
  <2>8. g[s \ {AnyOf(s)}] = h[s \ {AnyOf(s)}]
    BY <2>2, <2>7
  <2>9. w[AnyOf(s)] = v[AnyOf(s)]
    BY <2>2, <2>6
  <2> QED
    BY <2>2, <2>3, <2>4, <2>5, <2>8, <2>9
<1> QED
  BY <1>1

\* In particular on a set one of them is a function of.
LEMMA IteratesSame ==
    ASSUME NEW S, IsFiniteSet(S), NEW T \in SUBSET S, NEW w, NEW v, NEW g, NEW h,
           Iterates(w, S, g), Iterates(v, T, h), \A x \in T : w[x] = v[x]
    PROVE  g[T] = h[T]
<1> DEFINE all == S
           part == T
<1>1. /\ all \in SUBSET S /\ part \in SUBSET S /\ part \in SUBSET all /\ part \in SUBSET T
      /\ Iterates(w, all, g) /\ Iterates(v, part, h) /\ all \cap part = T
  OBVIOUS
<1>2. part \in SUBSET part /\ \A x \in all \cap part : w[x] = v[x]
  BY <1>1
<1> HIDE DEF all, part
<1>3. g[part] = h[part]
  BY <1>1, <1>2, IteratesAgree
<1> QED
  BY <1>3 DEF part

\* There is one for every finite set.
LEMMA IteratesExists ==
    ASSUME NEW S, IsFiniteSet(S), NEW w
    PROVE  \E g : Iterates(w, S, g)
<1> DEFINE C == {T \in SUBSET S : ~\E g : Iterates(w, T, g)}
<1>1. ASSUME C # {} PROVE FALSE
  <2>1. PICK T \in C : \A U \in C : U \subseteq T => U = T
    <3>1. C \subseteq SUBSET S
      OBVIOUS
    <3> HIDE DEF C
    <3> QED
      BY <1>1, <3>1, SmallestSubset
  <2>2. T \in SUBSET S /\ ~\E g : Iterates(w, T, g)
    BY <2>1
  <2> DEFINE k(U) == CHOOSE g : Iterates(w, U, g)
             h == [s \in SUBSET T |->
                     IF s # T THEN k(s)[s]
                     ELSE IF T = {} THEN 0
                     ELSE w[AnyOf(T)] + k(T \ {AnyOf(T)})[T \ {AnyOf(T)}]]
  <2>3. ASSUME NEW U \in SUBSET T, U # T PROVE Iterates(w, U, k(U))
    BY <2>1, <2>2, <2>3
  <2> HIDE DEF k
  <2>4. ASSUME NEW s \in SUBSET T
        PROVE  h[s] = IF s = {} THEN 0 ELSE w[AnyOf(s)] + h[s \ {AnyOf(s)}]
    <3>1. s # {} => AnyOf(s) \in s
      BY DEF AnyOf
    <3> DEFINE t == s \ {AnyOf(s)}
    <3>2. CASE s # T
      <4>1. h[s] = k(s)[s]
        BY <3>2
      <4>2. Iterates(w, s, k(s))
        BY <2>3, <3>2
      <4>3. k(s)[s] = IF s = {} THEN 0 ELSE w[AnyOf(s)] + k(s)[t]
        <5>1. s \in SUBSET s
          OBVIOUS
        <5> QED
          BY <4>2, <5>1 DEF Iterates
      <4>4. t \in SUBSET T /\ t # T
        BY <3>2
      <4>5. h[t] = k(t)[t] /\ Iterates(w, t, k(t))
        BY <2>3, <4>4
      <4>6. k(s)[t] = k(t)[t]
        <5>1. s \in SUBSET S /\ t \in SUBSET S /\ t \in SUBSET s /\ t \in SUBSET t
          BY <2>2
        <5> HIDE DEF t
        <5> QED
          BY <4>2, <4>5, <5>1, IteratesAgree
      <4> HIDE DEF h
      <4> QED
        BY <4>1, <4>3, <4>5, <4>6
    <3>3. CASE s = T /\ s # {}
      <4>1. t \in SUBSET T /\ t # T
        BY <3>1, <3>3
      <4>2. h[t] = k(t)[t]
        BY <4>1
      <4>3. h[s] = w[AnyOf(s)] + k(t)[t]
        BY <3>3
      <4> HIDE DEF h
      <4> QED
        BY <3>3, <4>2, <4>3
    <3>4. CASE s = T /\ s = {}
      BY <3>4
    <3> QED
      BY <3>2, <3>3, <3>4
  <2>5. Iterates(w, T, h)
    <3>1. h = [s \in SUBSET T |-> h[s]]
      OBVIOUS
    <3> HIDE DEF h
    <3>2. [s \in SUBSET T |-> h[s]]
            = [s \in SUBSET T |-> IF s = {} THEN 0 ELSE w[AnyOf(s)] + h[s \ {AnyOf(s)}]]
      BY <2>4
    <3> QED
      BY <3>1, <3>2 DEF Iterates
  <2> QED
    BY <2>2, <2>5
<1> QED
  BY <1>1

\* A total is what that function says of the whole set.
LEMMA TotalDef ==
    ASSUME NEW S, IsFiniteSet(S), NEW w
    PROVE  \E g : Iterates(w, S, g) /\ Total(w, S) = g[S]
<1> DEFINE P(g) ==
        g = [s \in SUBSET S |-> IF s = {} THEN 0
                                ELSE LET x == CHOOSE x \in s : TRUE IN w[x] + g[s \ {x}]]
<1>1. Total(w, S) = (CHOOSE g : P(g))[S]
  BY DEF Total, SumOver, MapThenSumSet, MapThenFoldSet
<1>2. ASSUME NEW g PROVE P(g) <=> Iterates(w, S, g)
  BY DEF Iterates, AnyOf
<1> HIDE DEF P
<1>3. \E g : P(g)
  <2>1. PICK g : Iterates(w, S, g)
    BY IteratesExists
  <2> QED
    BY <1>2, <2>1
<1>4. P(CHOOSE g : P(g))
  BY <1>3
<1> QED
  BY <1>1, <1>2, <1>4

\* Totals of weights that agree on the set are the same.
LEMMA TotalSame ==
    ASSUME NEW S, IsFiniteSet(S), NEW w, NEW v, \A x \in S : w[x] = v[x]
    PROVE  Total(w, S) = Total(v, S)
<1>1. PICK g : Iterates(w, S, g) /\ Total(w, S) = g[S]
  BY TotalDef
<1>2. PICK h : Iterates(v, S, h) /\ Total(v, S) = h[S]
  BY TotalDef
<1> QED
  BY <1>1, <1>2, IteratesSame

LEMMA TotalEmpty == ASSUME NEW w PROVE Total(w, {}) = 0
<1>1. PICK g : Iterates(w, {}, g) /\ Total(w, {}) = g[{}]
  BY FS_EmptySet, TotalDef
<1>2. {} \in SUBSET {}
  OBVIOUS
<1> QED
  BY <1>1, <1>2 DEF Iterates

\* The function's values are numbers if the weights are.
LEMMA IteratesType ==
    ASSUME NEW S, IsFiniteSet(S), NEW N, N = Int \/ N = Nat, NEW w, \A x \in S : w[x] \in N,
           NEW g, Iterates(w, S, g), NEW r \in SUBSET S
    PROVE  g[r] \in N
<1> DEFINE C == {s \in SUBSET S : g[s] \notin N}
<1>1. ASSUME C # {} PROVE FALSE
  <2>1. PICK s \in C : \A t \in C : t \subseteq s => t = s
    <3>1. C \subseteq SUBSET S
      OBVIOUS
    <3> HIDE DEF C
    <3> QED
      BY <1>1, <3>1, SmallestSubset
  <2>2. s \in SUBSET S /\ g[s] \notin N
    BY <2>1
  <2>3. g[s] = IF s = {} THEN 0 ELSE w[AnyOf(s)] + g[s \ {AnyOf(s)}]
    BY <2>2 DEF Iterates
  <2>4. s # {}
    BY <2>2, <2>3
  <2>5. AnyOf(s) \in s
    BY <2>4 DEF AnyOf
  <2>6. s \ {AnyOf(s)} \notin C
    BY <2>1, <2>5
  <2>7. g[s \ {AnyOf(s)}] \in N
    BY <2>2, <2>6
  <2>8. w[AnyOf(s)] \in N
    BY <2>2, <2>5
  <2> QED
    BY <2>2, <2>3, <2>4, <2>7, <2>8
<1> QED
  BY <1>1

\* It adds up its weights in any order.
LEMMA IteratesRemoves ==
    ASSUME NEW S, IsFiniteSet(S), NEW w, \A x \in S : w[x] \in Int,
           NEW g, Iterates(w, S, g), NEW r \in SUBSET S, NEW z \in r
    PROVE  g[r] = w[z] + g[r \ {z}]
<1> DEFINE C == {s \in SUBSET S : \E x \in s : g[s] # w[x] + g[s \ {x}]}
<1>1. ASSUME C # {} PROVE FALSE
  <2>1. PICK s \in C : \A t \in C : t \subseteq s => t = s
    <3>1. C \subseteq SUBSET S
      OBVIOUS
    <3> HIDE DEF C
    <3> QED
      BY <1>1, <3>1, SmallestSubset
  <2>2. PICK x \in s : g[s] # w[x] + g[s \ {x}]
    BY <2>1
  <2> DEFINE y == AnyOf(s)
             both == s \ {x, y}
  <2>3. s \in SUBSET S /\ y \in s
    BY <2>1, <2>2 DEF AnyOf
  <2>4. g[s] = w[y] + g[s \ {y}]
    BY <2>3 DEF Iterates
  <2>5. x # y
    BY <2>2, <2>4
  <2> HIDE DEF y
  <2>6. s \ {y} \notin C /\ s \ {x} \notin C
    BY <2>1, <2>2, <2>3
  <2>7. g[s \ {y}] = w[x] + g[both]
    <3>1. s \ {y} \in SUBSET S /\ x \in s \ {y} /\ (s \ {y}) \ {x} = both
      BY <2>2, <2>3, <2>5
    <3> HIDE DEF both
    <3> QED
      BY <2>6, <3>1
  <2>8. g[s \ {x}] = w[y] + g[both]
    <3>1. s \ {x} \in SUBSET S /\ y \in s \ {x} /\ (s \ {x}) \ {y} = both
      BY <2>2, <2>3, <2>5
    <3> HIDE DEF both
    <3> QED
      BY <2>6, <3>1
  <2>9. w[x] \in Int /\ w[y] \in Int /\ g[both] \in Int
    <3>1. both \in SUBSET S
      BY <2>3
    <3> QED
      BY <2>2, <2>3, <3>1, IteratesType
  <2> QED
    BY <2>2, <2>4, <2>7, <2>8, <2>9
<1> QED
  BY <1>1

LEMMA TotalType ==
    ASSUME NEW S, IsFiniteSet(S), NEW N, N = Int \/ N = Nat, NEW w, \A x \in S : w[x] \in N
    PROVE  Total(w, S) \in N
<1>1. PICK g : Iterates(w, S, g) /\ Total(w, S) = g[S]
  BY TotalDef
<1>2. S \in SUBSET S
  OBVIOUS
<1> QED
  BY <1>1, <1>2, IteratesType

\* One element more adds its weight.
LEMMA TotalAdds ==
    ASSUME NEW S, IsFiniteSet(S), NEW w, \A x \in S : w[x] \in Int, NEW z, z \notin S,
           w[z] \in Int
    PROVE  /\ IsFiniteSet(S \cup {z})
           /\ Total(w, S \cup {z}) = Total(w, S) + w[z]
<1> DEFINE T == S \cup {z}
<1>1. IsFiniteSet(T) /\ \A x \in T : w[x] \in Int
  BY FS_AddElement
<1>2. T \ {z} = S /\ z \in T /\ T \in SUBSET T /\ S \in SUBSET T /\ S \in SUBSET S
  OBVIOUS
<1> HIDE DEF T
<1>3. PICK g : Iterates(w, T, g) /\ Total(w, T) = g[T]
  BY <1>1, TotalDef
<1>4. PICK h : Iterates(w, S, h) /\ Total(w, S) = h[S]
  BY TotalDef
<1>5. g[T] = w[z] + g[S]
  BY <1>1, <1>2, <1>3, IteratesRemoves
<1>6. g[S] = h[S]
  BY <1>1, <1>2, <1>3, <1>4, IteratesSame
<1>7. Total(w, S) \in Int
  BY TotalType
<1> QED
  BY <1>1, <1>3, <1>4, <1>5, <1>6, <1>7 DEF T

\* What the documents of a collection l, numbered in S, amount to.
AmountsOf(l, S) == SumOver(LAMBDA i : l[i].amount, S)

\* It is a total.
LEMMA AmountsTotal ==
    ASSUME NEW S, IsFiniteSet(S), NEW l, NEW w, \A x \in S : w[x] = l[x].amount
    PROVE  AmountsOf(l, S) = Total(w, S)
<1> DEFINE P(g) ==
        g = [s \in SUBSET S |-> IF s = {} THEN 0
                                ELSE LET x == CHOOSE x \in s : TRUE IN l[x].amount + g[s \ {x}]]
           v == [x \in S |-> l[x].amount]
<1>1. AmountsOf(l, S) = (CHOOSE g : P(g))[S]
  BY DEF AmountsOf, SumOver, MapThenSumSet, MapThenFoldSet
<1>2. ASSUME NEW g PROVE P(g) <=> Iterates(v, S, g)
  <2>1. \A s \in SUBSET S : s # {} => AnyOf(s) \in s /\ v[AnyOf(s)] = l[AnyOf(s)].amount
    BY DEF AnyOf
  <2> HIDE DEF v
  <2> QED
    BY <2>1 DEF Iterates, AnyOf
<1>3. PICK h : Iterates(v, S, h) /\ Total(v, S) = h[S]
  BY TotalDef
<1> HIDE DEF P
<1>4. P(CHOOSE g : P(g))
  BY <1>2, <1>3
<1>5. Iterates(v, S, CHOOSE g : P(g))
  BY <1>2, <1>4
<1>6. AmountsOf(l, S) = Total(v, S)
  <2> DEFINE f == CHOOSE g : P(g)
  <2>1. \A x \in S : v[x] = v[x]
    OBVIOUS
  <2>2. Iterates(v, S, f)
    BY <1>5
  <2> HIDE DEF f, v
  <2>3. f[S] = h[S]
    BY <1>3, <2>2, IteratesSame
  <2> QED
    BY <1>1, <1>3, <2>3 DEF f
<1>7. \A x \in S : v[x] = w[x]
  OBVIOUS
<1> HIDE DEF v
<1>8. Total(v, S) = Total(w, S)
  BY <1>7, TotalSame
<1> QED
  BY <1>6, <1>8

\* Documents that agree on the amounts amount to the same.
LEMMA AmountsSame ==
    ASSUME NEW S, IsFiniteSet(S), NEW l, NEW m, \A x \in S : l[x].amount = m[x].amount
    PROVE  AmountsOf(l, S) = AmountsOf(m, S)
<1> DEFINE w == [x \in S |-> m[x].amount]
<1>1. \A x \in S : w[x] = l[x].amount /\ w[x] = m[x].amount
  OBVIOUS
<1> HIDE DEF w
<1> QED
  BY <1>1, AmountsTotal

\* None amount to nothing.
LEMMA AmountsEmpty == ASSUME NEW l PROVE AmountsOf(l, {}) = 0
<1>1. AmountsOf(l, {}) = Total(l, {})
  BY FS_EmptySet, AmountsTotal
<1> QED
  BY <1>1, TotalEmpty

LEMMA AmountsType ==
    ASSUME NEW S, IsFiniteSet(S), NEW l, \A x \in S : l[x].amount \in Nat
    PROVE  AmountsOf(l, S) \in Nat
<1> DEFINE w == [x \in S |-> l[x].amount]
<1>1. \A x \in S : w[x] = l[x].amount /\ w[x] \in Nat
  OBVIOUS
<1> HIDE DEF w
<1>2. AmountsOf(l, S) = Total(w, S)
  BY <1>1, AmountsTotal
<1>3. Total(w, S) \in Nat
  BY <1>1, TotalType
<1> QED
  BY <1>2, <1>3

\* One document more adds its amount.
LEMMA AmountsAdd ==
    ASSUME NEW S, IsFiniteSet(S), NEW l, NEW m, NEW z, z \notin S,
           \A x \in S : l[x].amount \in Int, \A x \in S : m[x].amount = l[x].amount,
           m[z].amount \in Int
    PROVE  AmountsOf(m, S \cup {z}) = AmountsOf(l, S) + m[z].amount
<1> DEFINE T == S \cup {z}
           w == [x \in T |-> m[x].amount]
<1>1. /\ \A x \in S : w[x] = l[x].amount /\ w[x] \in Int
      /\ \A x \in T : w[x] = m[x].amount
      /\ w[z] = m[z].amount /\ w[z] \in Int
  OBVIOUS
<1> HIDE DEF w
<1>2. IsFiniteSet(T) /\ Total(w, T) = Total(w, S) + w[z]
  <2>1. \A x \in S : w[x] \in Int
    BY <1>1
  <2>2. w[z] \in Int
    BY <1>1
  <2> QED
    BY <2>1, <2>2, TotalAdds
<1> HIDE DEF T
<1>3. AmountsOf(l, S) = Total(w, S)
  BY <1>1, AmountsTotal
<1>4. AmountsOf(m, T) = Total(w, T)
  BY <1>1, <1>2, AmountsTotal
<1> QED
  BY <1>1, <1>2, <1>3, <1>4 DEF T

\* l and m agree on the documents in S, and m has one more, z.
Growing(l, m, S, z) ==
    /\ IsFiniteSet(S) /\ z \notin S
    /\ \A x \in S : l[x].amount \in Int /\ m[x].amount = l[x].amount
    /\ m[z].amount \in Int

\* The same, its hypotheses under one name: the provers apply it more easily.
LEMMA AmountsGrow ==
    ASSUME NEW S, NEW l, NEW m, NEW z, Growing(l, m, S, z)
    PROVE  AmountsOf(m, S \cup {z}) = AmountsOf(l, S) + m[z].amount
<1>1. /\ IsFiniteSet(S) /\ z \notin S
      /\ \A x \in S : l[x].amount \in Int
      /\ \A x \in S : m[x].amount = l[x].amount
      /\ m[z].amount \in Int
  BY DEF Growing
<1> QED
  BY <1>1, AmountsAdd

\* Documents are numbered from 1, and the one that is added is the last: it may count.
LEMMA AmountsExtended ==
    ASSUME NEW n \in Nat, NEW l, NEW m, \A x \in 1..n : l[x].amount \in Nat,
           \A x \in 1..n : m[x].amount = l[x].amount, m[n + 1].amount \in Nat,
           NEW S \in SUBSET (1..n)
    PROVE  /\ AmountsOf(m, S) = AmountsOf(l, S)
           /\ AmountsOf(m, S \cup {n + 1}) = AmountsOf(l, S) + m[n + 1].amount
           /\ AmountsOf(l, S) \in Nat
<1> DEFINE z == n + 1
<1>1. IsFiniteSet(S) /\ z \notin S
  <2>1. IsFiniteSet(1..n)
    BY FS_Interval
  <2>2. z \notin 1..n
    OBVIOUS
  <2> QED
    BY <2>1, <2>2, FS_Subset
<1>2. \A x \in S : l[x].amount \in Nat
  OBVIOUS
<1>3. \A x \in S : m[x].amount = l[x].amount
  OBVIOUS
<1>4. m[z].amount \in Nat
  OBVIOUS
<1> HIDE DEF z
<1>5. AmountsOf(m, S) = AmountsOf(l, S)
  BY <1>1, <1>3, AmountsSame
<1>6. AmountsOf(m, S \cup {z}) = AmountsOf(l, S) + m[z].amount
  <2>1. /\ \A x \in S : l[x].amount \in Int
        /\ m[z].amount \in Int
    BY <1>2, <1>4
  <2>2. Growing(l, m, S, z)
    BY <1>1, <1>3, <2>1 DEF Growing
  <2> QED
    BY <2>2, AmountsGrow
<1>7. AmountsOf(l, S) \in Nat
  BY <1>1, <1>2, AmountsType
<1> QED
  BY <1>5, <1>6, <1>7 DEF z

\* List m has the n amounts of l and one more.
Lengthens(l, m, n) ==
    /\ n \in Nat
    /\ \A x \in 1..n : l[x].amount \in Nat /\ m[x].amount = l[x].amount
    /\ m[n + 1].amount \in Nat

LEMMA AmountsLengthened ==
    ASSUME NEW n, NEW l, NEW m, Lengthens(l, m, n), NEW S \in SUBSET (1..n)
    PROVE  /\ AmountsOf(m, S) = AmountsOf(l, S)
           /\ AmountsOf(m, S \cup {n + 1}) = AmountsOf(l, S) + m[n + 1].amount
           /\ AmountsOf(l, S) \in Nat
<1>1. n \in Nat
  BY DEF Lengthens
<1>2. \A x \in 1..n : l[x].amount \in Nat
  BY DEF Lengthens
<1>3. \A x \in 1..n : m[x].amount = l[x].amount
  BY DEF Lengthens
<1>4. m[n + 1].amount \in Nat
  BY DEF Lengthens
<1> QED
  BY <1>1, <1>2, <1>3, <1>4, AmountsExtended, Zenon

-----------------------------------------------------------------------------
(* Moving the money of one entry *)

\* Whatever is clamped between zero and a balance is between zero and it.
LEMMA ClampBounds ==
    ASSUME NEW n \in Int, NEW high \in Nat
    PROVE  Clamp(0, n, high) \in Nat /\ Clamp(0, n, high) <= high
BY SMT DEF Clamp

\* One side of an entry leaves a well-shaped account as long as it is affordable.
LEMMA MovedType ==
    ASSUME NEW a \in Account, NEW delta \in Int, NEW e, NEW other,
           a.balance + delta \in Nat
    PROVE  /\ Moved(a, delta, e, other) \in Account
           /\ Moved(a, delta, e, other).balance = a.balance + delta
           /\ Moved(a, delta, e, other).type = a.type
           /\ a.type = "cash" => Moved(a, delta, e, other).awaitingBanking <= a.balance + delta
           /\ a.type # "cash" => Moved(a, delta, e, other).awaitingBanking = a.awaitingBanking
<1> DEFINE after == a.balance + delta
           waiting == IF CountsAsAwaiting(e, other)
                      THEN a.awaitingBanking + delta ELSE a.awaitingBanking
           clamped == IF a.type = "cash" THEN Clamp(0, waiting, after) ELSE a.awaitingBanking
<1>1. a.balance \in Nat /\ a.awaitingBanking \in Nat
  BY DEF Account
<1>2. waiting \in Int
  BY <1>1
<1>3. /\ clamped \in Nat
      /\ a.type = "cash" => clamped <= after
      /\ a.type # "cash" => clamped = a.awaitingBanking
  BY <1>1, <1>2, ClampBounds
<1>4. Moved(a, delta, e, other) = [a EXCEPT !.balance = after, !.awaitingBanking = clamped]
  BY <1>1 DEF Moved, Account
<1> HIDE DEF clamped
<1> QED
  BY <1>3, <1>4 DEF Account

\* Posting an affordable entry keeps every account well-shaped.
LEMMA AfterPostingType ==
    ASSUME NEW accts \in [AccountIds -> Account], NEW e \in Entry,
           WellFormed(e), Affordable(accts, e)
    PROVE  AfterPosting(accts, e) \in [AccountIds -> Account]
<1>1. e.amount \in Nat /\ (e.from # None => accts[e.from].balance >= e.amount)
  BY DEF Entry, Amount, Affordable
<1> SUFFICES ASSUME NEW id \in AccountIds
             PROVE  AfterPosting(accts, e)[id] \in Account
  BY DEF AfterPosting
<1>2. accts[id] \in Account /\ accts[id].balance \in Nat /\ id # None
  BY AccountAssumption DEF Account
<1>3. CASE id = e.from
  <2>1. accts[id].balance + (-e.amount) \in Nat
    BY <1>1, <1>2, <1>3
  <2> QED
    BY <1>1, <1>2, <1>3, <2>1, MovedType DEF AfterPosting
<1>4. CASE id # e.from /\ id = e.to
  <2>1. accts[id].balance + e.amount \in Nat
    BY <1>1, <1>2
  <2> QED
    BY <1>1, <1>2, <1>4, <2>1, MovedType DEF AfterPosting
<1>5. CASE id # e.from /\ id # e.to
  BY <1>2, <1>5 DEF AfterPosting
<1> QED
  BY <1>3, <1>4, <1>5

\* The summary of a day keeps its shape.
LEMMA SummarisedType ==
    ASSUME NEW s \in Summary, NEW e \in Entry
    PROVE  Summarised(s, e) \in Summary
<1> DEFINE payments == IF e.type = "customer_payment"
                       THEN s.payments + e.amount ELSE s.payments
           undone == IF e.type = "reversal" /\ e.reversalOfType = "customer_payment"
                     THEN s.paymentReversals + e.amount ELSE s.paymentReversals
           in == [a \in AccountIds |-> IF a = e.to THEN s.in[a] + e.amount ELSE s.in[a]]
           out == [a \in AccountIds |-> IF a = e.from THEN s.out[a] + e.amount ELSE s.out[a]]
<1>1. e.amount \in Nat
  BY DEF Entry, Amount
<1>2. /\ s.payments \in Nat /\ s.paymentReversals \in Nat
      /\ s.in \in [AccountIds -> Nat] /\ s.out \in [AccountIds -> Nat]
  BY DEF Summary
<1>3. payments \in Nat /\ undone \in Nat
  BY <1>1, <1>2
<1>4. in \in [AccountIds -> Nat] /\ out \in [AccountIds -> Nat]
  BY <1>1, <1>2
<1>5. Summarised(s, e) = [s EXCEPT !.payments = payments, !.paymentReversals = undone,
                                   !.in = in, !.out = out]
  BY DEF Summarised
<1> HIDE DEF payments, undone, in, out
<1> QED
  BY <1>3, <1>4, <1>5 DEF Summary

\* What a step that posts one entry leaves behind.
LEMMA CommitType ==
    ASSUME FinanceTypeOK,
           NEW accts \in [AccountIds -> Account],
           NEW entries \in Seq(Entry),
           NEW e \in Entry,
           Commit(accts, entries, e)
    PROVE  /\ accounts' \in [AccountIds -> Account]
           /\ created' \subseteq AccountIds
           /\ ledger' \in Seq(Entry)
           /\ daily' \in [Days -> Summary]
<1>1. accounts' \in [AccountIds -> Account]
  BY AfterPostingType DEF Commit
<1>2. created' \subseteq AccountIds
  BY DEF Commit, FinanceTypeOK, Entry
<1>3. ledger' \in Seq(Entry)
  <2>1. day \in Nat
    BY BoundAssumption DEF FinanceTypeOK, Days
  <2>2. [e EXCEPT !.day = day] \in Entry
    BY <2>1 DEF Entry
  <2> QED
    BY <2>2 DEF Commit
<1>4. daily' \in [Days -> Summary]
  <2>1. day \in Days /\ daily \in [Days -> Summary]
    BY DEF FinanceTypeOK
  <2>2. Summarised(daily[day], e) \in Summary
    BY <2>1, SummarisedType
  <2> QED
    BY <2>1, <2>2 DEF Commit
<1> QED
  BY <1>1, <1>2, <1>3, <1>4

-----------------------------------------------------------------------------
(* The entries the actions post *)

\* What the actions build from NewEntry is an entry.
LEMMA NewEntryType ==
    ASSUME NEW type \in PostingTypes, NEW amount \in Amount,
           NEW from \in AccountIds \cup {None}, NEW to \in AccountIds \cup {None}
    PROVE  /\ NewEntry(type, amount, from, to) \in Entry
           /\ \A r \in RequestIds \cup {None}, k \in Nat :
                [NewEntry(type, amount, from, to) EXCEPT !.about = k, !.request = r] \in Entry
           /\ \A r \in RequestIds \cup {None} :
                [NewEntry(type, amount, from, to) EXCEPT !.request = r] \in Entry
BY DEF NewEntry, Entry, EntryTypes

\* The mirror of an entry that may be reversed is an entry too.
LEMMA MirrorType ==
    ASSUME NEW e \in Entry, CanReverse(e), NEW i \in Nat
    PROVE  MirrorOf(e, i) \in Entry
BY DEF MirrorOf, NewEntry, Entry, EntryTypes, CanReverse

\* A marked entry is an entry.
LEMMA MarkType ==
    ASSUME NEW e \in Entry, NEW n \in Nat
    PROVE  MarkReversed(e, n) \in Entry
BY DEF MarkReversed, Entry

\* Replacing an element, if it is there, keeps a sequence over a set.
LEMMA ReplaceType ==
    ASSUME NEW S, NEW s \in Seq(S), NEW i, NEW x, i \in DOMAIN s => x \in S
    PROVE  [s EXCEPT ![i] = x] \in Seq(S)
<1>1. CASE i \in DOMAIN s
  BY <1>1, ExceptSeq
<1>2. CASE i \notin DOMAIN s
  <2>1. [s EXCEPT ![i] = x] = s
    BY <1>2
  <2> QED
    BY <2>1
<1> QED
  BY <1>1, <1>2

\* A reversal leaves what a posting leaves.
LEMMA PostReversalType ==
    ASSUME FinanceTypeOK,
           NEW accts \in [AccountIds -> Account],
           NEW i \in DOMAIN ledger,
           PostReversal(accts, i)
    PROVE  /\ accounts' \in [AccountIds -> Account]
           /\ created' \subseteq AccountIds
           /\ ledger' \in Seq(Entry)
           /\ daily' \in [Days -> Summary]
<1>1. ledger \in Seq(Entry) /\ i \in Nat /\ ledger[i] \in Entry /\ NextNumber \in Nat
  BY DEF FinanceTypeOK, NextNumber
<1>2. [ledger EXCEPT ![i] = MarkReversed(ledger[i], NextNumber)] \in Seq(Entry)
  BY <1>1, MarkType, ReplaceType
<1>3. MirrorOf(ledger[i], i) \in Entry
  BY <1>1, MirrorType DEF PostReversal
<1> QED
  BY <1>2, <1>3, CommitType DEF PostReversal

-----------------------------------------------------------------------------
(* Every step keeps the shape of the documents *)

\* The empty database has the right shape.
LEMMA TypeInit == FinanceInit => FinanceTypeOK
<1> SUFFICES ASSUME FinanceInit PROVE FinanceTypeOK
  OBVIOUS
<1>1. accounts \in [AccountIds -> Account]
  BY DEF FinanceInit, NewAccount, DefaultType, Account, AccountTypes
<1>2. /\ created \subseteq AccountIds /\ ledger \in Seq(Entry) /\ deposits \in Seq(Deposit)
      /\ recs \in Seq(Reconciliation) /\ day \in Days /\ listed \subseteq AccountIds
  BY BoundAssumption DEF FinanceInit, Days
<1>3. requests \in [RequestIds -> StoredResult]
  BY DEF FinanceInit, Unused, StoredResult
<1>4. daily \in [Days -> Summary]
  BY DEF FinanceInit, EmptySummary, Summary
<1> QED
  BY <1>1, <1>2, <1>3, <1>4 DEF FinanceTypeOK

\* Customer payments keep the shape.
LEMMA TypePayments == FinanceTypeOK /\ Payments => FinanceTypeOK'
<1> SUFFICES ASSUME FinanceTypeOK,
                    NEW method \in Defaults, NEW n \in Amounts,
                    NEW requested \in AccountIds \cup {None},
                    PostCustomerPayment(method, requested, n)
             PROVE  FinanceTypeOK'
  BY DEF Payments
<1>1. PICK a \in AccountIds : Post(NewEntry("customer_payment", n, None, a))
  BY DEF PostCustomerPayment
<1>2. NewEntry("customer_payment", n, None, a) \in Entry
  BY NewEntryType, BoundAssumption DEF PostingTypes
<1>3. UNCHANGED <<deposits, recs, requests, day, listed>>
  BY DEF PostCustomerPayment
<1>4. accounts \in [AccountIds -> Account] /\ ledger \in Seq(Entry)
  BY DEF FinanceTypeOK
<1>5. /\ accounts' \in [AccountIds -> Account] /\ created' \subseteq AccountIds
      /\ ledger' \in Seq(Entry) /\ daily' \in [Days -> Summary]
  BY <1>1, <1>2, <1>4, CommitType DEF Post
<1> QED
  BY <1>3, <1>5 DEF FinanceTypeOK

\* Reversals keep the shape.
LEMMA TypeReversals == FinanceTypeOK /\ Reversals => FinanceTypeOK'
<1> SUFFICES ASSUME FinanceTypeOK, NEW i \in DOMAIN ledger,
                    ReverseTransaction(i) \/ ReverseCustomerPayment(i)
             PROVE  FinanceTypeOK'
  BY DEF Reversals
<1>1. /\ accounts \in [AccountIds -> Account] /\ deposits \in Seq(Deposit)
      /\ ledger \in Seq(Entry) /\ ledger[i] \in Entry
  BY DEF FinanceTypeOK
<1>2. CASE ReverseCustomerPayment(i)
  BY <1>1, <1>2, PostReversalType DEF ReverseCustomerPayment, FinanceTypeOK
<1>3. CASE ReverseTransaction(i)
  <2>1. Reopened(accounts, ledger[i]) \in [AccountIds -> Account]
    BY <1>1 DEF Reopened, Account
  <2>2. deposits' \in Seq(Deposit)
    <3> DEFINE k == ledger[i].about
               d == [deposits[k] EXCEPT !.status = "reversed"]
    <3>1. k \in DOMAIN deposits => d \in Deposit
      <4>1. k \in DOMAIN deposits => deposits[k] \in Deposit
        BY <1>1
      <4>2. \A x \in Deposit : [x EXCEPT !.status = "reversed"] \in Deposit
        BY DEF Deposit
      <4> QED
        BY <4>1, <4>2
    <3>2. [deposits EXCEPT ![k] = d] \in Seq(Deposit)
      BY <1>1, <3>1, ReplaceType
    <3> QED
      BY <1>1, <1>3, <3>2 DEF ReverseTransaction, DepositsAfterReversing
  <2>3. /\ accounts' \in [AccountIds -> Account] /\ created' \subseteq AccountIds
        /\ ledger' \in Seq(Entry) /\ daily' \in [Days -> Summary]
    <3>1. PostReversal(Reopened(accounts, ledger[i]), i)
      BY <1>3 DEF ReverseTransaction
    <3> QED
      BY <2>1, <3>1, PostReversalType
  <2> QED
    BY <1>3, <2>2, <2>3 DEF ReverseTransaction, FinanceTypeOK
<1> QED
  BY <1>2, <1>3

\* Creating, changing and opening accounts keeps the shape.
LEMMA TypeAccountChanges == FinanceTypeOK /\ AccountChanges => FinanceTypeOK'
<1> SUFFICES ASSUME FinanceTypeOK, AccountChanges PROVE FinanceTypeOK'
  OBVIOUS
<1>1. /\ accounts \in [AccountIds -> Account] /\ created \subseteq AccountIds
      /\ ledger \in Seq(Entry)
  BY DEF FinanceTypeOK
<1>2. ASSUME NEW accts, NEW docs, docs \subseteq AccountIds
      PROVE  ActiveBanks(accts, docs) \subseteq AccountIds
  BY <1>2 DEF ActiveBanks
<1>3. CASE EnsureDefaultAccounts
  <2>1. created' \subseteq AccountIds
    BY <1>1, <1>3 DEF EnsureDefaultAccounts, AccountIds
  <2>2. listed' \subseteq AccountIds
    BY <1>2, <1>3, <2>1 DEF EnsureDefaultAccounts
  <2> QED
    BY <1>3, <2>1, <2>2 DEF EnsureDefaultAccounts, FinanceTypeOK
<1>4. ASSUME NEW a \in Extra, NEW type \in {"mobile_money", "bank"}, NEW n \in Amounts \cup {0},
             CreateAccount(a, type, n)
      PROVE  FinanceTypeOK'
  <2> DEFINE opened == n > 0
             fresh == [NewAccount(type) EXCEPT !.openingRecorded = opened]
             new == [accounts EXCEPT ![a] = fresh]
  <2>1. a \in AccountIds
    BY DEF AccountIds
  <2>2. fresh \in Account
    <3>1. opened \in BOOLEAN
      OBVIOUS
    <3> HIDE DEF opened
    <3> QED
      BY <3>1 DEF NewAccount, Account, AccountTypes
  <2>3. new \in [AccountIds -> Account]
    BY <1>1, <2>2
  <2>4. /\ accounts' \in [AccountIds -> Account] /\ created' \subseteq AccountIds
        /\ ledger' \in Seq(Entry) /\ daily' \in [Days -> Summary]
    <3>1. CASE n > 0
      <4>1. n \in Amount
        BY <3>1, BoundAssumption DEF Amount
      <4>2. NewEntry("opening_balance", n, None, a) \in Entry
        BY <2>1, <4>1, NewEntryType DEF PostingTypes
      <4> QED
        BY <1>1, <1>4, <2>3, <3>1, <4>2, CommitType DEF CreateAccount, NewAccount
    <3>2. CASE ~(n > 0)
      BY <1>1, <1>4, <2>1, <2>3, <3>2 DEF CreateAccount, FinanceTypeOK
    <3> QED
      BY <3>1, <3>2
  <2>5. listed' \subseteq AccountIds
    BY <1>1, <1>2, <1>4, <2>1 DEF CreateAccount
  <2> QED
    BY <1>4, <2>4, <2>5 DEF CreateAccount, FinanceTypeOK
<1>5. ASSUME NEW a \in AccountIds, NEW active \in BOOLEAN, UpdateAccount(a, active)
      PROVE  FinanceTypeOK'
  <2>1. accounts' \in [AccountIds -> Account]
    BY <1>1, <1>5 DEF UpdateAccount, Account
  <2>2. created' \subseteq AccountIds
    BY <1>1, <1>5 DEF UpdateAccount
  <2>3. listed' \subseteq AccountIds
    BY <1>2, <1>5, <2>2 DEF UpdateAccount
  <2> QED
    BY <1>5, <2>1, <2>2, <2>3 DEF UpdateAccount, FinanceTypeOK
<1>6. ASSUME NEW a \in AccountIds, NEW n \in Amounts, RecordOpeningBalance(a, n)
      PROVE  FinanceTypeOK'
  <2>1. [accounts EXCEPT ![a].openingRecorded = TRUE] \in [AccountIds -> Account]
    BY <1>1 DEF Account
  <2>2. NewEntry("opening_balance", n, None, a) \in Entry
    BY BoundAssumption, NewEntryType DEF PostingTypes
  <2> QED
    BY <1>1, <1>6, <2>1, <2>2, CommitType DEF RecordOpeningBalance, FinanceTypeOK
<1> QED
  BY <1>3, <1>4, <1>5, <1>6 DEF AccountChanges

\* Transfers and bank deposits keep the shape.
LEMMA TypeMovements == FinanceTypeOK /\ Movements => FinanceTypeOK'
<1> SUFFICES ASSUME FinanceTypeOK,
                    NEW r \in RequestIds, NEW from \in AccountIds, NEW to \in AccountIds,
                    NEW n \in Amounts,
                    TransferFunds(r, from, to, n) \/ RecordBankDeposit(r, from, to, n)
             PROVE  FinanceTypeOK'
  BY DEF Movements
<1>1. /\ accounts \in [AccountIds -> Account] /\ ledger \in Seq(Entry)
      /\ deposits \in Seq(Deposit) /\ requests \in [RequestIds -> StoredResult]
      /\ NextNumber \in Nat /\ Len(deposits) + 1 \in Nat /\ n \in Amount
  BY BoundAssumption DEF FinanceTypeOK, NextNumber
<1>2. ASSUME NEW kind \in {"transfer", "deposit"}, NEW k \in Nat, Store(r, kind, k)
      PROVE  requests' \in [RequestIds -> StoredResult]
  BY <1>1, <1>2 DEF Store, StoredResult
<1>3. CASE TransferFunds(r, from, to, n)
  <2>1. [NewEntry("account_transfer", n, from, to) EXCEPT !.request = r] \in Entry
    BY <1>1, NewEntryType DEF PostingTypes
  <2>2. requests' \in [RequestIds -> StoredResult]
    BY <1>1, <1>2, <1>3 DEF TransferFunds
  <2> QED
    BY <1>1, <1>3, <2>1, <2>2, CommitType DEF TransferFunds, Post, FinanceTypeOK
<1>4. CASE RecordBankDeposit(r, from, to, n)
  <2>1. [NewEntry("bank_deposit", n, from, to) EXCEPT
            !.about = Len(deposits) + 1, !.request = r] \in Entry
    BY <1>1, NewEntryType DEF PostingTypes
  <2>2. requests' \in [RequestIds -> StoredResult]
    BY <1>1, <1>2, <1>4 DEF RecordBankDeposit
  <2>3. deposits' \in Seq(Deposit)
    BY <1>1, <1>4 DEF RecordBankDeposit, Deposit
  <2> QED
    BY <1>1, <1>4, <2>1, <2>2, <2>3, CommitType DEF RecordBankDeposit, Post, FinanceTypeOK
<1> QED
  BY <1>3, <1>4

\* Reconciliations and adjustments keep the shape.
LEMMA TypeCorrections == FinanceTypeOK /\ Corrections => FinanceTypeOK'
<1> SUFFICES ASSUME FinanceTypeOK, NEW r \in RequestIds, NEW a \in AccountIds,
                    \/ \E actual \in Counts : ReconcileAccount(r, a, actual)
                    \/ \E in \in BOOLEAN, n \in Amounts, k \in {0} \cup DOMAIN recs :
                          RecordAdjustment(r, a, in, n, k)
             PROVE  FinanceTypeOK'
  BY DEF Corrections
<1>1. /\ accounts \in [AccountIds -> Account] /\ ledger \in Seq(Entry)
      /\ recs \in Seq(Reconciliation) /\ requests \in [RequestIds -> StoredResult]
      /\ NextNumber \in Nat /\ Len(recs) + 1 \in Nat /\ accounts[a].balance \in Nat
  BY DEF FinanceTypeOK, NextNumber, Account
<1>2. ASSUME NEW kind \in {"adjustment", "reconciliation"}, NEW k \in Nat, Store(r, kind, k)
      PROVE  requests' \in [RequestIds -> StoredResult]
  BY <1>1, <1>2 DEF Store, StoredResult
<1>3. ASSUME NEW actual \in Counts, ReconcileAccount(r, a, actual)
      PROVE  FinanceTypeOK'
  <2>1. actual \in Nat
    BY BoundAssumption
  <2>2. recs' \in Seq(Reconciliation)
    BY <1>1, <1>3, <2>1 DEF ReconcileAccount, Reconciliation
  <2>3. requests' \in [RequestIds -> StoredResult]
    BY <1>1, <1>2, <1>3 DEF ReconcileAccount
  <2> QED
    BY <1>3, <2>2, <2>3 DEF ReconcileAccount, FinanceTypeOK
<1>4. ASSUME NEW in \in BOOLEAN, NEW n \in Amounts, NEW k \in {0} \cup DOMAIN recs,
             RecordAdjustment(r, a, in, n, k)
      PROVE  FinanceTypeOK'
  <2>1. n \in Amount /\ k \in Nat
    BY <1>1, BoundAssumption
  <2>2. [Adjustment(a, in, n) EXCEPT !.about = k, !.request = r] \in Entry
    BY <2>1, NewEntryType DEF Adjustment, PostingTypes
  <2>3. recs' \in Seq(Reconciliation)
    <3> DEFINE q == [recs[k] EXCEPT !.status = "adjusted", !.adjustment = NextNumber]
    <3>1. \A x \in Reconciliation, m \in Nat :
             [x EXCEPT !.status = "adjusted", !.adjustment = m] \in Reconciliation
      BY DEF Reconciliation
    <3>2. CASE k = 0
      BY <1>1, <1>4, <3>2 DEF RecordAdjustment
    <3>3. CASE k # 0
      <4>1. recs[k] \in Reconciliation
        BY <1>1, <3>3
      <4>2. q \in Reconciliation
        BY <1>1, <3>1, <4>1
      <4>3. [recs EXCEPT ![k] = q] \in Seq(Reconciliation)
        BY <1>1, <4>2, ReplaceType
      <4> QED
        BY <1>1, <1>4, <3>3, <4>3 DEF RecordAdjustment
    <3> QED
      BY <3>2, <3>3
  <2>4. requests' \in [RequestIds -> StoredResult]
    BY <1>1, <1>2, <1>4 DEF RecordAdjustment
  <2> QED
    BY <1>1, <1>4, <2>2, <2>3, <2>4, CommitType DEF RecordAdjustment, Post, FinanceTypeOK
<1> QED
  BY <1>3, <1>4

\* A new day keeps the shape.
LEMMA TypeNextDay == FinanceTypeOK /\ NextDay => FinanceTypeOK'
BY BoundAssumption DEF FinanceTypeOK, NextDay, Days

\* A refused or repeated call keeps the shape.
LEMMA TypeStutter == FinanceTypeOK /\ UNCHANGED financeVars => FinanceTypeOK'
BY DEF FinanceTypeOK, financeVars

\* Every step keeps the shape.
LEMMA TypeStep == FinanceTypeOK /\ [FinanceNext]_financeVars => FinanceTypeOK'
BY TypePayments, TypeAccountChanges, TypeMovements, TypeCorrections, TypeReversals,
   TypeNextDay, TypeStutter DEF FinanceNext

\* Whatever callers do, in whatever order, every document keeps the shape the
\* code writes; in particular no account is ever overdrawn.
THEOREM TypeCorrect == FinanceSpec => []FinanceTypeOK
BY TypeInit, TypeStep, PTL DEF FinanceSpec

-----------------------------------------------------------------------------
(* Sequences of anything *)

IsSequence(s) == \E S : s \in Seq(S)

\* A sequence over a set is one over any larger set.
LEMMA SequenceWidened ==
    ASSUME NEW S, NEW T, S \subseteq T, NEW s \in Seq(S)
    PROVE  s \in Seq(T)
<1>1. Len(s) \in Nat /\ s \in [1..Len(s) -> S]
  BY LenProperties
<1>2. s \in [1..Len(s) -> T]
  BY <1>1
<1> QED
  BY <1>1, <1>2, SeqDef

\* Appending anything to a sequence of anything.
LEMMA AppendAny ==
    ASSUME NEW s, IsSequence(s), NEW x
    PROVE  /\ IsSequence(Append(s, x))
           /\ Len(s) \in Nat /\ DOMAIN s = 1..Len(s)
           /\ DOMAIN Append(s, x) = 1..(Len(s) + 1)
           /\ \A i \in 1..Len(s) : Append(s, x)[i] = s[i]
           /\ Append(s, x)[Len(s) + 1] = x
<1>1. PICK S : s \in Seq(S)
  BY DEF IsSequence
<1>2. s \in Seq(S \cup {x})
  BY <1>1, SequenceWidened
<1>3. x \in S \cup {x}
  OBVIOUS
<1> QED
  BY <1>2, <1>3, AppendProperties, LenProperties DEF IsSequence

\* Replacing an element, if it is there, by anything.
LEMMA ReplaceAny ==
    ASSUME NEW s, IsSequence(s), NEW i, NEW x
    PROVE  /\ IsSequence([s EXCEPT ![i] = x])
           /\ DOMAIN [s EXCEPT ![i] = x] = DOMAIN s
           /\ \A k \in DOMAIN s : [s EXCEPT ![i] = x][k] = IF k = i THEN x ELSE s[k]
<1>1. PICK S : s \in Seq(S)
  BY DEF IsSequence
<1>2. s \in Seq(S \cup {x})
  BY <1>1, SequenceWidened
<1>3. x \in S \cup {x}
  OBVIOUS
<1>4. [s EXCEPT ![i] = x] \in Seq(S \cup {x})
  BY <1>2, <1>3, ReplaceType
<1> QED
  BY <1>4, Zenon DEF IsSequence

-----------------------------------------------------------------------------
(* What a step does to the money.  Every step posts one entry, or reverses  *)
(* one, or moves no money at all; the theorems below follow from this.      *)

\* Cash awaiting banking is within the cash account, and there is only one.
AwaitingOK(accts) ==
    \A a \in AccountIds :
        /\ accts[a].type = "cash" <=> a = Cash
        /\ accts[a].awaitingBanking <= accts[a].balance
        /\ a # Cash => accts[a].awaitingBanking = 0

\* The accounts as a callable may have changed them before it posts: the money
\* in them is still the money that was there.
Prepared(accts) ==
    /\ AwaitingOK(accts)
    /\ \A a \in AccountIds : accts[a].balance = accounts[a].balance

\* The inductive invariant: an account without a document holds nothing, so
\* writing its first document (CreateAccount) hides no money.
MoneyInv ==
    /\ FinanceTypeOK
    /\ AwaitingOK(accounts)
    /\ \A a \in AccountIds \ created : accounts[a].balance = 0

PostsEntry ==
    \E accts \in [AccountIds -> Account], e \in Entry :
        /\ Prepared(accts)
        /\ e.type # "reversal" /\ e.posted /\ e.reversedBy = 0
        /\ Commit(accts, ledger, e)
ReversesEntry ==
    \E accts \in [AccountIds -> Account], i \in DOMAIN ledger :
        Prepared(accts) /\ PostReversal(accts, i)
MovesNothing ==
    /\ Prepared(accounts')
    /\ ledger' = ledger /\ daily' = daily
    /\ created \subseteq created'

\* Accounts nothing was changed in are prepared.
LEMMA PreparedNow == MoneyInv => accounts \in [AccountIds -> Account] /\ Prepared(accounts)
BY DEF MoneyInv, Prepared, FinanceTypeOK

\* A customer payment posts one entry.
LEMMA ShapePayments == MoneyInv /\ Payments => PostsEntry
<1> SUFFICES ASSUME MoneyInv, NEW method \in Defaults, NEW n \in Amounts,
                    NEW requested \in AccountIds \cup {None},
                    PostCustomerPayment(method, requested, n)
             PROVE  PostsEntry
  BY DEF Payments
<1>1. PICK a \in AccountIds : Post(NewEntry("customer_payment", n, None, a))
  BY DEF PostCustomerPayment
<1> DEFINE e == NewEntry("customer_payment", n, None, a)
<1>2. e \in Entry
  BY NewEntryType, BoundAssumption DEF PostingTypes
<1>3. e.type # "reversal" /\ e.posted /\ e.reversedBy = 0
  BY DEF NewEntry
<1>4. Commit(accounts, ledger, e)
  BY <1>1 DEF Post
<1> HIDE DEF e
<1> QED
  BY <1>2, <1>3, <1>4, PreparedNow DEF PostsEntry

\* A transfer or a deposit posts one entry.
LEMMA ShapeMovements == MoneyInv /\ Movements => PostsEntry
<1> SUFFICES ASSUME MoneyInv,
                    NEW r \in RequestIds, NEW from \in AccountIds, NEW to \in AccountIds,
                    NEW n \in Amounts,
                    TransferFunds(r, from, to, n) \/ RecordBankDeposit(r, from, to, n)
             PROVE  PostsEntry
  BY DEF Movements
<1>1. n \in Amount /\ Len(deposits) + 1 \in Nat
  BY BoundAssumption DEF MoneyInv, FinanceTypeOK
<1>2. CASE TransferFunds(r, from, to, n)
  <2> DEFINE e == [NewEntry("account_transfer", n, from, to) EXCEPT !.request = r]
  <2>1. e \in Entry
    BY <1>1, NewEntryType DEF PostingTypes
  <2>2. e.type # "reversal" /\ e.posted /\ e.reversedBy = 0
    BY DEF NewEntry
  <2>3. Commit(accounts, ledger, e)
    BY <1>2 DEF TransferFunds, Post
  <2> HIDE DEF e
  <2> QED
    BY <2>1, <2>2, <2>3, PreparedNow DEF PostsEntry
<1>3. CASE RecordBankDeposit(r, from, to, n)
  <2> DEFINE e == [NewEntry("bank_deposit", n, from, to) EXCEPT
                      !.about = Len(deposits) + 1, !.request = r]
  <2>1. e \in Entry
    BY <1>1, NewEntryType DEF PostingTypes
  <2>2. e.type # "reversal" /\ e.posted /\ e.reversedBy = 0
    BY DEF NewEntry
  <2>3. Commit(accounts, ledger, e)
    BY <1>3 DEF RecordBankDeposit, Post
  <2> HIDE DEF e
  <2> QED
    BY <2>1, <2>2, <2>3, PreparedNow DEF PostsEntry
<1> QED
  BY <1>2, <1>3

\* An adjustment posts one entry, a reconciliation moves nothing.
LEMMA ShapeCorrections == MoneyInv /\ Corrections => PostsEntry \/ MovesNothing
<1> SUFFICES ASSUME MoneyInv, NEW r \in RequestIds, NEW a \in AccountIds,
                    \/ \E actual \in Counts : ReconcileAccount(r, a, actual)
                    \/ \E in \in BOOLEAN, n \in Amounts, k \in {0} \cup DOMAIN recs :
                          RecordAdjustment(r, a, in, n, k)
             PROVE  PostsEntry \/ MovesNothing
  BY DEF Corrections
<1>1. ASSUME NEW actual \in Counts, ReconcileAccount(r, a, actual)
      PROVE  MovesNothing
  BY <1>1, PreparedNow DEF ReconcileAccount, MovesNothing
<1>2. ASSUME NEW in \in BOOLEAN, NEW n \in Amounts, NEW k \in {0} \cup DOMAIN recs,
             RecordAdjustment(r, a, in, n, k)
      PROVE  PostsEntry
  <2> DEFINE e == [Adjustment(a, in, n) EXCEPT !.about = k, !.request = r]
  <2>1. n \in Amount /\ k \in Nat
    BY BoundAssumption DEF MoneyInv, FinanceTypeOK
  <2>2. e \in Entry
    BY <2>1, NewEntryType DEF Adjustment, PostingTypes
  <2>3. e.type # "reversal" /\ e.posted /\ e.reversedBy = 0
    BY DEF Adjustment, NewEntry
  <2>4. Commit(accounts, ledger, e)
    BY <1>2 DEF RecordAdjustment, Post
  <2> HIDE DEF e
  <2> QED
    BY <2>2, <2>3, <2>4, PreparedNow DEF PostsEntry
<1> QED
  BY <1>1, <1>2

\* A reversal reverses one entry.
LEMMA ShapeReversals == MoneyInv /\ Reversals => ReversesEntry
<1> SUFFICES ASSUME MoneyInv, NEW i \in DOMAIN ledger,
                    ReverseTransaction(i) \/ ReverseCustomerPayment(i)
             PROVE  ReversesEntry
  BY DEF Reversals
<1>1. CASE ReverseCustomerPayment(i)
  BY <1>1, PreparedNow DEF ReverseCustomerPayment, ReversesEntry
<1>2. CASE ReverseTransaction(i)
  <2> DEFINE accts == Reopened(accounts, ledger[i])
  <2>1. accounts \in [AccountIds -> Account]
    BY PreparedNow
  <2>2. accts \in [AccountIds -> Account] /\ Prepared(accts)
    <3>1. CASE accts = accounts
      BY <3>1, PreparedNow
    <3>2. CASE accts = [accounts EXCEPT ![ledger[i].to].openingRecorded = FALSE]
      <4>1. accts \in [AccountIds -> Account]
        BY <2>1, <3>2 DEF Account
      <4>2. \A a \in AccountIds : /\ accts[a].type = accounts[a].type
                                /\ accts[a].balance = accounts[a].balance
                                /\ accts[a].awaitingBanking = accounts[a].awaitingBanking
        BY <2>1, <3>2 DEF Account
      <4> HIDE DEF accts
      <4> QED
        BY <4>1, <4>2, PreparedNow DEF Prepared, AwaitingOK
    <3> QED
      BY <3>1, <3>2 DEF Reopened
  <2>3. PostReversal(accts, i)
    BY <1>2 DEF ReverseTransaction
  <2> HIDE DEF accts
  <2> QED
    BY <2>2, <2>3 DEF ReversesEntry
<1> QED
  BY <1>1, <1>2

\* An opening balance posts one entry, any other change of an account moves nothing.
LEMMA ShapeAccountChanges == MoneyInv /\ AccountChanges => PostsEntry \/ MovesNothing
<1> SUFFICES ASSUME MoneyInv, AccountChanges PROVE PostsEntry \/ MovesNothing
  OBVIOUS
<1>1. accounts \in [AccountIds -> Account] /\ Prepared(accounts)
  BY PreparedNow
<1>2. CASE EnsureDefaultAccounts
  BY <1>1, <1>2 DEF EnsureDefaultAccounts, MovesNothing
<1>3. ASSUME NEW a \in Extra, NEW type \in {"mobile_money", "bank"}, NEW n \in Amounts \cup {0},
             CreateAccount(a, type, n)
      PROVE  PostsEntry \/ MovesNothing
  <2> DEFINE opened == n > 0
             fresh == [NewAccount(type) EXCEPT !.openingRecorded = opened]
             new == [accounts EXCEPT ![a] = fresh]
             e == NewEntry("opening_balance", n, None, a)
  <2>1. /\ a \in AccountIds /\ a # Cash
        /\ a \notin created /\ accounts[a].balance = 0
    BY <1>3, AccountAssumption DEF CreateAccount, MoneyInv, AccountIds, Defaults
  <2>2. /\ fresh \in Account /\ fresh.balance = 0
        /\ fresh.awaitingBanking = 0 /\ fresh.type # "cash"
    <3>1. opened \in BOOLEAN
      OBVIOUS
    <3> HIDE DEF opened
    <3> QED
      BY <3>1 DEF NewAccount, Account, AccountTypes
  <2>3. new \in [AccountIds -> Account] /\ Prepared(new)
    <3> HIDE DEF fresh
    <3> QED
      BY <1>1, <2>1, <2>2 DEF Prepared, AwaitingOK
  <2>4. CASE n > 0
    <3>1. n \in Amount
      BY <2>4, BoundAssumption DEF Amount
    <3>2. e \in Entry
      BY <2>1, <3>1, NewEntryType DEF PostingTypes
    <3>3. e.type # "reversal" /\ e.posted /\ e.reversedBy = 0
      BY DEF NewEntry
    <3>4. Commit(new, ledger, e)
      BY <1>3, <2>4 DEF CreateAccount
    <3> HIDE DEF e, new
    <3> QED
      BY <2>3, <3>2, <3>3, <3>4 DEF PostsEntry
  <2>5. CASE ~(n > 0)
    <3>1. accounts' = new /\ created \subseteq created' /\ ledger' = ledger /\ daily' = daily
      BY <1>3, <2>5 DEF CreateAccount
    <3> HIDE DEF new
    <3> QED
      BY <2>3, <3>1 DEF MovesNothing
  <2> QED
    BY <2>4, <2>5
<1>4. ASSUME NEW a \in AccountIds, NEW active \in BOOLEAN, UpdateAccount(a, active)
      PROVE  MovesNothing
  <2>1. accounts' = [accounts EXCEPT ![a].active = active]
    BY <1>4 DEF UpdateAccount
  <2>2. Prepared(accounts')
    BY <1>1, <2>1 DEF Prepared, AwaitingOK, Account
  <2> QED
    BY <1>4, <2>2 DEF UpdateAccount, MovesNothing
<1>5. ASSUME NEW a \in AccountIds, NEW n \in Amounts, RecordOpeningBalance(a, n)
      PROVE  PostsEntry
  <2> DEFINE new == [accounts EXCEPT ![a].openingRecorded = TRUE]
             e == NewEntry("opening_balance", n, None, a)
  <2>1. new \in [AccountIds -> Account] /\ Prepared(new)
    BY <1>1 DEF Prepared, AwaitingOK, Account
  <2>2. e \in Entry
    BY BoundAssumption, NewEntryType DEF PostingTypes
  <2>3. e.type # "reversal" /\ e.posted /\ e.reversedBy = 0
    BY DEF NewEntry
  <2>4. Commit(new, ledger, e)
    BY <1>5 DEF RecordOpeningBalance
  <2> HIDE DEF e, new
  <2> QED
    BY <2>1, <2>2, <2>3, <2>4 DEF PostsEntry
<1> QED
  BY <1>2, <1>3, <1>4, <1>5 DEF AccountChanges

\* A new day moves nothing.
LEMMA ShapeNextDay == MoneyInv /\ NextDay => MovesNothing
BY PreparedNow DEF NextDay, MovesNothing

\* A refused or repeated call moves nothing.
LEMMA ShapeStutter == MoneyInv /\ UNCHANGED financeVars => MovesNothing
BY PreparedNow DEF financeVars, MovesNothing

\* Every step posts one entry, reverses one, or moves nothing.
LEMMA StepShape ==
    MoneyInv /\ [FinanceNext]_financeVars => PostsEntry \/ ReversesEntry \/ MovesNothing
BY ShapePayments, ShapeAccountChanges, ShapeMovements, ShapeCorrections, ShapeReversals,
   ShapeNextDay, ShapeStutter DEF FinanceNext

\* All that the theorems about money need to know of a step, so that they hold as
\* well for modules that post entries of their own.
ByTheBook == FinanceTypeOK' /\ (PostsEntry \/ ReversesEntry \/ MovesNothing)

\* finance.js goes by the book.
LEMMA FinanceByTheBook == MoneyInv /\ [FinanceNext]_financeVars => ByTheBook
BY StepShape, TypeStep DEF MoneyInv, ByTheBook

-----------------------------------------------------------------------------
(* Cash awaiting banking *)

\* Posting any affordable entry keeps the cash awaiting banking within the cash.
LEMMA PostingAwaiting ==
    ASSUME NEW accts \in [AccountIds -> Account], AwaitingOK(accts), NEW e \in Entry,
           WellFormed(e), Affordable(accts, e)
    PROVE  AwaitingOK(AfterPosting(accts, e))
<1>1. e.amount \in Nat /\ (e.from # None => accts[e.from].balance >= e.amount)
  BY DEF Entry, Amount, Affordable
<1> SUFFICES ASSUME NEW id \in AccountIds
             PROVE  LET a == AfterPosting(accts, e)[id]
                    IN  /\ a.type = "cash" <=> id = Cash
                        /\ a.awaitingBanking <= a.balance
                        /\ id # Cash => a.awaitingBanking = 0
  BY DEF AwaitingOK
<1>2. /\ accts[id] \in Account /\ accts[id].balance \in Nat /\ id # None
      /\ accts[id].type = "cash" <=> id = Cash
      /\ accts[id].awaitingBanking <= accts[id].balance
      /\ id # Cash => accts[id].awaitingBanking = 0
  BY AccountAssumption DEF Account, AwaitingOK
<1>3. CASE id = e.from
  <2>1. accts[id].balance + (-e.amount) \in Nat
    BY <1>1, <1>2, <1>3
  <2>2. AfterPosting(accts, e)[id] = Moved(accts[id], -e.amount, e, TypeOf(accts, e.to))
    BY <1>3 DEF AfterPosting
  <2> QED
    BY <1>1, <1>2, <2>1, <2>2, MovedType
<1>4. CASE id # e.from /\ id = e.to
  <2>1. accts[id].balance + e.amount \in Nat
    BY <1>1, <1>2
  <2>2. AfterPosting(accts, e)[id] = Moved(accts[id], e.amount, e, TypeOf(accts, e.from))
    BY <1>4 DEF AfterPosting
  <2> QED
    BY <1>1, <1>2, <2>1, <2>2, MovedType
<1>5. CASE id # e.from /\ id # e.to
  BY <1>2, <1>5 DEF AfterPosting
<1> QED
  BY <1>3, <1>4, <1>5

\* Posting leaves accounts without a document empty.
LEMMA UntouchedKept ==
    ASSUME MoneyInv, NEW accts \in [AccountIds -> Account], Prepared(accts),
           NEW entries, NEW e \in Entry, Commit(accts, entries, e)
    PROVE  \A a \in AccountIds \ created' : accounts'[a].balance = 0
BY AccountAssumption DEF MoneyInv, Prepared, Commit, AfterPosting

\* No money at first.
LEMMA MoneyInit == FinanceInit => MoneyInv
<1> SUFFICES ASSUME FinanceInit PROVE MoneyInv
  OBVIOUS
<1>1. AwaitingOK(accounts) /\ \A a \in AccountIds : accounts[a].balance = 0
  <2>1. ASSUME NEW a \in AccountIds
        PROVE  /\ accounts[a].type = DefaultType(a)
               /\ accounts[a].balance = 0 /\ accounts[a].awaitingBanking = 0
    BY DEF FinanceInit, NewAccount
  <2>2. \A a \in AccountIds : DefaultType(a) = "cash" <=> a = Cash
    BY DEF DefaultType
  <2> QED
    BY <2>1, <2>2 DEF AwaitingOK
<1> QED
  BY <1>1, TypeInit DEF MoneyInv

\* Every step keeps the invariant.
LEMMA MoneyKept == MoneyInv /\ ByTheBook => MoneyInv'
<1> SUFFICES ASSUME MoneyInv, ByTheBook PROVE MoneyInv'
  OBVIOUS
<1>1. FinanceTypeOK'
  BY DEF ByTheBook
<1>2. ASSUME NEW accts \in [AccountIds -> Account], Prepared(accts),
             NEW entries, NEW e \in Entry, Commit(accts, entries, e)
      PROVE  MoneyInv'
  <2>1. AwaitingOK(accounts')
    BY <1>2, PostingAwaiting DEF Commit, Prepared
  <2>2. \A a \in AccountIds \ created' : accounts'[a].balance = 0
    BY <1>2, UntouchedKept
  <2> QED
    BY <1>1, <2>1, <2>2 DEF MoneyInv, AwaitingOK
<1>3. CASE PostsEntry
  BY <1>2, <1>3 DEF PostsEntry
<1>4. CASE ReversesEntry
  <2>1. PICK accts \in [AccountIds -> Account], i \in DOMAIN ledger :
           Prepared(accts) /\ PostReversal(accts, i)
    BY <1>4 DEF ReversesEntry
  <2>2. MirrorOf(ledger[i], i) \in Entry
    BY <2>1, MirrorType DEF MoneyInv, FinanceTypeOK, PostReversal
  <2> QED
    BY <1>2, <2>1, <2>2 DEF PostReversal
<1>5. CASE MovesNothing
  BY <1>1, <1>5 DEF MovesNothing, Prepared, MoneyInv, AwaitingOK
<1> QED
  BY <1>3, <1>4, <1>5 DEF ByTheBook

\* In particular every step of finance.js does.
LEMMA MoneyStep == MoneyInv /\ [FinanceNext]_financeVars => MoneyInv'
BY FinanceByTheBook, MoneyKept

\* The invariant holds in every reachable state.
LEMMA MoneyInvariant == FinanceSpec => []MoneyInv
BY MoneyInit, MoneyStep, PTL DEF FinanceSpec

\* Spending, banking, transferring and reversing in any order, with any amounts:
\* the cash that waits to be banked never exceeds the cash there is.
THEOREM AwaitingCorrect == FinanceSpec => []AwaitingWithinCash
<1>1. MoneyInv => AwaitingWithinCash
  BY DEF MoneyInv, AwaitingOK, AwaitingWithinCash
<1> QED
  BY <1>1, MoneyInvariant, PTL

-----------------------------------------------------------------------------
(* The ledger after a step *)

\* What is posted is appended, with today's date; the rest is what it was made.
LEMMA LedgerAfterCommit ==
    ASSUME FinanceTypeOK, NEW accts, NEW entries \in Seq(Entry), NEW e \in Entry,
           Commit(accts, entries, e)
    PROVE  /\ ledger' \in Seq(Entry)
           /\ Len(ledger') = Len(entries) + 1
           /\ \A i \in 1..Len(entries) : ledger'[i] = entries[i]
           /\ ledger'[Len(entries) + 1] = [e EXCEPT !.day = day]
<1>1. day \in Nat
  BY BoundAssumption DEF FinanceTypeOK, Days
<1>2. [e EXCEPT !.day = day] \in Entry
  BY <1>1 DEF Entry
<1> QED
  BY <1>2, AppendProperties DEF Commit

\* Only one field changes when an entry is dated.
LEMMA Dated ==
    ASSUME NEW e \in Entry
    PROVE  /\ [e EXCEPT !.day = day].type = e.type
           /\ [e EXCEPT !.day = day].reversalOfType = e.reversalOfType
           /\ [e EXCEPT !.day = day].amount = e.amount
           /\ [e EXCEPT !.day = day].from = e.from
           /\ [e EXCEPT !.day = day].to = e.to
           /\ [e EXCEPT !.day = day].posted = e.posted
           /\ [e EXCEPT !.day = day].reversedBy = e.reversedBy
           /\ [e EXCEPT !.day = day].reversalOf = e.reversalOf
BY DEF Entry

\* Only two fields change when an entry is marked reversed.
LEMMA Marked ==
    ASSUME NEW e \in Entry, NEW n \in Nat
    PROVE  /\ MarkReversed(e, n).type = e.type
           /\ MarkReversed(e, n).reversalOfType = e.reversalOfType
           /\ MarkReversed(e, n).amount = e.amount
           /\ MarkReversed(e, n).from = e.from
           /\ MarkReversed(e, n).to = e.to
           /\ ~MarkReversed(e, n).posted
           /\ MarkReversed(e, n).reversedBy = n
           /\ MarkReversed(e, n).reversalOf = e.reversalOf
BY DEF MarkReversed, Entry

\* The entries a reversal leaves before it appends its own: as many as before,
\* the reversed one marked, the others untouched.
LEMMA EntriesMarked ==
    ASSUME FinanceTypeOK, NEW i \in DOMAIN ledger
    PROVE  LET entries == [ledger EXCEPT ![i] = MarkReversed(@, NextNumber)]
           IN  /\ entries \in Seq(Entry)
               /\ Len(entries) = Len(ledger)
               /\ entries[i] = MarkReversed(ledger[i], NextNumber)
               /\ \A h \in 1..Len(ledger) : h # i => entries[h] = ledger[h]
<1>1. /\ ledger \in Seq(Entry) /\ i \in 1..Len(ledger)
      /\ ledger[i] \in Entry /\ NextNumber \in Nat
  BY DEF FinanceTypeOK, NextNumber
<1>2. MarkReversed(ledger[i], NextNumber) \in Entry
  BY <1>1, MarkType
<1> QED
  BY <1>1, <1>2, ExceptSeq

\* Posting appends one live entry and touches no other.
LEMMA LedgerAfterPosting ==
    ASSUME FinanceTypeOK, PostsEntry
    PROVE  /\ ledger' \in Seq(Entry)
           /\ Len(ledger') = Len(ledger) + 1
           /\ \A i \in 1..Len(ledger) : ledger'[i] = ledger[i]
           /\ ledger'[Len(ledger) + 1].type # "reversal"
           /\ ledger'[Len(ledger) + 1].posted
           /\ ledger'[Len(ledger) + 1].reversedBy = 0
<1>1. PICK accts \in [AccountIds -> Account], e \in Entry :
         e.type # "reversal" /\ e.posted /\ e.reversedBy = 0 /\ Commit(accts, ledger, e)
  BY DEF PostsEntry
<1>2. ledger \in Seq(Entry)
  BY DEF FinanceTypeOK
<1>3. ledger'[Len(ledger) + 1] = [e EXCEPT !.day = day]
  BY <1>1, <1>2, LedgerAfterCommit
<1> QED
  BY <1>1, <1>2, <1>3, LedgerAfterCommit, Dated

\* Reversing marks one live entry and appends its mirror.
LEMMA LedgerAfterReversing ==
    ASSUME FinanceTypeOK, ReversesEntry
    PROVE  /\ ledger' \in Seq(Entry)
           /\ Len(ledger') = Len(ledger) + 1
           /\ \E i \in 1..Len(ledger) :
                /\ CanReverse(ledger[i])
                /\ ledger'[i] = MarkReversed(ledger[i], Len(ledger) + 1)
                /\ \A h \in 1..Len(ledger) : h # i => ledger'[h] = ledger[h]
                /\ ledger'[Len(ledger) + 1] = [MirrorOf(ledger[i], i) EXCEPT !.day = day]
<1>1. PICK accts \in [AccountIds -> Account], i \in DOMAIN ledger : PostReversal(accts, i)
  BY DEF ReversesEntry
<1> DEFINE entries == [ledger EXCEPT ![i] = MarkReversed(@, NextNumber)]
<1>2. ledger \in Seq(Entry) /\ i \in 1..Len(ledger) /\ ledger[i] \in Entry
  BY DEF FinanceTypeOK
<1>3. MirrorOf(ledger[i], i) \in Entry /\ CanReverse(ledger[i])
  BY <1>1, <1>2, MirrorType DEF PostReversal
<1>4. /\ entries \in Seq(Entry) /\ Len(entries) = Len(ledger)
      /\ entries[i] = MarkReversed(ledger[i], Len(ledger) + 1)
      /\ \A h \in 1..Len(ledger) : h # i => entries[h] = ledger[h]
  BY EntriesMarked DEF NextNumber
<1>5. Commit(accts, entries, MirrorOf(ledger[i], i))
  BY <1>1 DEF PostReversal
<1> HIDE DEF entries
<1>6. /\ ledger' \in Seq(Entry)
      /\ Len(ledger') = Len(ledger) + 1
      /\ \A h \in 1..Len(ledger) : ledger'[h] = entries[h]
      /\ ledger'[Len(ledger) + 1] = [MirrorOf(ledger[i], i) EXCEPT !.day = day]
  BY <1>3, <1>4, <1>5, LedgerAfterCommit
<1>7. /\ ledger'[i] = MarkReversed(ledger[i], Len(ledger) + 1)
      /\ \A h \in 1..Len(ledger) : h # i => ledger'[h] = ledger[h]
  BY <1>2, <1>4, <1>6
<1> QED
  BY <1>2, <1>3, <1>6, <1>7

-----------------------------------------------------------------------------
(* The ledger is append-only *)

\* The action of LedgerAppendOnly.
AppendOnlyStep ==
    /\ Len(ledger) <= Len(ledger')
    /\ \A i \in DOMAIN ledger :
          \/ ledger'[i] = ledger[i]
          \/ /\ ledger[i].posted
             /\ ledger'[i] = [ledger[i] EXCEPT !.posted = FALSE, !.reversedBy = Len(ledger')]

\* Every step of the code appends, or marks and appends, or leaves the ledger.
LEMMA AppendOnlyKept == MoneyInv /\ ByTheBook => AppendOnlyStep
<1> SUFFICES ASSUME MoneyInv, ByTheBook PROVE AppendOnlyStep
  OBVIOUS
<1>1. FinanceTypeOK /\ ledger \in Seq(Entry)
      /\ Len(ledger) \in Nat /\ DOMAIN ledger = 1..Len(ledger)
  BY LenProperties DEF MoneyInv, FinanceTypeOK
<1>2. CASE PostsEntry
  <2>1. /\ Len(ledger') = Len(ledger) + 1
        /\ \A i \in 1..Len(ledger) : ledger'[i] = ledger[i]
    BY <1>1, <1>2, LedgerAfterPosting
  <2>2. Len(ledger) <= Len(ledger')
    BY <1>1, <2>1
  <2> QED
    BY <1>1, <2>1, <2>2, Zenon DEF AppendOnlyStep
<1>3. CASE ReversesEntry
  <2>1. PICK i \in 1..Len(ledger) :
           /\ CanReverse(ledger[i])
           /\ ledger'[i] = MarkReversed(ledger[i], Len(ledger) + 1)
           /\ \A h \in 1..Len(ledger) : h # i => ledger'[h] = ledger[h]
    BY <1>1, <1>3, LedgerAfterReversing
  <2>2. Len(ledger') = Len(ledger) + 1
    BY <1>1, <1>3, LedgerAfterReversing
  <2>3. ledger[i].posted
        /\ ledger'[i] = [ledger[i] EXCEPT !.posted = FALSE, !.reversedBy = Len(ledger')]
    BY <2>1, <2>2 DEF CanReverse, MarkReversed
  <2>4. Len(ledger) <= Len(ledger')
    BY <1>1, <2>2
  <2> QED
    BY <1>1, <2>1, <2>3, <2>4, Zenon DEF AppendOnlyStep
<1>4. CASE MovesNothing
  BY <1>1, <1>4 DEF MovesNothing, AppendOnlyStep
<1> QED
  BY <1>2, <1>3, <1>4 DEF ByTheBook

\* In particular every step of finance.js does.
LEMMA AppendOnly == MoneyInv /\ [FinanceNext]_financeVars => AppendOnlyStep
BY FinanceByTheBook, AppendOnlyKept

\* The ledger is immutable whatever callers do: entries are appended, and an
\* entry only ever changes by being marked reversed by the entry just appended.
THEOREM AppendOnlyCorrect == FinanceSpec => LedgerAppendOnly
<1>1. MoneyInv /\ [FinanceNext]_financeVars => [AppendOnlyStep]_financeVars
  BY AppendOnly
<1> QED
  BY <1>1, MoneyInvariant, PTL DEF FinanceSpec, LedgerAppendOnly, AppendOnlyStep

-----------------------------------------------------------------------------
(* Reversals pair up with what they reverse *)

\* The inductive invariant.  Without its last conjunct a live entry might already
\* be named by a reversal, and reversing it would leave two.
PairInv ==
    /\ ReversalsPaired
    /\ \A i \in DOMAIN ledger : ledger[i].posted => ledger[i].reversedBy = 0

\* An empty ledger has nothing to pair.
LEMMA PairInit == FinanceInit => PairInv
BY DEF FinanceInit, PairInv, ReversalsPaired, EntryNumbers

\* Posting pairs nothing and parts nothing.
LEMMA PairPosting == FinanceTypeOK /\ PairInv /\ PostsEntry => PairInv'
<1> SUFFICES ASSUME FinanceTypeOK, PairInv, PostsEntry PROVE PairInv'
  OBVIOUS
<1> DEFINE n == Len(ledger)
<1>1. /\ n \in Nat /\ DOMAIN ledger = 1..n
      /\ DOMAIN ledger' = 1..(n + 1)
  BY LedgerAfterPosting, LenProperties DEF FinanceTypeOK
<1>2. /\ \A i \in 1..n : ledger'[i] = ledger[i]
      /\ ledger'[n + 1].type # "reversal" /\ ledger'[n + 1].posted
      /\ ledger'[n + 1].reversedBy = 0
  BY LedgerAfterPosting
<1>3. \A i \in 1..n : ledger[i].posted => ledger[i].reversedBy = 0
  BY <1>1 DEF PairInv
<1>4. ASSUME NEW i \in 1..n, ~ledger[i].posted
      PROVE  /\ ledger[i].reversedBy \in 1..n /\ i < ledger[i].reversedBy
             /\ Reverses(ledger[i].reversedBy, i)
  BY <1>1, <1>4 DEF PairInv, ReversalsPaired, EntryNumbers, Reverses
<1>5. ASSUME NEW j \in 1..n, ledger[j].type = "reversal"
      PROVE  ledger[j].reversalOf \in 1..n /\ ledger[ledger[j].reversalOf].reversedBy = j
  BY <1>1, <1>5 DEF PairInv, ReversalsPaired, EntryNumbers
<1> HIDE DEF n
<1>6. ASSUME NEW i \in 1..(n + 1), ~ledger'[i].posted
      PROVE  ledger'[i].reversedBy \in 1..(n + 1) /\ Reverses(ledger[i].reversedBy, i)'
  <2>1. i \in 1..n /\ ledger'[i] = ledger[i] /\ ~ledger[i].posted
    BY <1>1, <1>2, <1>6
  <2>2. ledger'[ledger[i].reversedBy] = ledger[ledger[i].reversedBy]
    BY <1>2, <1>4, <2>1
  <2> QED
    BY <1>1, <1>4, <2>1, <2>2 DEF Reverses
<1>7. ASSUME NEW j \in 1..(n + 1), ledger'[j].type = "reversal"
      PROVE  ledger'[j].reversalOf \in 1..(n + 1) /\ ledger'[ledger'[j].reversalOf].reversedBy = j
  BY <1>1, <1>2, <1>5, <1>7
<1> QED
  BY <1>1, <1>2, <1>3, <1>6, <1>7 DEF PairInv, ReversalsPaired, EntryNumbers

\* A reversal pairs one live entry with the mirror it appends; that the entry was
\* live means no earlier reversal names it.
LEMMA PairReversing == FinanceTypeOK /\ PairInv /\ ReversesEntry => PairInv'
<1> SUFFICES ASSUME FinanceTypeOK, PairInv, ReversesEntry PROVE PairInv'
  OBVIOUS
<1> DEFINE n == Len(ledger)
<1>1. /\ n \in Nat /\ DOMAIN ledger = 1..n
      /\ DOMAIN ledger' = 1..(n + 1)
      /\ \A h \in 1..n : ledger[h] \in Entry
  BY LedgerAfterReversing, LenProperties, ElementOfSeq DEF FinanceTypeOK
<1>2. PICK i \in 1..n :
         /\ CanReverse(ledger[i])
         /\ ledger'[i] = MarkReversed(ledger[i], n + 1)
         /\ \A h \in 1..n : h # i => ledger'[h] = ledger[h]
         /\ ledger'[n + 1] = [MirrorOf(ledger[i], i) EXCEPT !.day = day]
  BY LedgerAfterReversing
<1>3. /\ ledger[i].type # "reversal" /\ ledger[i].posted /\ ledger[i].reversedBy = 0
  BY <1>1, <1>2 DEF CanReverse, PairInv
<1>4. /\ ledger'[i].type = ledger[i].type /\ ledger'[i].amount = ledger[i].amount
      /\ ledger'[i].from = ledger[i].from /\ ledger'[i].to = ledger[i].to
      /\ ~ledger'[i].posted /\ ledger'[i].reversedBy = n + 1
  <2>1. n + 1 \in Nat /\ ledger[i] \in Entry
    BY <1>1
  <2> DEFINE m == MarkReversed(ledger[i], n + 1)
  <2>2. /\ m.type = ledger[i].type /\ m.amount = ledger[i].amount
        /\ m.from = ledger[i].from /\ m.to = ledger[i].to
        /\ ~m.posted /\ m.reversedBy = n + 1
    BY <2>1, Marked
  <2>3. ledger'[i] = m
    BY <1>2
  <2> HIDE DEF m
  <2> QED
    BY <2>2, <2>3
<1>5. /\ ledger'[n + 1].type = "reversal" /\ ledger'[n + 1].posted
      /\ ledger'[n + 1].reversedBy = 0 /\ ledger'[n + 1].reversalOf = i
      /\ ledger'[n + 1].reversalOfType = ledger[i].type
      /\ ledger'[n + 1].amount = ledger[i].amount
      /\ ledger'[n + 1].from = ledger[i].to /\ ledger'[n + 1].to = ledger[i].from
  <2>1. MirrorOf(ledger[i], i) \in Entry
    BY <1>1, <1>2, MirrorType
  <2> QED
    BY <1>2, <2>1, Dated DEF MirrorOf, NewEntry
<1>6. ASSUME NEW h \in 1..n, ~ledger[h].posted
      PROVE  /\ ledger[h].reversedBy \in 1..n /\ ledger[h].reversedBy # i
             /\ Reverses(ledger[h].reversedBy, h)
  BY <1>1, <1>3, <1>6 DEF PairInv, ReversalsPaired, EntryNumbers, Reverses
<1>7. ASSUME NEW j \in 1..n, ledger[j].type = "reversal"
      PROVE  /\ ledger[j].reversalOf \in 1..n /\ ledger[j].reversalOf # i
             /\ ledger[ledger[j].reversalOf].reversedBy = j
  BY <1>1, <1>3, <1>7 DEF PairInv, ReversalsPaired, EntryNumbers
<1>8. \A h \in 1..n : ledger[h].posted => ledger[h].reversedBy = 0
  BY <1>1 DEF PairInv
<1> HIDE DEF n
<1>9. ASSUME NEW h \in 1..(n + 1), ~ledger'[h].posted
      PROVE  ledger'[h].reversedBy \in 1..(n + 1) /\ Reverses(ledger[h].reversedBy, h)'
  <2>1. CASE h = i
    BY <1>1, <1>4, <1>5, <2>1 DEF Reverses
  <2>2. CASE h # i
    <3>1. h \in 1..n /\ ledger'[h] = ledger[h] /\ ~ledger[h].posted
      <4>1. h # n + 1
        BY <1>5, <1>9
      <4> QED
        BY <1>1, <1>2, <1>9, <2>2, <4>1
    <3>2. ledger'[ledger[h].reversedBy] = ledger[ledger[h].reversedBy]
      BY <1>2, <1>6, <3>1
    <3> QED
      BY <1>1, <1>6, <3>1, <3>2 DEF Reverses
  <2> QED
    BY <2>1, <2>2
<1>10. ASSUME NEW j \in 1..(n + 1), ledger'[j].type = "reversal"
       PROVE  /\ ledger'[j].reversalOf \in 1..(n + 1)
              /\ ledger'[ledger'[j].reversalOf].reversedBy = j
  <2>1. CASE j = n + 1
    BY <1>1, <1>4, <1>5, <2>1
  <2>2. CASE j # n + 1
    <3>1. j \in 1..n /\ j # i /\ ledger'[j] = ledger[j]
      BY <1>1, <1>2, <1>3, <1>4, <1>10, <2>2
    <3> QED
      BY <1>1, <1>2, <1>7, <1>10, <3>1
  <2> QED
    BY <2>1, <2>2
<1>11. \A h \in 1..(n + 1) : ledger'[h].posted => ledger'[h].reversedBy = 0
  <2> SUFFICES ASSUME NEW h \in 1..(n + 1), ledger'[h].posted
               PROVE  ledger'[h].reversedBy = 0
    OBVIOUS
  <2>1. CASE h = n + 1
    BY <1>5, <2>1
  <2>2. CASE h # n + 1
    <3>1. h \in 1..n /\ h # i
      BY <1>1, <1>4, <2>2
    <3>2. ledger'[h] = ledger[h]
      BY <1>2, <3>1
    <3> QED
      BY <1>8, <3>1, <3>2
  <2> QED
    BY <2>1, <2>2
<1> QED
  BY <1>1, <1>9, <1>10, <1>11 DEF PairInv, ReversalsPaired, EntryNumbers

\* Every step keeps the pairs.
LEMMA PairStep == MoneyInv /\ PairInv /\ ByTheBook => PairInv'
<1>1. MovesNothing /\ PairInv => PairInv'
  BY DEF MovesNothing, PairInv, ReversalsPaired, EntryNumbers, Reverses
<1> QED
  BY <1>1, PairPosting, PairReversing DEF MoneyInv, ByTheBook

\* No entry is ever reversed twice, no reversal is reversed, and a reversal and the
\* entry it undoes name each other and mirror each other exactly.
THEOREM ReversalsCorrect == FinanceSpec => []ReversalsPaired
<1>1. PairInv => ReversalsPaired
  BY DEF PairInv
<1> QED
  BY <1>1, MoneyInvariant, FinanceByTheBook, PairInit, PairStep, PTL DEF FinanceSpec

-----------------------------------------------------------------------------
(* Ledger and balances implement the journal *)

\* The line of the journal that an entry stands for.
Line(e) == [from |-> e.from, to |-> e.to, amount |-> e.amount]
JournalLines == [i \in DOMAIN ledger |-> [from |-> ledger[i].from, to |-> ledger[i].to,
                                   amount |-> ledger[i].amount]]
Balances == [a \in AccountIds |-> accounts[a].balance]

\* The lines are a sequence as long as the ledger.
LEMMA LinesSequence ==
    ASSUME NEW l \in Seq(Entry)
    PROVE  LET lines == [i \in DOMAIN l |-> [from |-> l[i].from, to |-> l[i].to,
                                             amount |-> l[i].amount]]
           IN  lines \in Seq(Book!Transfers) /\ Len(lines) = Len(l)
<1> DEFINE lines == [i \in DOMAIN l |-> [from |-> l[i].from, to |-> l[i].to,
                                         amount |-> l[i].amount]]
<1>1. Len(l) \in Nat /\ DOMAIN l = 1..Len(l)
  BY LenProperties
<1>2. ASSUME NEW i \in 1..Len(l) PROVE lines[i] \in Book!Transfers
  <2>1. l[i] \in Entry
    BY ElementOfSeq
  <2> QED
    BY <1>1, <2>1 DEF Entry, Amount, Book!Transfers
<1>3. lines \in [1..Len(l) -> Book!Transfers]
  BY <1>1, <1>2
<1> HIDE DEF lines
<1>4. lines \in Seq(Book!Transfers)
  BY <1>1, <1>3, SeqDef
<1>5. DOMAIN lines = 1..Len(l) /\ DOMAIN lines = 1..Len(lines) /\ Len(lines) \in Nat
  BY <1>3, <1>4, LenProperties
<1>6. Len(lines) = Len(l)
  BY <1>1, <1>5
<1> QED
  BY <1>4, <1>6 DEF lines

\* What a step that posts entry e after entries with the same lines records.
LEMMA CommitRecords ==
    ASSUME MoneyInv, NEW accts \in [AccountIds -> Account], Prepared(accts),
           NEW entries \in Seq(Entry), Len(entries) = Len(ledger),
           \A i \in 1..Len(ledger) : Line(entries[i]) = Line(ledger[i]),
           NEW e \in Entry, Commit(accts, entries, e)
    PROVE  Book!Next
<1> DEFINE n == Len(ledger)
           x == Line(e)
<1>1. /\ ledger \in Seq(Entry) /\ n \in Nat /\ DOMAIN ledger = 1..n
      /\ FinanceTypeOK
  BY LenProperties DEF MoneyInv, FinanceTypeOK
<1>2. /\ ledger' \in Seq(Entry) /\ Len(ledger') = n + 1
      /\ \A i \in 1..n : ledger'[i] = entries[i]
      /\ ledger'[n + 1] = [e EXCEPT !.day = day]
  <2>1. /\ ledger' \in Seq(Entry) /\ Len(ledger') = Len(entries) + 1
        /\ \A i \in 1..Len(entries) : ledger'[i] = entries[i]
        /\ ledger'[Len(entries) + 1] = [e EXCEPT !.day = day]
    BY <1>1, LedgerAfterCommit
  <2> QED
    BY <2>1
<1>3. JournalLines \in Seq(Book!Transfers) /\ Len(JournalLines) = n
  BY <1>1, LinesSequence DEF JournalLines
<1>4. JournalLines' \in Seq(Book!Transfers) /\ Len(JournalLines') = n + 1
  BY <1>2, LinesSequence DEF JournalLines
<1>5. /\ x \in Book!Transfers /\ x.from = e.from /\ x.to = e.to /\ x.amount = e.amount
      /\ x.amount \in Nat \ {0}
  BY DEF Line, Entry, Amount, Book!Transfers
<1>6. JournalLines'[n + 1] = x
  <2>1. DOMAIN ledger' = 1..(n + 1)
    BY <1>2, LenProperties
  <2>2. JournalLines'[n + 1] = Line(ledger'[n + 1])
    BY <1>1, <2>1 DEF JournalLines, Line
  <2> QED
    BY <1>2, <2>2, Dated DEF Line
<1>7. \A i \in 1..n : JournalLines'[i] = JournalLines[i]
  <2>1. DOMAIN ledger' = 1..(n + 1)
    BY <1>2, LenProperties
  <2>2. ASSUME NEW i \in 1..n PROVE JournalLines'[i] = JournalLines[i]
    <3>1. JournalLines'[i] = Line(ledger'[i]) /\ JournalLines[i] = Line(ledger[i])
      BY <1>1, <2>1 DEF JournalLines, Line
    <3> QED
      BY <1>2, <3>1
  <2> QED
    BY <2>2
<1> HIDE DEF n, x
<1>8. JournalLines' = Append(JournalLines, x)
  <2>1. /\ Append(JournalLines, x) \in Seq(Book!Transfers)
        /\ Len(Append(JournalLines, x)) = n + 1
        /\ \A i \in 1..n : Append(JournalLines, x)[i] = JournalLines[i]
        /\ Append(JournalLines, x)[n + 1] = x
    BY <1>3, <1>5, AppendProperties
  <2>2. \A i \in 1..(n + 1) : JournalLines'[i] = Append(JournalLines, x)[i]
    BY <1>1, <1>6, <1>7, <2>1
  <2> QED
    BY <1>4, <2>1, <2>2, SeqEqual
<1>9. x.from # x.to /\ (x.from \in AccountIds => Balances[x.from] >= x.amount)
  BY <1>5, AccountAssumption DEF Commit, WellFormed, Affordable, Prepared, Balances
<1>10. Balances' = [a \in AccountIds |-> IF a = x.from THEN Balances[a] - x.amount
                                        ELSE IF a = x.to THEN Balances[a] + x.amount
                                        ELSE Balances[a]]
  <2>1. ASSUME NEW a \in AccountIds
        PROVE  accounts'[a].balance = IF a = x.from THEN accounts[a].balance - x.amount
                                      ELSE IF a = x.to THEN accounts[a].balance + x.amount
                                      ELSE accounts[a].balance
    <3>1. /\ accts[a] \in Account /\ accts[a].balance \in Nat /\ a # None
          /\ accts[a].balance = accounts[a].balance /\ x.amount \in Nat
          /\ (a = x.from => accts[a].balance >= x.amount)
      BY <1>5, <1>9, AccountAssumption DEF Account, Prepared, Balances
    <3>2. accounts'[a] = AfterPosting(accts, e)[a]
      BY DEF Commit
    <3>3. CASE a = x.from
      <4>1. accts[a].balance + (-x.amount) \in Nat
        BY <3>1, <3>3
      <4>2. accounts'[a] = Moved(accts[a], -x.amount, e, TypeOf(accts, e.to))
        BY <1>5, <3>2, <3>3 DEF AfterPosting
      <4>3. accounts'[a].balance = accts[a].balance + (-x.amount)
        BY <3>1, <4>1, <4>2, MovedType
      <4> QED
        BY <3>1, <3>3, <4>3
    <3>4. CASE a # x.from /\ a = x.to
      <4>1. accts[a].balance + x.amount \in Nat
        BY <3>1
      <4>2. accounts'[a] = Moved(accts[a], x.amount, e, TypeOf(accts, e.from))
        BY <1>5, <3>2, <3>4 DEF AfterPosting
      <4>3. accounts'[a].balance = accts[a].balance + x.amount
        BY <3>1, <4>1, <4>2, MovedType
      <4> QED
        BY <3>1, <3>4, <4>3
    <3>5. CASE a # x.from /\ a # x.to
      BY <1>5, <3>1, <3>2, <3>5 DEF AfterPosting
    <3> QED
      BY <3>3, <3>4, <3>5
  <2> QED
    BY <2>1 DEF Balances
<1>11. Len(JournalLines') = Len(JournalLines) + 1 /\ JournalLines'[Len(JournalLines')] = x
  BY <1>1, <1>3, <1>4, <1>6
<1>12. LET y == JournalLines'[Len(JournalLines')]
       IN  /\ y \in Book!Transfers
           /\ y.amount \in Nat \ {0}
           /\ y.from # y.to
           /\ y.from \in AccountIds => Balances[y.from] >= y.amount
           /\ JournalLines' = Append(JournalLines, y)
           /\ Balances' = [a \in AccountIds |-> IF a = y.from THEN Balances[a] - y.amount
                                               ELSE IF a = y.to THEN Balances[a] + y.amount
                                               ELSE Balances[a]]
  BY <1>5, <1>8, <1>9, <1>10, <1>11
<1> QED
  BY <1>11, <1>12, Zenon DEF Book!Next, Book!Record, JournalLines, Balances

\* The journal starts empty, with nothing in any account.
LEMMA JournalInit == FinanceInit => Book!Init
BY DEF FinanceInit, Book!Init, NewAccount

\* Every step of the code is one journal entry and its money, or neither.
LEMMA JournalStep == MoneyInv /\ ByTheBook => [Book!Next]_Book!vars
<1> SUFFICES ASSUME MoneyInv, ByTheBook
             PROVE  Book!Next \/ UNCHANGED Book!vars
  OBVIOUS
<1>1. FinanceTypeOK /\ ledger \in Seq(Entry)
  BY DEF MoneyInv, FinanceTypeOK
<1>2. CASE PostsEntry
  BY <1>1, <1>2, CommitRecords DEF PostsEntry
<1>3. CASE ReversesEntry
  <2>1. PICK accts \in [AccountIds -> Account], i \in DOMAIN ledger :
           Prepared(accts) /\ PostReversal(accts, i)
    BY <1>3 DEF ReversesEntry
  <2> DEFINE entries == [ledger EXCEPT ![i] = MarkReversed(@, NextNumber)]
  <2>2. ledger[i] \in Entry /\ NextNumber \in Nat
    BY <1>1 DEF NextNumber
  <2>3. MirrorOf(ledger[i], i) \in Entry
    BY <1>1, <2>1, <2>2, MirrorType DEF PostReversal
  <2>4. /\ entries \in Seq(Entry) /\ Len(entries) = Len(ledger)
        /\ entries[i] = MarkReversed(ledger[i], NextNumber)
        /\ \A h \in 1..Len(ledger) : h # i => entries[h] = ledger[h]
    BY <1>1, EntriesMarked
  <2>5. Line(MarkReversed(ledger[i], NextNumber)) = Line(ledger[i])
    BY <2>2, Marked DEF Line
  <2>6. Commit(accts, entries, MirrorOf(ledger[i], i))
    BY <2>1 DEF PostReversal
  <2> HIDE DEF entries
  <2>7. \A h \in 1..Len(ledger) : Line(entries[h]) = Line(ledger[h])
    BY <2>4, <2>5
  <2> QED
    BY <2>1, <2>3, <2>4, <2>6, <2>7, CommitRecords
<1>4. CASE MovesNothing
  BY <1>4 DEF MovesNothing, Prepared, Book!vars
<1> QED
  BY <1>2, <1>3, <1>4 DEF ByTheBook

\* The reconciliation guarantee of docs/FINANCE.md, for any accounts, amounts and
\* order of calls: a balance changes only with an entry, by exactly its amount, and
\* never below zero.
THEOREM JournalCorrect == FinanceSpec => ImplementsJournal
<1>1. FinanceSpec => Book!Spec
  BY JournalInit, JournalStep, FinanceByTheBook, MoneyInvariant, PTL DEF FinanceSpec, Book!Spec
<1> QED
  BY <1>1 DEF ImplementsJournal

-----------------------------------------------------------------------------
(* The summaries of the days *)

\* The entries of day d that bring money into a, or take it out.
Brought(l, d, a) == {i \in DOMAIN l : l[i].day = d /\ l[i].to = a}
Took(l, d, a) == {i \in DOMAIN l : l[i].day = d /\ l[i].from = a}

\* DailyMatchesLedger, said with AmountsOf.
DailyInv ==
    \A d \in Days, a \in AccountIds :
        /\ daily[d].in[a] = AmountsOf(ledger, Brought(ledger, d, a))
        /\ daily[d].out[a] = AmountsOf(ledger, Took(ledger, d, a))

LEMMA DailyInvSays == DailyInv => DailyMatchesLedger
<1> SUFFICES ASSUME DailyInv, NEW d \in Days, NEW a \in AccountIds
             PROVE  LET entries == {i \in EntryNumbers : ledger[i].day = d}
                    IN  /\ daily[d].in[a] =
                              SumOver(LAMBDA i : ledger[i].amount, {i \in entries : ledger[i].to = a})
                        /\ daily[d].out[a] =
                              SumOver(LAMBDA i : ledger[i].amount, {i \in entries : ledger[i].from = a})
  BY DEF DailyMatchesLedger
<1> DEFINE entries == {i \in DOMAIN ledger : ledger[i].day = d}
           into == {i \in entries : ledger[i].to = a}
           outof == {i \in entries : ledger[i].from = a}
<1>1. into = Brought(ledger, d, a) /\ outof = Took(ledger, d, a)
  BY DEF Brought, Took
<1> HIDE DEF into, outof
<1>2. daily[d].in[a] = AmountsOf(ledger, into) /\ daily[d].out[a] = AmountsOf(ledger, outof)
  BY <1>1 DEF DailyInv
<1>3. /\ daily[d].in[a] = SumOver(LAMBDA i : ledger[i].amount, into)
      /\ daily[d].out[a] = SumOver(LAMBDA i : ledger[i].amount, outof)
  BY <1>2 DEF AmountsOf, SumOver, MapThenSumSet, MapThenFoldSet
<1> QED
  BY <1>3 DEF into, outof, EntryNumbers, SumOver, MapThenSumSet, MapThenFoldSet

\* An entry that is posted is in the summary of its day.
LEMMA DailyCommit ==
    ASSUME FinanceTypeOK, DailyInv, NEW accts, NEW entries \in Seq(Entry),
           Len(entries) = Len(ledger),
           \A i \in 1..Len(ledger) : /\ entries[i].day = ledger[i].day
                                     /\ entries[i].amount = ledger[i].amount
                                     /\ entries[i].from = ledger[i].from
                                     /\ entries[i].to = ledger[i].to,
           NEW e \in Entry, Commit(accts, entries, e)
    PROVE  DailyInv'
<1> DEFINE n == Len(ledger)
<1>1. /\ ledger \in Seq(Entry) /\ n \in Nat /\ DOMAIN ledger = 1..n
      /\ \A i \in 1..n : ledger[i].amount \in Nat
  <2>1. ledger \in Seq(Entry) /\ n \in Nat /\ DOMAIN ledger = 1..n
    BY LenProperties DEF FinanceTypeOK
  <2>2. \A i \in 1..n : ledger[i] \in Entry
    BY <2>1, ElementOfSeq
  <2> QED
    BY <2>1, <2>2 DEF Entry, Amount
<1>2. /\ e.amount \in Nat /\ day \in Days /\ daily \in [Days -> Summary]
  BY DEF Entry, Amount, FinanceTypeOK
<1>3. /\ ledger' \in Seq(Entry) /\ Len(ledger') = n + 1
      /\ \A i \in 1..n : ledger'[i] = entries[i]
      /\ ledger'[n + 1] = [e EXCEPT !.day = day]
  <2>1. /\ ledger' \in Seq(Entry) /\ Len(ledger') = Len(entries) + 1
        /\ \A i \in 1..Len(entries) : ledger'[i] = entries[i]
        /\ ledger'[Len(entries) + 1] = [e EXCEPT !.day = day]
    BY LedgerAfterCommit
  <2> QED
    BY <2>1
<1>4. /\ DOMAIN ledger' = 1..(n + 1)
      /\ \A i \in 1..n : /\ ledger'[i].day = ledger[i].day
                         /\ ledger'[i].amount = ledger[i].amount
                         /\ ledger'[i].from = ledger[i].from
                         /\ ledger'[i].to = ledger[i].to
      /\ ledger'[n + 1].day = day /\ ledger'[n + 1].amount = e.amount
      /\ ledger'[n + 1].from = e.from /\ ledger'[n + 1].to = e.to
  <2>1. [e EXCEPT !.day = day].day = day
    BY DEF Entry
  <2>2. DOMAIN ledger' = 1..(n + 1)
    BY <1>3, LenProperties
  <2>3. /\ ledger'[n + 1].day = day /\ ledger'[n + 1].amount = e.amount
        /\ ledger'[n + 1].from = e.from /\ ledger'[n + 1].to = e.to
    BY <1>3, <2>1, Dated
  <2> QED
    BY <1>3, <2>2, <2>3
<1> HIDE DEF n
<1>5. ASSUME NEW d \in Days
      PROVE  daily'[d] = IF d = day THEN Summarised(daily[d], e) ELSE daily[d]
  BY <1>2 DEF Commit
<1>6. ASSUME NEW d \in Days, NEW a \in AccountIds
      PROVE  /\ daily[d].in[a] \in Nat /\ daily[d].out[a] \in Nat
             /\ daily'[d].in[a] = daily[d].in[a] + (IF d = day /\ e.to = a THEN e.amount ELSE 0)
             /\ daily'[d].out[a] = daily[d].out[a] + (IF d = day /\ e.from = a THEN e.amount ELSE 0)
  <2>1. daily[d] \in Summary
    BY <1>2
  <2>2. daily[d].in[a] \in Nat /\ daily[d].out[a] \in Nat
    BY <2>1 DEF Summary
  <2>3. /\ Summarised(daily[d], e).in[a]
             = IF a = e.to THEN daily[d].in[a] + e.amount ELSE daily[d].in[a]
        /\ Summarised(daily[d], e).out[a]
             = IF a = e.from THEN daily[d].out[a] + e.amount ELSE daily[d].out[a]
    BY <2>1 DEF Summarised, Summary
  <2> QED
    BY <1>2, <1>5, <2>2, <2>3
<1> SUFFICES ASSUME NEW d \in Days, NEW a \in AccountIds
             PROVE  /\ daily'[d].in[a] = AmountsOf(ledger', Brought(ledger', d, a))
                    /\ daily'[d].out[a] = AmountsOf(ledger', Took(ledger', d, a))
  BY DEF DailyInv
<1> DEFINE into == d = day /\ e.to = a
           outof == d = day /\ e.from = a
<1>7. /\ Brought(ledger, d, a) \subseteq 1..n /\ Took(ledger, d, a) \subseteq 1..n
      /\ Brought(ledger', d, a) = IF into THEN Brought(ledger, d, a) \cup {n + 1}
                                  ELSE Brought(ledger, d, a)
      /\ Took(ledger', d, a) = IF outof THEN Took(ledger, d, a) \cup {n + 1}
                               ELSE Took(ledger, d, a)
  <2>1. \A i \in 1..(n + 1) : i \in 1..n \/ i = n + 1
    BY <1>1
  <2>2. n + 1 \in 1..(n + 1) /\ 1..n \subseteq 1..(n + 1)
    BY <1>1
  <2> QED
    BY <1>1, <1>4, <2>1, <2>2 DEF Brought, Took
<1>8. into \in BOOLEAN /\ outof \in BOOLEAN
  OBVIOUS
<1> HIDE DEF into, outof
<1>9. /\ \A x \in 1..n : ledger[x].amount \in Nat /\ ledger'[x].amount = ledger[x].amount
      /\ ledger'[n + 1].amount \in Nat
  BY <1>1, <1>2, <1>4
<1> DEFINE next == ledger'
<1>10. ASSUME NEW S \in SUBSET (1..n)
       PROVE  /\ AmountsOf(next, S) = AmountsOf(ledger, S)
              /\ AmountsOf(next, S \cup {n + 1}) = AmountsOf(ledger, S) + next[n + 1].amount
              /\ AmountsOf(ledger, S) \in Nat
  <2>1. Lengthens(ledger, next, n)
    BY <1>1, <1>9 DEF Lengthens
  <2> HIDE DEF next
  <2> QED
    BY <2>1, AmountsLengthened
<1>11. /\ AmountsOf(ledger', Brought(ledger', d, a))
             = AmountsOf(ledger, Brought(ledger, d, a)) + (IF into THEN e.amount ELSE 0)
       /\ AmountsOf(ledger', Took(ledger', d, a))
             = AmountsOf(ledger, Took(ledger, d, a)) + (IF outof THEN e.amount ELSE 0)
  <2> DEFINE A == Brought(ledger, d, a)
             B == Took(ledger, d, a)
  <2>1. A \in SUBSET (1..n) /\ B \in SUBSET (1..n)
    BY <1>7
  <2>2. /\ Brought(ledger', d, a) = IF into THEN A \cup {n + 1} ELSE A
        /\ Took(ledger', d, a) = IF outof THEN B \cup {n + 1} ELSE B
    BY <1>7
  <2> HIDE DEF A, B
  <2>3. /\ AmountsOf(ledger', A) = AmountsOf(ledger, A)
        /\ AmountsOf(ledger', A \cup {n + 1}) = AmountsOf(ledger, A) + e.amount
        /\ AmountsOf(ledger, A) \in Nat
    BY <1>4, <1>10, <2>1
  <2>4. /\ AmountsOf(ledger', B) = AmountsOf(ledger, B)
        /\ AmountsOf(ledger', B \cup {n + 1}) = AmountsOf(ledger, B) + e.amount
        /\ AmountsOf(ledger, B) \in Nat
    BY <1>4, <1>10, <2>1
  <2>5. /\ AmountsOf(ledger', Brought(ledger', d, a))
             = AmountsOf(ledger, A) + (IF into THEN e.amount ELSE 0)
    BY <2>2, <2>3
  <2>6. /\ AmountsOf(ledger', Took(ledger', d, a))
             = AmountsOf(ledger, B) + (IF outof THEN e.amount ELSE 0)
    BY <2>2, <2>4
  <2> QED
    BY <2>5, <2>6 DEF A, B
<1> QED
  BY <1>6, <1>11 DEF DailyInv, into, outof

\* Nothing moved on any day at first.
LEMMA DailyInit == FinanceInit => DailyInv
<1> SUFFICES ASSUME FinanceInit, NEW d \in Days, NEW a \in AccountIds
             PROVE  /\ daily[d].in[a] = AmountsOf(ledger, Brought(ledger, d, a))
                    /\ daily[d].out[a] = AmountsOf(ledger, Took(ledger, d, a))
  BY DEF DailyInv
<1>1. Brought(ledger, d, a) = {} /\ Took(ledger, d, a) = {}
  BY DEF FinanceInit, Brought, Took
<1>2. daily[d].in[a] = 0 /\ daily[d].out[a] = 0
  BY DEF FinanceInit, EmptySummary
<1> QED
  BY <1>1, <1>2, AmountsEmpty

\* Every step keeps the summaries.
LEMMA DailyStep == MoneyInv /\ DailyInv /\ ByTheBook => DailyInv'
<1> SUFFICES ASSUME MoneyInv, DailyInv, ByTheBook PROVE DailyInv'
  OBVIOUS
<1>1. FinanceTypeOK /\ ledger \in Seq(Entry)
  BY DEF MoneyInv, FinanceTypeOK
<1>2. CASE PostsEntry
  BY <1>1, <1>2, DailyCommit DEF PostsEntry
<1>3. CASE ReversesEntry
  <2>1. PICK accts \in [AccountIds -> Account], i \in DOMAIN ledger : PostReversal(accts, i)
    BY <1>3 DEF ReversesEntry
  <2> DEFINE entries == [ledger EXCEPT ![i] = MarkReversed(@, NextNumber)]
  <2>2. ledger[i] \in Entry /\ NextNumber \in Nat
    BY <1>1 DEF NextNumber
  <2>3. MirrorOf(ledger[i], i) \in Entry
    BY <1>1, <2>1, <2>2, MirrorType DEF PostReversal
  <2>4. /\ entries \in Seq(Entry) /\ Len(entries) = Len(ledger)
        /\ entries[i] = MarkReversed(ledger[i], NextNumber)
        /\ \A h \in 1..Len(ledger) : h # i => entries[h] = ledger[h]
    BY <1>1, EntriesMarked
  <2> DEFINE marked == MarkReversed(ledger[i], NextNumber)
  <2>5. marked.day = ledger[i].day
    BY <2>2 DEF MarkReversed, Entry
  <2>6. /\ marked.amount = ledger[i].amount /\ marked.from = ledger[i].from
        /\ marked.to = ledger[i].to
    BY <2>2, Marked
  <2>7. Commit(accts, entries, MirrorOf(ledger[i], i))
    BY <2>1 DEF PostReversal
  <2>8. entries[i] = marked
    BY <2>4
  <2> HIDE DEF entries, marked
  <2>9. \A h \in 1..Len(ledger) : /\ entries[h].day = ledger[h].day
                                  /\ entries[h].amount = ledger[h].amount
                                  /\ entries[h].from = ledger[h].from
                                  /\ entries[h].to = ledger[h].to
    BY <2>4, <2>5, <2>6, <2>8
  <2> QED
    BY <1>1, <2>3, <2>4, <2>7, <2>9, DailyCommit
<1>4. CASE MovesNothing
  BY <1>4 DEF MovesNothing, DailyInv, Brought, Took
<1> QED
  BY <1>2, <1>3, <1>4 DEF ByTheBook

\* What the day's summaries say went into and out of an account is what the entries
\* of that day moved, for any accounts and any number of days, entries and reversals.
THEOREM DailyCorrect == FinanceSpec => []DailyMatchesLedger
BY DailyInvSays, MoneyInvariant, FinanceByTheBook, DailyInit, DailyStep, PTL DEF FinanceSpec

-----------------------------------------------------------------------------
(* Sums of functions *)

\* What holds of the empty set and of a set with one element more holds of all.
LEMMA FiniteInduction ==
    ASSUME NEW S, IsFiniteSet(S), NEW Good, {} \in Good,
           \A T \in SUBSET S, x \in S : T \in Good /\ x \notin T => T \cup {x} \in Good
    PROVE  S \in Good
<1> DEFINE C == {T \in SUBSET S : T \notin Good}
<1>1. ASSUME C # {} PROVE FALSE
  <2>1. PICK s \in C : \A t \in C : t \subseteq s => t = s
    <3>1. C \subseteq SUBSET S
      OBVIOUS
    <3> HIDE DEF C
    <3> QED
      BY <1>1, <3>1, SmallestSubset
  <2>2. s \in SUBSET S /\ s \notin Good /\ s # {}
    BY <2>1
  <2>3. PICK x \in s : TRUE
    BY <2>2
  <2>4. s \ {x} \in SUBSET S /\ s \ {x} \notin C /\ x \notin s \ {x} /\ (s \ {x}) \cup {x} = s
    BY <2>1, <2>2, <2>3
  <2>5. s \ {x} \in Good
    BY <2>4
  <2> QED
    BY <2>2, <2>3, <2>4, <2>5
<1> QED
  BY <1>1

LEMMA SumIsTotal ==
    ASSUME NEW f PROVE SumFunction(f) = Total(f, DOMAIN f)
BY DEF SumFunction, SumFunctionOnSet, FoldFunctionOnSet, Total, SumOver, MapThenSumSet, MapThenFoldSet

\* w weighs the elements of the finite set S: the hypotheses under one name.
Weighs(w, S) == IsFiniteSet(S) /\ \A x \in S : w[x] \in Int

LEMMA WeighedType == ASSUME NEW w, NEW S, Weighs(w, S) PROVE Total(w, S) \in Int
BY TotalType DEF Weighs

LEMMA WeighedPart ==
    ASSUME NEW w, NEW S, Weighs(w, S), NEW T, T \subseteq S PROVE Weighs(w, T)
BY FS_Subset DEF Weighs

LEMMA WeighedAdds ==
    ASSUME NEW w, NEW S, NEW T, Weighs(w, S), T \subseteq S, NEW z \in S, z \notin T
    PROVE  Total(w, T \cup {z}) = Total(w, T) + w[z]
<1>1. IsFiniteSet(T) /\ \A x \in T : w[x] \in Int
  BY WeighedPart DEF Weighs
<1>2. w[z] \in Int
  BY DEF Weighs
<1> QED
  BY <1>1, <1>2, TotalAdds

\* Weights that are zero but on B add up to what they add up to on B.
LEMMA TotalPart ==
    ASSUME NEW w, NEW S, Weighs(w, S), NEW B, B \subseteq S, \A x \in S \ B : w[x] = 0
    PROVE  Total(w, S) = Total(w, B)
<1> DEFINE Good == {T \in SUBSET S : Total(w, T) = Total(w, T \cap B)}
<1>1. {} \in Good
  <2>1. {} \cap B = {}
    OBVIOUS
  <2> QED
    BY <2>1
<1>2. ASSUME NEW T \in SUBSET S, NEW x \in S, T \in Good, x \notin T
      PROVE  T \cup {x} \in Good
  <2> DEFINE U == T \cap B
             V == (T \cup {x}) \cap B
  <2>1. Total(w, T) = Total(w, U)
    BY <1>2
  <2>2. /\ U \subseteq S /\ x \notin U
        /\ V = IF x \in B THEN U \cup {x} ELSE U
        /\ x \notin B => w[x] = 0
    BY <1>2
  <2> HIDE DEF U, V
  <2>3. Total(w, T \cup {x}) = Total(w, T) + w[x]
    BY <1>2, WeighedAdds
  <2>4. Total(w, U \cup {x}) = Total(w, U) + w[x]
    BY <2>2, WeighedAdds
  <2>5. Total(w, T) \in Int
    BY WeighedPart, WeighedType
  <2>6. Total(w, T \cup {x}) = Total(w, V)
    BY <2>1, <2>2, <2>3, <2>4, <2>5
  <2> QED
    BY <2>6 DEF V
<1> HIDE DEF Good
<1>3. S \in Good
  BY <1>1, <1>2, FiniteInduction DEF Weighs
<1>4. Total(w, S) = Total(w, S \cap B)
  BY <1>3 DEF Good
<1>5. S \cap B = B
  OBVIOUS
<1> QED
  BY <1>4, <1>5

\* Totals add up.
LEMMA TotalPlus ==
    ASSUME NEW f, NEW g, NEW h, NEW S, Weighs(f, S), Weighs(g, S),
           \A x \in S : h[x] = f[x] + g[x]
    PROVE  Weighs(h, S) /\ Total(h, S) = Total(f, S) + Total(g, S)
<1> DEFINE Good == {T \in SUBSET S : Total(h, T) = Total(f, T) + Total(g, T)}
<1>1. {} \in Good
  BY TotalEmpty
<1>2. Weighs(h, S)
  BY DEF Weighs
<1>3. ASSUME NEW T \in SUBSET S, NEW x \in S, T \in Good, x \notin T
      PROVE  T \cup {x} \in Good
  <2>1. Total(h, T \cup {x}) = Total(h, T) + h[x]
    BY <1>2, <1>3, WeighedAdds
  <2>2. Total(f, T \cup {x}) = Total(f, T) + f[x]
    BY <1>3, WeighedAdds
  <2>3. Total(g, T \cup {x}) = Total(g, T) + g[x]
    BY <1>3, WeighedAdds
  <2>4. Total(f, T) \in Int /\ Total(g, T) \in Int /\ f[x] \in Int /\ g[x] \in Int
    BY WeighedPart, WeighedType DEF Weighs
  <2>5. Total(h, T) = Total(f, T) + Total(g, T) /\ h[x] = f[x] + g[x]
    BY <1>3
  <2>6. Total(h, T \cup {x}) = Total(f, T \cup {x}) + Total(g, T \cup {x})
    BY <2>1, <2>2, <2>3, <2>4, <2>5
  <2> QED
    BY <2>6
<1> HIDE DEF Good
<1>4. S \in Good
  BY <1>1, <1>3, FiniteInduction DEF Weighs
<1> QED
  BY <1>2, <1>4 DEF Good

\* Smaller weights add up to less.
LEMMA TotalMonotone ==
    ASSUME NEW f, NEW g, NEW S, Weighs(f, S), Weighs(g, S), \A x \in S : f[x] <= g[x]
    PROVE  Total(f, S) <= Total(g, S)
<1> DEFINE d == [x \in S |-> g[x] - f[x]]
<1>1. \A x \in S : d[x] \in Nat /\ g[x] = f[x] + d[x]
  BY DEF Weighs
<1> HIDE DEF d
<1>2. Weighs(d, S)
  BY <1>1 DEF Weighs
<1>3. Total(g, S) = Total(f, S) + Total(d, S)
  BY <1>1, <1>2, TotalPlus
<1>4. Total(d, S) \in Nat
  BY <1>1, TotalType DEF Weighs
<1>5. Total(f, S) \in Int
  BY WeighedType
<1> QED
  BY <1>3, <1>4, <1>5

\* A factor of every weight is a factor of the total.
LEMMA TotalScaled ==
    ASSUME NEW f, NEW g, NEW S, Weighs(f, S), NEW n \in Int, \A x \in S : g[x] = n * f[x]
    PROVE  Weighs(g, S) /\ Total(g, S) = n * Total(f, S)
<1> DEFINE Good == {T \in SUBSET S : Total(g, T) = n * Total(f, T)}
<1>1. {} \in Good
  BY TotalEmpty
<1>2. Weighs(g, S)
  BY DEF Weighs
<1>3. ASSUME NEW T \in SUBSET S, NEW x \in S, T \in Good, x \notin T
      PROVE  T \cup {x} \in Good
  <2>1. Total(f, T \cup {x}) = Total(f, T) + f[x]
    BY <1>3, WeighedAdds
  <2>2. Total(g, T \cup {x}) = Total(g, T) + g[x]
    BY <1>2, <1>3, WeighedAdds
  <2>3. Total(f, T) \in Int /\ f[x] \in Int
    BY WeighedPart, WeighedType DEF Weighs
  <2>4. Total(g, T) = n * Total(f, T) /\ g[x] = n * f[x]
    BY <1>3
  <2>5. \A a, b \in Int : n * (a + b) = n * a + n * b
    OBVIOUS
  <2>6. Total(g, T \cup {x}) = n * Total(f, T \cup {x})
    BY <2>1, <2>2, <2>3, <2>4, <2>5
  <2> QED
    BY <2>6
<1> HIDE DEF Good
<1>4. S \in Good
  BY <1>1, <1>3, FiniteInduction DEF Weighs
<1> QED
  BY <1>2, <1>4 DEF Good

\* Weights of the same elements that are the same add up to the same.
LEMMA SumSame ==
    ASSUME NEW f, NEW g, NEW S, IsFiniteSet(S), DOMAIN f = S, DOMAIN g = S,
           \A x \in S : f[x] = g[x]
    PROVE  SumFunction(f) = SumFunction(g)
BY SumIsTotal, TotalSame

\* Weights in Nat add up to no less than any of them, and to zero when all are.
LEMMA TotalNat ==
    ASSUME NEW w, NEW S, IsFiniteSet(S), \A x \in S : w[x] \in Nat
    PROVE  /\ Total(w, S) \in Nat
           /\ \A x \in S : w[x] <= Total(w, S)
           /\ Total(w, S) = 0 <=> \A x \in S : w[x] = 0
<1>1. Weighs(w, S)
  BY DEF Weighs
<1>2. Total(w, S) \in Nat
  BY TotalType
<1>3. ASSUME NEW x \in S PROVE w[x] <= Total(w, S)
  <2> DEFINE T == S \ {x}
  <2>1. T \cup {x} = S /\ T \subseteq S /\ x \notin T
    OBVIOUS
  <2> HIDE DEF T
  <2>2. Total(w, T \cup {x}) = Total(w, T) + w[x]
    BY <1>1, <2>1, WeighedAdds
  <2>3. Total(w, T) \in Nat
    BY <1>1, <2>1, WeighedPart, TotalType DEF Weighs
  <2>4. Total(w, S) = Total(w, T) + w[x]
    BY <2>1, <2>2
  <2>5. w[x] \in Nat
    OBVIOUS
  <2> QED
    BY <2>3, <2>4, <2>5
<1>4. ASSUME \A x \in S : w[x] = 0 PROVE Total(w, S) = 0
  <2>1. Total(w, S) = Total(w, {})
    BY <1>1, <1>4, TotalPart
  <2> QED
    BY <2>1, TotalEmpty
<1>5. ASSUME Total(w, S) = 0, NEW x \in S PROVE w[x] = 0
  <2>1. w[x] <= Total(w, S) /\ w[x] \in Nat
    BY <1>3
  <2> QED
    BY <1>5, <2>1
<1>6. ASSUME NEW x \in S PROVE w[x] <= Total(w, S)
  BY <1>3
<1>7. Total(w, S) = 0 => \A x \in S : w[x] = 0
  BY <1>5
<1>8. (\A x \in S : w[x] = 0) => Total(w, S) = 0
  BY <1>4
<1> QED
  BY <1>2, <1>6, <1>7, <1>8

\* When the weights change on B only, their total changes as much as it does on B.
LEMMA TotalChange ==
    ASSUME NEW f, NEW g, NEW S, Weighs(f, S), Weighs(g, S), NEW B, B \subseteq S,
           \A x \in S \ B : g[x] = f[x]
    PROVE  Total(g, S) - Total(f, S) = Total(g, B) - Total(f, B)
<1> DEFINE d == [x \in S |-> g[x] - f[x]]
<1>1. /\ \A x \in S : d[x] \in Int /\ g[x] = f[x] + d[x]
      /\ \A x \in S \ B : d[x] = 0
  BY DEF Weighs
<1> HIDE DEF d
<1>2. Weighs(d, S)
  BY <1>1 DEF Weighs
<1>3. Total(g, S) = Total(f, S) + Total(d, S)
  BY <1>1, <1>2, TotalPlus
<1>4. Weighs(d, B) /\ Weighs(f, B) /\ \A x \in B : g[x] = f[x] + d[x]
  BY <1>1, <1>2, WeighedPart
<1>5. Total(g, B) = Total(f, B) + Total(d, B)
  BY <1>4, TotalPlus
<1>6. Total(d, S) = Total(d, B)
  BY <1>1, <1>2, TotalPart
<1>7. Total(f, S) \in Int /\ Total(f, B) \in Int /\ Total(d, B) \in Int
  BY <1>4, WeighedType
<1> QED
  BY <1>3, <1>5, <1>6, <1>7

LEMMA TotalOne == ASSUME NEW w, NEW x, w[x] \in Int PROVE Total(w, {x}) = w[x]
<1>1. Weighs(w, {x})
  BY FS_Singleton DEF Weighs
<1>2. Total(w, {} \cup {x}) = Total(w, {}) + w[x]
  BY <1>1, WeighedAdds
<1>3. {} \cup {x} = {x}
  OBVIOUS
<1> QED
  BY <1>2, <1>3, TotalEmpty

\* One weight changes.
LEMMA TotalChangeOne ==
    ASSUME NEW f, NEW g, NEW S, Weighs(f, S), Weighs(g, S), NEW z \in S,
           \A x \in S \ {z} : g[x] = f[x]
    PROVE  Total(g, S) - Total(f, S) = g[z] - f[z]
<1>1. f[z] \in Int /\ g[z] \in Int
  BY DEF Weighs
<1>2. Total(g, S) - Total(f, S) = Total(g, {z}) - Total(f, {z})
  BY TotalChange
<1> QED
  BY <1>1, <1>2, TotalOne

\* Renaming the elements, each to another one, leaves the total as it was.
LEMMA TotalRenamed ==
    ASSUME NEW f, NEW g, NEW S, Weighs(f, S), NEW h,
           \A x, y \in S : h[x] = h[y] => x = y, \A x \in S : g[h[x]] = f[x]
    PROVE  LET R == {h[x] : x \in S} IN Weighs(g, R) /\ Total(g, R) = Total(f, S)
<1> DEFINE R == {h[x] : x \in S}
           Good == {T \in SUBSET S : Total(f, T) = Total(g, {h[x] : x \in T})}
<1>1. Weighs(g, R)
  <2>1. IsFiniteSet(R)
    <3> DEFINE F == [x \in S |-> h[x]]
    <3>1. F \in Surjection(S, R)
      BY DEF Surjection
    <3> QED
      BY <3>1, FS_Surjection DEF Weighs
  <2> QED
    BY <2>1 DEF Weighs
<1>2. {} \in Good
  <2>1. {h[x] : x \in {}} = {}
    OBVIOUS
  <2> QED
    BY <2>1, TotalEmpty
<1>3. ASSUME NEW T \in SUBSET S, NEW z \in S, T \in Good, z \notin T
      PROVE  T \cup {z} \in Good
  <2> DEFINE U == {h[x] : x \in T}
             V == {h[x] : x \in T \cup {z}}
  <2>1. Total(f, T) = Total(g, U)
    BY <1>3
  <2>2. V = U \cup {h[z]} /\ U \subseteq R /\ h[z] \in R /\ h[z] \notin U
    BY <1>3
  <2> HIDE DEF U, V, R
  <2>3. Total(f, T \cup {z}) = Total(f, T) + f[z]
    BY <1>3, WeighedAdds
  <2>4. Total(g, U \cup {h[z]}) = Total(g, U) + g[h[z]]
    BY <1>1, <2>2, WeighedAdds
  <2>5. Total(f, T \cup {z}) = Total(g, V)
    BY <2>1, <2>2, <2>3, <2>4
  <2> QED
    BY <2>5 DEF V
<1> HIDE DEF Good
<1>4. S \in Good
  BY <1>2, <1>3, FiniteInduction DEF Weighs
<1>5. Total(f, S) = Total(g, R)
  BY <1>4 DEF Good
<1> QED
  BY <1>1, <1>5

\* g has one element more than f, z, and agrees on the others.
OneMore(f, g, z) ==
    /\ IsFiniteSet(DOMAIN f) /\ z \notin DOMAIN f /\ DOMAIN g = DOMAIN f \cup {z}
    /\ \A x \in DOMAIN f : f[x] \in Int /\ g[x] = f[x]
    /\ g[z] \in Int

\* Its weight is added to the sum.
LEMMA SumAdds ==
    ASSUME NEW f, NEW g, NEW z, OneMore(f, g, z)
    PROVE  SumFunction(g) = SumFunction(f) + g[z]
<1> DEFINE S == DOMAIN f
<1>1. /\ SumFunction(f) = Total(f, S) /\ SumFunction(g) = Total(g, S \cup {z})
      /\ IsFiniteSet(S) /\ z \notin S /\ g[z] \in Int
      /\ \A x \in S : g[x] \in Int
  BY SumIsTotal DEF OneMore
<1>2. \A x \in S : g[x] = f[x]
  BY DEF OneMore
<1> HIDE DEF S
<1>3. IsFiniteSet(S \cup {z})
  BY <1>1, FS_AddElement
<1>4. Weighs(g, S \cup {z})
  BY <1>1, <1>3 DEF Weighs
<1>5. Total(g, S \cup {z}) = Total(g, S) + g[z]
  BY <1>1, <1>4, WeighedAdds
<1>6. Total(g, S) = Total(f, S)
  BY <1>1, <1>2, TotalSame
<1> QED
  BY <1>1, <1>5, <1>6

LEMMA SumType ==
    ASSUME NEW f, NEW S, IsFiniteSet(S), DOMAIN f = S, NEW N, N = Int \/ N = Nat,
           \A x \in S : f[x] \in N
    PROVE  SumFunction(f) \in N
BY SumIsTotal, TotalType

LEMMA SumOfNone == ASSUME NEW f, DOMAIN f = {} PROVE SumFunction(f) = 0
BY SumIsTotal, TotalEmpty

-----------------------------------------------------------------------------
(* What a callable writes besides the balances *)

\* f is e but for its day and for whether it still stands.
Alike(f, e) ==
    /\ f.type = e.type /\ f.amount = e.amount
    /\ f.from = e.from /\ f.to = e.to
    /\ f.about = e.about /\ f.request = e.request

\* A live entry like e is added and no other entry is touched.
Appends(e) ==
    /\ Len(ledger') = Len(ledger) + 1
    /\ \A h \in 1..Len(ledger) : ledger'[h] = ledger[h]
    /\ Alike(ledger'[Len(ledger) + 1], e)
    /\ ledger'[Len(ledger) + 1].posted

\* Entry i stops standing and its mirror, which nobody requested, is added.
Reverts(i) ==
    /\ ledger[i].type # "reversal" /\ ledger[i].posted
    /\ Len(ledger') = Len(ledger) + 1
    /\ \A h \in 1..Len(ledger) : Alike(ledger'[h], ledger[h])
    /\ \A h \in 1..Len(ledger) : ledger'[h].posted = (h # i /\ ledger[h].posted)
    /\ ledger'[Len(ledger) + 1].type = "reversal"
    /\ ledger'[Len(ledger) + 1].request = None

EntryAlone ==
    /\ \E e \in Entry : /\ e.type \in {"customer_payment", "opening_balance"}
                        /\ e.request = None
                        /\ Appends(e)
    /\ UNCHANGED <<deposits, recs, requests>>
Transfers ==
    \E r \in RequestIds, e \in Entry :
        /\ Fresh(r)
        /\ e.type = "account_transfer" /\ e.request = r
        /\ Appends(e)
        /\ Store(r, "transfer", NextNumber)
        /\ UNCHANGED <<deposits, recs>>
Banks ==
    \E r \in RequestIds, e \in Entry :
        /\ Fresh(r)
        /\ e.type = "bank_deposit" /\ e.request = r /\ e.about = Len(deposits) + 1
        /\ Appends(e)
        /\ deposits' = Append(deposits, [txn |-> NextNumber, status |-> "completed"])
        /\ Store(r, "deposit", Len(deposits) + 1)
        /\ UNCHANGED recs
AdjustsFor ==
    \E r \in RequestIds, e \in Entry, k \in {0} \cup DOMAIN recs :
        /\ Fresh(r)
        /\ e.type = "adjustment" /\ e.request = r /\ e.about = k
        /\ k # 0 => /\ recs[k].status = "discrepancy"
                    /\ DeltaOf(e, recs[k].account) = recs[k].actual - recs[k].system
        /\ Appends(e)
        /\ recs' = IF k = 0 THEN recs
                   ELSE [recs EXCEPT ![k].status = "adjusted", ![k].adjustment = NextNumber]
        /\ Store(r, "adjustment", NextNumber)
        /\ UNCHANGED deposits
Reverting ==
    /\ \E i \in DOMAIN ledger : Reverts(i) /\ deposits' = DepositsAfterReversing(ledger[i])
    /\ UNCHANGED <<recs, requests>>
Reconciles ==
    \E r \in RequestIds, q \in Reconciliation, n \in Nat :
        /\ Fresh(r)
        /\ recs' = Append(recs, q)
        /\ Store(r, "reconciliation", n)
        /\ UNCHANGED <<ledger, deposits>>
Idles == UNCHANGED <<ledger, deposits, recs, requests>>

\* An entry that is committed is appended, dated.
LEMMA CommittedAppends ==
    ASSUME FinanceTypeOK, NEW accts, NEW e \in Entry, e.posted, Commit(accts, ledger, e)
    PROVE  Appends(e)
<1>1. ledger \in Seq(Entry)
  BY DEF FinanceTypeOK
<1>2. /\ Len(ledger') = Len(ledger) + 1
      /\ \A h \in 1..Len(ledger) : ledger'[h] = ledger[h]
  BY <1>1, LedgerAfterCommit
<1>3. ledger'[Len(ledger) + 1] = [e EXCEPT !.day = day]
  BY <1>1, LedgerAfterCommit
<1>4. Alike([e EXCEPT !.day = day], e) /\ [e EXCEPT !.day = day].posted
  BY DEF Alike, Entry
<1> QED
  BY <1>2, <1>3, <1>4 DEF Appends

\* Reversing entry i marks it and appends its mirror.
LEMMA ReversalReverts ==
    ASSUME FinanceTypeOK, NEW accts, NEW i \in DOMAIN ledger, PostReversal(accts, i)
    PROVE  Reverts(i)
<1> DEFINE n == Len(ledger) + 1
           entries == [ledger EXCEPT ![i] = MarkReversed(@, NextNumber)]
           mirror == MirrorOf(ledger[i], i)
<1>1. ledger \in Seq(Entry) /\ i \in 1..Len(ledger) /\ ledger[i] \in Entry
  BY DEF FinanceTypeOK
<1>2. mirror \in Entry /\ CanReverse(ledger[i])
  BY <1>1, MirrorType DEF PostReversal
<1>3. /\ entries \in Seq(Entry) /\ Len(entries) = Len(ledger)
      /\ entries[i] = MarkReversed(ledger[i], NextNumber)
      /\ \A h \in 1..Len(ledger) : h # i => entries[h] = ledger[h]
  BY EntriesMarked
<1>4. Commit(accts, entries, mirror)
  BY DEF PostReversal
<1>5. mirror.type = "reversal" /\ mirror.request = None
  BY DEF MirrorOf, NewEntry
<1>6. Alike(entries[i], ledger[i]) /\ entries[i].posted = FALSE
  BY <1>1, <1>3 DEF MarkReversed, Alike, Entry
<1> HIDE DEF entries, mirror
<1>7. /\ Len(ledger') = n
      /\ \A h \in 1..Len(ledger) : ledger'[h] = entries[h]
      /\ ledger'[n] = [mirror EXCEPT !.day = day]
  BY <1>2, <1>3, <1>4, LedgerAfterCommit
<1>8. ledger'[n].type = "reversal" /\ ledger'[n].request = None
  BY <1>2, <1>5, <1>7 DEF Entry
<1>9. \A h \in 1..Len(ledger) : /\ Alike(ledger'[h], ledger[h])
                                /\ ledger'[h].posted = (h # i /\ ledger[h].posted)
  <2> SUFFICES ASSUME NEW h \in 1..Len(ledger)
               PROVE  /\ Alike(ledger'[h], ledger[h])
                      /\ ledger'[h].posted = (h # i /\ ledger[h].posted)
    OBVIOUS
  <2>1. ledger[h] \in Entry
    BY <1>1
  <2>2. ledger[h].posted \in BOOLEAN
    BY <2>1 DEF Entry
  <2>3. CASE h = i
    <3>1. ledger'[h] = entries[i]
      BY <1>7, <2>3
    <3>2. ledger'[h].posted = FALSE /\ Alike(ledger'[h], ledger[h])
      BY <1>6, <2>3, <3>1
    <3> QED
      BY <2>3, <3>2
  <2>4. CASE h # i
    <3>1. ledger'[h] = ledger[h]
      BY <1>3, <1>7, <2>4
    <3>2. Alike(ledger[h], ledger[h])
      BY DEF Alike
    <3> QED
      BY <2>2, <2>4, <3>1, <3>2
  <2> QED
    BY <2>3, <2>4
<1> QED
  BY <1>2, <1>7, <1>8, <1>9 DEF Reverts, CanReverse

-----------------------------------------------------------------------------
(* Each callable does one of the seven *)

\* A customer payment enters an entry nobody requested.
LEMMA DocumentPayments == FinanceTypeOK /\ Payments => EntryAlone
<1> SUFFICES ASSUME FinanceTypeOK, NEW method \in Defaults, NEW n \in Amounts,
                    NEW requested \in AccountIds \cup {None},
                    PostCustomerPayment(method, requested, n)
             PROVE  EntryAlone
  BY DEF Payments
<1>1. PICK a \in AccountIds : Post(NewEntry("customer_payment", n, None, a))
  BY DEF PostCustomerPayment
<1> DEFINE e == NewEntry("customer_payment", n, None, a)
<1>2. e \in Entry
  BY NewEntryType, BoundAssumption DEF PostingTypes
<1>3. e.posted /\ e.type = "customer_payment" /\ e.request = None
  BY DEF NewEntry
<1>4. Commit(accounts, ledger, e)
  BY <1>1 DEF Post
<1> HIDE DEF e
<1>5. Appends(e)
  BY <1>2, <1>3, <1>4, CommittedAppends
<1> QED
  BY <1>2, <1>3, <1>5 DEF EntryAlone, PostCustomerPayment

\* An opening balance enters an entry; other changes of an account write nothing else.
LEMMA DocumentOpening ==
    ASSUME FinanceTypeOK, NEW accts, NEW a \in AccountIds, NEW n \in Amount,
           Commit(accts, ledger, NewEntry("opening_balance", n, None, a))
    PROVE  /\ NewEntry("opening_balance", n, None, a) \in Entry
           /\ Appends(NewEntry("opening_balance", n, None, a))
<1> DEFINE e == NewEntry("opening_balance", n, None, a)
<1>1. e \in Entry
  BY NewEntryType DEF PostingTypes
<1>2. e.posted
  BY DEF NewEntry
<1> HIDE DEF e
<1>3. Appends(e)
  BY <1>1, <1>2, CommittedAppends DEF e
<1> QED
  BY <1>1, <1>3 DEF e

LEMMA DocumentAccounts == FinanceTypeOK /\ AccountChanges => EntryAlone \/ Idles
<1> SUFFICES ASSUME FinanceTypeOK, AccountChanges PROVE EntryAlone \/ Idles
  OBVIOUS
<1>1. ASSUME NEW accts, NEW a \in AccountIds, NEW n \in Amount,
             Commit(accts, ledger, NewEntry("opening_balance", n, None, a)),
             UNCHANGED <<deposits, recs, requests>>
      PROVE  EntryAlone
  <2>1. /\ NewEntry("opening_balance", n, None, a).type = "opening_balance"
        /\ NewEntry("opening_balance", n, None, a).request = None
    BY DEF NewEntry
  <2> QED
    BY <1>1, <2>1, DocumentOpening DEF EntryAlone
<1>2. CASE EnsureDefaultAccounts
  BY <1>2 DEF EnsureDefaultAccounts, Idles
<1>3. ASSUME NEW a \in Extra, NEW type \in {"mobile_money", "bank"}, NEW n \in Amounts \cup {0},
             CreateAccount(a, type, n)
      PROVE  EntryAlone \/ Idles
  <2>1. a \in AccountIds
    BY DEF AccountIds
  <2>2. CASE n > 0
    <3>1. n \in Amount
      BY <2>2, BoundAssumption DEF Amount
    <3> QED
      BY <1>1, <1>3, <2>1, <2>2, <3>1 DEF CreateAccount
  <2>3. CASE ~(n > 0)
    BY <1>3, <2>3 DEF CreateAccount, Idles
  <2> QED
    BY <2>2, <2>3
<1>4. ASSUME NEW a \in AccountIds, NEW active \in BOOLEAN, UpdateAccount(a, active)
      PROVE  Idles
  BY <1>4 DEF UpdateAccount, Idles
<1>5. ASSUME NEW a \in AccountIds, NEW n \in Amounts, RecordOpeningBalance(a, n)
      PROVE  EntryAlone
  BY <1>1, <1>5, BoundAssumption DEF RecordOpeningBalance
<1> QED
  BY <1>2, <1>3, <1>4, <1>5 DEF AccountChanges

\* A transfer and a deposit enter the entry their request asked for.
LEMMA DocumentMovements == FinanceTypeOK /\ Movements => Transfers \/ Banks
<1> SUFFICES ASSUME FinanceTypeOK,
                    NEW r \in RequestIds, NEW from \in AccountIds, NEW to \in AccountIds,
                    NEW n \in Amounts,
                    TransferFunds(r, from, to, n) \/ RecordBankDeposit(r, from, to, n)
             PROVE  Transfers \/ Banks
  BY DEF Movements
<1>1. n \in Amount /\ Len(deposits) + 1 \in Nat
  BY BoundAssumption DEF FinanceTypeOK
<1>2. CASE TransferFunds(r, from, to, n)
  <2> DEFINE e == [NewEntry("account_transfer", n, from, to) EXCEPT !.request = r]
  <2>1. e \in Entry
    BY <1>1, NewEntryType DEF PostingTypes
  <2>2. e.posted /\ e.type = "account_transfer" /\ e.request = r
    BY DEF NewEntry
  <2>3. Commit(accounts, ledger, e)
    BY <1>2 DEF TransferFunds, Post
  <2> HIDE DEF e
  <2>4. Appends(e)
    BY <2>1, <2>2, <2>3, CommittedAppends
  <2> QED
    BY <1>2, <2>1, <2>2, <2>4 DEF TransferFunds, Transfers
<1>3. CASE RecordBankDeposit(r, from, to, n)
  <2> DEFINE e == [NewEntry("bank_deposit", n, from, to) EXCEPT
                      !.about = Len(deposits) + 1, !.request = r]
  <2>1. e \in Entry
    BY <1>1, NewEntryType DEF PostingTypes
  <2>2. e.posted /\ e.type = "bank_deposit" /\ e.request = r /\ e.about = Len(deposits) + 1
    BY DEF NewEntry
  <2>3. Commit(accounts, ledger, e)
    BY <1>3 DEF RecordBankDeposit, Post
  <2> HIDE DEF e
  <2>4. Appends(e)
    BY <2>1, <2>2, <2>3, CommittedAppends
  <2> QED
    BY <1>3, <2>1, <2>2, <2>4 DEF RecordBankDeposit, Banks
<1> QED
  BY <1>2, <1>3

\* An adjustment that closes a reconciliation moves exactly its difference.
LEMMA AdjustmentCloses ==
    ASSUME NEW q \in Reconciliation, NEW in \in BOOLEAN, NEW n \in Nat,
           ExactDifference(q, in, n)
    PROVE  DeltaOf(Adjustment(q.account, in, n), q.account) = q.actual - q.system
<1>1. q.account # None /\ q.actual \in Nat /\ q.system \in Nat
  BY AccountAssumption DEF Reconciliation
<1>2. CASE q.actual > q.system
  <2>1. in /\ n = q.actual - q.system
    BY <1>2 DEF ExactDifference
  <2>2. /\ Adjustment(q.account, in, n).from = None
        /\ Adjustment(q.account, in, n).to = q.account
        /\ Adjustment(q.account, in, n).amount = n
    BY <2>1 DEF Adjustment, NewEntry
  <2> QED
    BY <1>1, <2>1, <2>2 DEF DeltaOf
<1>3. CASE ~(q.actual > q.system)
  <2>1. ~in /\ n = q.system - q.actual
    BY <1>3 DEF ExactDifference
  <2>2. /\ Adjustment(q.account, in, n).from = q.account
        /\ Adjustment(q.account, in, n).amount = n
    BY <2>1 DEF Adjustment, NewEntry
  <2> QED
    BY <1>1, <2>1, <2>2 DEF DeltaOf
<1> QED
  BY <1>2, <1>3

LEMMA DocumentCorrections == FinanceTypeOK /\ Corrections => AdjustsFor \/ Reconciles
<1> SUFFICES ASSUME FinanceTypeOK, NEW r \in RequestIds, NEW a \in AccountIds,
                    \/ \E actual \in Counts : ReconcileAccount(r, a, actual)
                    \/ \E in \in BOOLEAN, n \in Amounts, k \in {0} \cup DOMAIN recs :
                          RecordAdjustment(r, a, in, n, k)
             PROVE  AdjustsFor \/ Reconciles
  BY DEF Corrections
<1>1. ASSUME NEW actual \in Counts, ReconcileAccount(r, a, actual)
      PROVE  Reconciles
  <2> DEFINE q == [account |-> a, system |-> accounts[a].balance, actual |-> actual,
                   status |-> IF actual = accounts[a].balance THEN "balanced" ELSE "discrepancy",
                   adjustment |-> 0]
  <2>1. q \in Reconciliation /\ Len(recs) + 1 \in Nat
    BY BoundAssumption DEF FinanceTypeOK, Account, Reconciliation
  <2>2. recs' = Append(recs, q)
    BY <1>1 DEF ReconcileAccount
  <2> HIDE DEF q
  <2> QED
    BY <1>1, <2>1, <2>2 DEF ReconcileAccount, Reconciles
<1>2. ASSUME NEW in \in BOOLEAN, NEW n \in Amounts, NEW k \in {0} \cup DOMAIN recs,
             RecordAdjustment(r, a, in, n, k)
      PROVE  AdjustsFor
  <2> DEFINE e == [Adjustment(a, in, n) EXCEPT !.about = k, !.request = r]
  <2>1. n \in Amount /\ n \in Nat /\ k \in Nat
    BY BoundAssumption DEF FinanceTypeOK, Amount
  <2>2. e \in Entry
    BY <2>1, NewEntryType DEF Adjustment, PostingTypes
  <2>3. e.posted /\ e.type = "adjustment" /\ e.request = r /\ e.about = k
    BY DEF Adjustment, NewEntry
  <2>4. DeltaOf(e, a) = DeltaOf(Adjustment(a, in, n), a)
    BY DEF Adjustment, NewEntry, DeltaOf
  <2>5. Commit(accounts, ledger, e)
    BY <1>2 DEF RecordAdjustment, Post
  <2> HIDE DEF e
  <2>6. Appends(e)
    BY <2>2, <2>3, <2>5, CommittedAppends
  <2>7. k # 0 => /\ recs[k].status = "discrepancy"
                 /\ DeltaOf(e, recs[k].account) = recs[k].actual - recs[k].system
    <3> SUFFICES ASSUME k # 0
                 PROVE  /\ recs[k].status = "discrepancy"
                        /\ DeltaOf(e, recs[k].account) = recs[k].actual - recs[k].system
      OBVIOUS
    <3>1. recs[k] \in Reconciliation
      BY DEF FinanceTypeOK
    <3>2. /\ recs[k].status = "discrepancy" /\ recs[k].account = a
          /\ ExactDifference(recs[k], in, n)
      BY <1>2 DEF RecordAdjustment
    <3> QED
      BY <2>1, <2>4, <3>1, <3>2, AdjustmentCloses
  <2> QED
    BY <1>2, <2>2, <2>3, <2>6, <2>7 DEF RecordAdjustment, AdjustsFor
<1> QED
  BY <1>1, <1>2

\* A reversal reverses one entry, and the deposit record with it.
LEMMA DocumentReversals == FinanceTypeOK /\ Reversals => Reverting
<1> SUFFICES ASSUME FinanceTypeOK, NEW i \in DOMAIN ledger,
                    ReverseTransaction(i) \/ ReverseCustomerPayment(i)
             PROVE  Reverting
  BY DEF Reversals
<1>1. CASE ReverseCustomerPayment(i)
  <2>1. Reverts(i)
    BY <1>1, ReversalReverts DEF ReverseCustomerPayment
  <2>2. deposits' = DepositsAfterReversing(ledger[i]) /\ UNCHANGED <<recs, requests>>
    BY <1>1 DEF ReverseCustomerPayment, DepositsAfterReversing
  <2> QED
    BY <2>1, <2>2 DEF Reverting
<1>2. CASE ReverseTransaction(i)
  <2>1. Reverts(i)
    BY <1>2, ReversalReverts DEF ReverseTransaction
  <2> QED
    BY <1>2, <2>1 DEF Reverting, ReverseTransaction
<1> QED
  BY <1>1, <1>2

\* Every step does one of the seven.
LEMMA DocumentStep ==
    FinanceTypeOK /\ [FinanceNext]_financeVars =>
        EntryAlone \/ Transfers \/ Banks \/ AdjustsFor \/ Reverting \/ Reconciles \/ Idles
<1>1. NextDay \/ UNCHANGED financeVars => Idles
  BY DEF NextDay, financeVars, Idles
<1> QED
  BY <1>1, DocumentPayments, DocumentAccounts, DocumentMovements, DocumentCorrections,
     DocumentReversals DEF FinanceNext

-----------------------------------------------------------------------------
(* Bank deposits *)

\* What TypeOK says of the sequences, in the form the proofs below use.
LEMMA Documents ==
    FinanceTypeOK =>
        /\ Len(ledger) \in Nat /\ DOMAIN ledger = 1..Len(ledger)
        /\ Len(deposits) \in Nat /\ DOMAIN deposits = 1..Len(deposits)
        /\ Len(recs) \in Nat /\ DOMAIN recs = 1..Len(recs)
        /\ \A i \in 1..Len(ledger) : ledger[i] \in Entry
        /\ \A k \in 1..Len(deposits) : deposits[k] \in Deposit
        /\ \A k \in 1..Len(recs) : recs[k] \in Reconciliation
        /\ requests \in [RequestIds -> StoredResult]
BY LenProperties DEF FinanceTypeOK

\* DepositsMatchLedger over numbers: the two halves name each other.
DepositsInv ==
    /\ \A k \in 1..Len(deposits) :
          /\ deposits[k].txn \in 1..Len(ledger)
          /\ ledger[deposits[k].txn].type = "bank_deposit"
          /\ ledger[deposits[k].txn].about = k
          /\ ledger[deposits[k].txn].posted = (deposits[k].status = "completed")
    /\ \A i \in 1..Len(ledger) : ledger[i].type = "bank_deposit" =>
          ledger[i].about \in 1..Len(deposits) /\ deposits[ledger[i].about].txn = i

LEMMA DepositsDefined == FinanceTypeOK => (DepositsInv <=> DepositsMatchLedger)
BY Documents DEF DepositsInv, DepositsMatchLedger, EntryNumbers

\* An entry that is no deposit leaves them as they were.
LEMMA DepositsAppend ==
    ASSUME FinanceTypeOK, DepositsInv, NEW e \in Entry, Appends(e), e.type # "bank_deposit",
           UNCHANGED deposits
    PROVE  DepositsInv'
BY Documents DEF DepositsInv, Appends, Alike

LEMMA DepositsBanks == FinanceTypeOK /\ FinanceTypeOK' /\ DepositsInv /\ Banks => DepositsInv'
<1> SUFFICES ASSUME FinanceTypeOK, FinanceTypeOK', DepositsInv, Banks PROVE DepositsInv'
  OBVIOUS
<1> DEFINE n == Len(ledger) + 1
           m == Len(deposits) + 1
           d == [txn |-> n, status |-> "completed"]
<1>1. PICK e \in Entry : /\ e.type = "bank_deposit" /\ e.about = m /\ Appends(e)
                         /\ deposits' = Append(deposits, d)
  BY DEF Banks, NextNumber
<1>2. /\ Len(ledger') = n /\ \A h \in 1..Len(ledger) : ledger'[h] = ledger[h]
      /\ ledger'[n].type = "bank_deposit" /\ ledger'[n].about = m /\ ledger'[n].posted
  BY <1>1 DEF Appends, Alike
<1>3. n \in 1..Len(ledger') /\ ledger'[n].posted = TRUE
  BY <1>2, Documents DEF Entry
<1>4. /\ Len(deposits') = m /\ deposits'[m] = d
      /\ \A k \in 1..Len(deposits) : deposits'[k] = deposits[k]
  BY <1>1, AppendProperties DEF FinanceTypeOK
<1>5. d.txn = n /\ d.status = "completed"
  OBVIOUS
<1> HIDE DEF d
<1>6. ASSUME NEW k \in 1..m
      PROVE  /\ deposits'[k].txn \in 1..n
             /\ ledger'[deposits'[k].txn].type = "bank_deposit"
             /\ ledger'[deposits'[k].txn].about = k
             /\ ledger'[deposits'[k].txn].posted = (deposits'[k].status = "completed")
  <2>1. CASE k = m
    BY <1>2, <1>3, <1>4, <1>5, <2>1
  <2>2. CASE k # m
    <3>1. k \in 1..Len(deposits) /\ deposits'[k] = deposits[k]
      BY <1>4, <2>2, Documents
    <3>2. deposits[k].txn \in 1..Len(ledger)
      BY <3>1 DEF DepositsInv
    <3>3. /\ ledger'[deposits[k].txn] = ledger[deposits[k].txn]
          /\ deposits[k].txn \in 1..n
      BY <1>2, <3>2, Documents
    <3> QED
      BY <3>1, <3>3 DEF DepositsInv
  <2> QED
    BY <2>1, <2>2
<1>7. ASSUME NEW i \in 1..n, ledger'[i].type = "bank_deposit"
      PROVE  ledger'[i].about \in 1..m /\ deposits'[ledger'[i].about].txn = i
  <2>1. CASE i = n
    BY <1>2, <1>4, <1>5, <2>1, Documents
  <2>2. CASE i # n
    <3>1. i \in 1..Len(ledger) /\ ledger'[i] = ledger[i]
      BY <1>2, <2>2, Documents
    <3> QED
      BY <1>4, <1>7, <3>1, Documents DEF DepositsInv
  <2> QED
    BY <2>1, <2>2
<1> QED
  BY <1>2, <1>4, <1>6, <1>7 DEF DepositsInv

\* Reversing a deposit's entry reverses that deposit and no other.
LEMMA DepositsReverting ==
    FinanceTypeOK /\ FinanceTypeOK' /\ DepositsInv /\ Reverting => DepositsInv'
<1> SUFFICES ASSUME FinanceTypeOK, FinanceTypeOK', DepositsInv, Reverting PROVE DepositsInv'
  OBVIOUS
<1>1. PICK i \in 1..Len(ledger) :
         Reverts(i) /\ deposits' = DepositsAfterReversing(ledger[i])
  BY Documents DEF Reverting
<1> DEFINE n == Len(ledger) + 1
           j == ledger[i].about
<1>2. /\ Len(ledger') = n /\ Len(ledger) \in Nat /\ ledger'[n].type = "reversal"
      /\ \A h \in 1..Len(ledger) :
            /\ ledger'[h].type = ledger[h].type /\ ledger'[h].about = ledger[h].about
            /\ ledger'[h].posted = (h # i /\ ledger[h].posted)
            /\ ledger[h].posted \in BOOLEAN
  BY <1>1, Documents DEF Reverts, Alike, Entry
<1>3. CASE ledger[i].type = "bank_deposit"
  <2>1. j \in 1..Len(deposits) /\ deposits[j].txn = i
    BY <1>3 DEF DepositsInv
  <2>2. deposits' = [deposits EXCEPT ![j].status = "reversed"]
    BY <1>1, <1>3 DEF DepositsAfterReversing
  <2>3. /\ Len(deposits') = Len(deposits)
        /\ \A k \in 1..Len(deposits) :
              /\ deposits'[k].txn = deposits[k].txn
              /\ deposits'[k].status = IF k = j THEN "reversed" ELSE deposits[k].status
    BY <2>1, <2>2, Documents DEF Deposit, FinanceTypeOK
  <2>4. ASSUME NEW k \in 1..Len(deposits)
        PROVE  /\ deposits'[k].txn \in 1..Len(ledger')
               /\ ledger'[deposits'[k].txn].type = "bank_deposit"
               /\ ledger'[deposits'[k].txn].about = k
               /\ ledger'[deposits'[k].txn].posted = (deposits'[k].status = "completed")
    <3>1. /\ deposits[k].txn \in 1..Len(ledger)
          /\ ledger[deposits[k].txn].type = "bank_deposit"
          /\ ledger[deposits[k].txn].about = k
          /\ ledger[deposits[k].txn].posted = (deposits[k].status = "completed")
      BY DEF DepositsInv
    <3>2. k = j <=> deposits[k].txn = i
      BY <2>1, <3>1
    <3> QED
      BY <1>2, <2>3, <3>1, <3>2
  <2>5. ASSUME NEW h \in 1..Len(ledger'), ledger'[h].type = "bank_deposit"
        PROVE  ledger'[h].about \in 1..Len(deposits') /\ deposits'[ledger'[h].about].txn = h
    <3>1. h \in 1..Len(ledger)
      BY <1>2, <2>5
    <3>2. ledger[h].type = "bank_deposit" /\ ledger'[h].about = ledger[h].about
      BY <1>2, <2>5, <3>1
    <3>3. ledger[h].about \in 1..Len(deposits) /\ deposits[ledger[h].about].txn = h
      BY <3>1, <3>2 DEF DepositsInv
    <3> QED
      BY <2>3, <3>2, <3>3
  <2> QED
    BY <2>4, <2>5, <2>3 DEF DepositsInv
<1>4. CASE ledger[i].type # "bank_deposit"
  <2>1. deposits' = deposits
    BY <1>1, <1>4 DEF DepositsAfterReversing
  <2>2. \A k \in 1..Len(deposits) :
            /\ deposits[k].txn \in 1..Len(ledger) /\ deposits[k].txn # i
            /\ ledger'[deposits[k].txn].type = "bank_deposit"
            /\ ledger'[deposits[k].txn].about = k
            /\ ledger'[deposits[k].txn].posted = (deposits[k].status = "completed")
    BY <1>2, <1>4 DEF DepositsInv
  <2>3. ASSUME NEW h \in 1..Len(ledger'), ledger'[h].type = "bank_deposit"
        PROVE  ledger'[h].about \in 1..Len(deposits) /\ deposits[ledger'[h].about].txn = h
    <3>1. h \in 1..Len(ledger)
      BY <1>2, <2>3
    <3> QED
      BY <1>2, <2>3, <3>1 DEF DepositsInv
  <2> QED
    BY <1>2, <2>1, <2>2, <2>3 DEF DepositsInv
<1> QED
  BY <1>3, <1>4

LEMMA DepositsStep ==
    FinanceTypeOK /\ DepositsInv /\ [FinanceNext]_financeVars => DepositsInv'
<1> SUFFICES ASSUME FinanceTypeOK, DepositsInv, [FinanceNext]_financeVars PROVE DepositsInv'
  OBVIOUS
<1>1. FinanceTypeOK'
  BY TypeStep
<1>2. CASE EntryAlone
  BY <1>2, DepositsAppend DEF EntryAlone
<1>3. CASE Transfers
  BY <1>3, DepositsAppend DEF Transfers
<1>4. CASE AdjustsFor
  BY <1>4, DepositsAppend DEF AdjustsFor
<1>5. CASE Reconciles \/ Idles
  BY <1>5 DEF Reconciles, Idles, DepositsInv
<1> QED
  BY <1>1, <1>2, <1>3, <1>4, <1>5, DocumentStep, DepositsBanks, DepositsReverting

\* Whatever is deposited, reversed and deposited again, and however many deposits
\* there are: a deposit record and its entry name each other and stand together.
THEOREM DepositsCorrect == FinanceSpec => []DepositsMatchLedger
<1>1. FinanceInit => DepositsInv
  BY DEF FinanceInit, DepositsInv
<1> QED
  BY <1>1, DepositsStep, DepositsDefined, TypeCorrect, PTL DEF FinanceSpec

-----------------------------------------------------------------------------
(* Reconciliations *)

\* ReconciliationsClosedExactly, with what it takes for granted: the adjustment
\* is about a reconciliation there is.
ClosingsInv ==
    \A i \in 1..Len(ledger) : (ledger[i].type = "adjustment" /\ ledger[i].about # 0) =>
        LET q == recs[ledger[i].about]
        IN  /\ ledger[i].about \in 1..Len(recs)
            /\ q.status = "adjusted" /\ q.adjustment = i
            /\ DeltaOf(ledger[i], q.account) = q.actual - q.system

LEMMA ClosingsDefined == FinanceTypeOK /\ ClosingsInv => ReconciliationsClosedExactly
BY Documents DEF ClosingsInv, ReconciliationsClosedExactly, EntryNumbers

\* Entries that are alike did the same to every balance.
LEMMA DeltaAlike ==
    ASSUME NEW f, NEW e, Alike(f, e), NEW a
    PROVE  DeltaOf(f, a) = DeltaOf(e, a)
BY DEF Alike, DeltaOf

LEMMA ClosingsAppend ==
    ASSUME FinanceTypeOK, ClosingsInv, NEW e \in Entry, Appends(e), e.type # "adjustment",
           UNCHANGED recs
    PROVE  ClosingsInv'
BY Documents DEF ClosingsInv, Appends, Alike

\* Only a discrepancy is adjusted, so nothing had closed this one before.
LEMMA ClosingsAdjusts == FinanceTypeOK /\ ClosingsInv /\ AdjustsFor => ClosingsInv'
<1> SUFFICES ASSUME FinanceTypeOK, ClosingsInv, AdjustsFor PROVE ClosingsInv'
  OBVIOUS
<1> DEFINE n == Len(ledger) + 1
<1>1. PICK e \in Entry, k \in {0} \cup 1..Len(recs) :
         /\ e.type = "adjustment" /\ e.about = k /\ Appends(e)
         /\ k # 0 => /\ recs[k].status = "discrepancy"
                     /\ DeltaOf(e, recs[k].account) = recs[k].actual - recs[k].system
         /\ recs' = IF k = 0 THEN recs
                    ELSE [recs EXCEPT ![k].status = "adjusted", ![k].adjustment = n]
  BY Documents DEF AdjustsFor, NextNumber
<1>2. /\ Len(ledger') = n /\ Len(ledger) \in Nat
      /\ \A h \in 1..Len(ledger) : ledger'[h] = ledger[h]
      /\ ledger'[n].about = k
      /\ \A a : DeltaOf(ledger'[n], a) = DeltaOf(e, a)
  BY <1>1, Documents, DeltaAlike DEF Appends, Alike
<1>3. CASE k = 0
  BY <1>1, <1>2, <1>3 DEF ClosingsInv
<1>4. CASE k # 0
  <2>1. recs' = [recs EXCEPT ![k].status = "adjusted", ![k].adjustment = n]
        /\ k \in 1..Len(recs)
    BY <1>1, <1>4
  <2>2. /\ Len(recs') = Len(recs)
        /\ \A h \in 1..Len(recs) : h # k => recs'[h] = recs[h]
        /\ recs'[k].status = "adjusted" /\ recs'[k].adjustment = n
        /\ recs'[k].account = recs[k].account
        /\ recs'[k].actual = recs[k].actual /\ recs'[k].system = recs[k].system
    <3> DEFINE closed == [recs[k] EXCEPT !.status = "adjusted", !.adjustment = n]
    <3>1. /\ recs' = [recs EXCEPT ![k] = closed]
          /\ recs[k] \in Reconciliation
      BY <2>1, Documents
    <3>2. /\ closed.status = "adjusted" /\ closed.adjustment = n
          /\ closed.account = recs[k].account
          /\ closed.actual = recs[k].actual /\ closed.system = recs[k].system
      BY <3>1 DEF Reconciliation
    <3>3. recs \in Seq(Reconciliation)
      BY DEF FinanceTypeOK
    <3> HIDE DEF closed
    <3>4. recs'[k] = closed
      BY <2>1, <3>1, Documents
    <3>5. Len(recs') = Len(recs) /\ \A h \in 1..Len(recs) : h # k => recs'[h] = recs[h]
      BY <2>1, <3>1, <3>3
    <3> QED
      BY <3>2, <3>4, <3>5
  <2>3. \A i \in 1..Len(ledger) :
            (ledger[i].type = "adjustment" /\ ledger[i].about # 0) => ledger[i].about # k
    BY <1>1, <1>4 DEF ClosingsInv
  <2>4. DeltaOf(ledger'[n], recs'[k].account) = recs'[k].actual - recs'[k].system
    BY <1>1, <1>2, <1>4, <2>2
  <2> SUFFICES ASSUME NEW i \in 1..Len(ledger'),
                      ledger'[i].type = "adjustment", ledger'[i].about # 0
               PROVE  /\ ledger'[i].about \in 1..Len(recs')
                      /\ recs'[ledger'[i].about].status = "adjusted"
                      /\ recs'[ledger'[i].about].adjustment = i
                      /\ DeltaOf(ledger'[i], recs'[ledger'[i].about].account)
                            = recs'[ledger'[i].about].actual - recs'[ledger'[i].about].system
    BY DEF ClosingsInv
  <2>5. CASE i = n
    BY <1>2, <2>1, <2>2, <2>4, <2>5
  <2>6. CASE i # n
    <3>1. i \in 1..Len(ledger) /\ ledger'[i] = ledger[i]
      BY <1>2, <2>6
    <3> QED
      BY <2>2, <2>3, <3>1 DEF ClosingsInv
  <2> QED
    BY <2>5, <2>6
<1> QED
  BY <1>3, <1>4

\* A reversed adjustment still says what it moved.
LEMMA ClosingsReverting == FinanceTypeOK /\ ClosingsInv /\ Reverting => ClosingsInv'
<1> SUFFICES ASSUME FinanceTypeOK, ClosingsInv, Reverting PROVE ClosingsInv'
  OBVIOUS
<1>1. recs' = recs
  BY DEF Reverting
<1>2. PICK i \in DOMAIN ledger : Reverts(i)
  BY DEF Reverting
<1>3. /\ Len(ledger') = Len(ledger) + 1 /\ Len(ledger) \in Nat
      /\ ledger'[Len(ledger) + 1].type = "reversal"
      /\ \A h \in 1..Len(ledger) : Alike(ledger'[h], ledger[h])
  BY <1>2, Documents DEF Reverts
<1> SUFFICES ASSUME NEW h \in 1..Len(ledger'),
                    ledger'[h].type = "adjustment", ledger'[h].about # 0
             PROVE  LET q == recs'[ledger'[h].about]
                    IN  /\ ledger'[h].about \in 1..Len(recs')
                        /\ q.status = "adjusted" /\ q.adjustment = h
                        /\ DeltaOf(ledger'[h], q.account) = q.actual - q.system
  BY DEF ClosingsInv
<1>4. h \in 1..Len(ledger)
  BY <1>3
<1>5. ledger'[h].type = ledger[h].type /\ ledger'[h].about = ledger[h].about
  BY <1>3, <1>4 DEF Alike
<1>6. DeltaOf(ledger'[h], recs[ledger[h].about].account)
         = DeltaOf(ledger[h], recs[ledger[h].about].account)
  BY <1>3, <1>4, DeltaAlike
<1> QED
  BY <1>1, <1>4, <1>5, <1>6 DEF ClosingsInv

LEMMA ClosingsReconciles == FinanceTypeOK /\ ClosingsInv /\ Reconciles => ClosingsInv'
<1> SUFFICES ASSUME FinanceTypeOK, ClosingsInv, Reconciles PROVE ClosingsInv'
  OBVIOUS
<1>1. PICK q \in Reconciliation : recs' = Append(recs, q) /\ ledger' = ledger
  BY DEF Reconciles
<1>2. /\ Len(recs') = Len(recs) + 1 /\ Len(recs) \in Nat
      /\ \A k \in 1..Len(recs) : recs'[k] = recs[k]
  BY <1>1, AppendProperties, Documents DEF FinanceTypeOK
<1> QED
  BY <1>1, <1>2 DEF ClosingsInv

LEMMA ClosingsStep ==
    FinanceTypeOK /\ ClosingsInv /\ [FinanceNext]_financeVars => ClosingsInv'
<1> SUFFICES ASSUME FinanceTypeOK, ClosingsInv, [FinanceNext]_financeVars PROVE ClosingsInv'
  OBVIOUS
<1>1. CASE EntryAlone
  BY <1>1, ClosingsAppend DEF EntryAlone
<1>2. CASE Transfers
  BY <1>2, ClosingsAppend DEF Transfers
<1>3. CASE Banks
  BY <1>3, ClosingsAppend DEF Banks
<1>4. CASE Idles
  BY <1>4 DEF Idles, ClosingsInv
<1> QED
  BY <1>1, <1>2, <1>3, <1>4, DocumentStep, ClosingsAdjusts, ClosingsReverting,
     ClosingsReconciles

\* However often accounts are counted and adjusted: a reconciliation is closed by
\* one adjustment at most, and that one moved exactly the difference it recorded.
THEOREM ReconciliationsCorrect == FinanceSpec => []ReconciliationsClosedExactly
<1>1. FinanceInit => ClosingsInv
  BY DEF FinanceInit, ClosingsInv
<1> QED
  BY <1>1, ClosingsStep, ClosingsDefined, TypeCorrect, PTL DEF FinanceSpec

-----------------------------------------------------------------------------
(* Retried requests *)

\* With these deposits, the stored result leads to entry i.
LeadsTo(docs, result, i) ==
    \/ result.kind \in {"transfer", "adjustment", "payment"} /\ result.number = i
    \/ /\ result.kind = "deposit"
       /\ result.number \in 1..Len(docs) /\ docs[result.number].txn = i

\* RequestsPostOnce, with the deposit a result names being there.
RequestsInv ==
    \A i \in 1..Len(ledger) :
        ledger[i].request # None => LeadsTo(deposits, requests[ledger[i].request], i)

LEMMA RequestsDefined == FinanceTypeOK /\ RequestsInv => RequestsPostOnce
BY Documents DEF RequestsInv, LeadsTo, RequestsPostOnce, EntryNumbers

\* A request that is still fresh is carried by no entry.
LEMMA FreshCarriedByNone ==
    ASSUME FinanceTypeOK, RequestsInv, NEW r \in RequestIds, Fresh(r)
    PROVE  \A i \in 1..Len(ledger) : ledger[i].request # r
BY AccountAssumption DEF RequestsInv, LeadsTo, Fresh, Unused

\* Storing the result of a request changes no other result.
LEMMA Stored ==
    ASSUME FinanceTypeOK, NEW r \in RequestIds, NEW kind, NEW n, Store(r, kind, n)
    PROVE  /\ requests'[r].kind = kind /\ requests'[r].number = n
           /\ \A other \in RequestIds : other # r => requests'[other] = requests[other]
BY Documents DEF Store

\* Deposits are only added and their entries never change.
DepositsGrow ==
    /\ Len(deposits) <= Len(deposits')
    /\ \A k \in 1..Len(deposits) : deposits'[k].txn = deposits[k].txn

\* Where a result led, it still leads when deposits were added.
LEMMA StillLeads ==
    ASSUME FinanceTypeOK, FinanceTypeOK', DepositsGrow, NEW result, NEW i,
           LeadsTo(deposits, result, i)
    PROVE  LeadsTo(deposits', result, i)
<1>1. Len(deposits) \in Nat /\ Len(deposits') \in Nat
  BY LenProperties DEF FinanceTypeOK
<1> QED
  BY <1>1 DEF LeadsTo, DepositsGrow

\* A fresh request stores where its entry is; older results lead where they did.
LEMMA RequestsAppend ==
    ASSUME FinanceTypeOK, FinanceTypeOK', RequestsInv, DepositsGrow,
           NEW r \in RequestIds, Fresh(r), NEW e \in Entry, e.request = r, Appends(e),
           NEW kind, NEW k, Store(r, kind, k),
           LeadsTo(deposits', requests'[r], Len(ledger) + 1)
    PROVE  RequestsInv'
<1> SUFFICES ASSUME NEW i \in 1..Len(ledger'), ledger'[i].request # None
             PROVE  LeadsTo(deposits', requests'[ledger'[i].request], i)
  BY DEF RequestsInv
<1>1. Len(ledger) \in Nat /\ Len(ledger') = Len(ledger) + 1
  BY Documents DEF Appends
<1>2. CASE i = Len(ledger) + 1
  <2>1. ledger'[i].request = r
    BY <1>2 DEF Appends, Alike
  <2> QED
    BY <1>2, <2>1
<1>3. CASE i # Len(ledger) + 1
  <2>1. i \in 1..Len(ledger) /\ ledger'[i] = ledger[i]
    BY <1>1, <1>3 DEF Appends
  <2>2. ledger[i].request \in RequestIds /\ ledger[i].request # r
    BY <2>1, Documents, FreshCarriedByNone DEF Entry
  <2>3. requests'[ledger[i].request] = requests[ledger[i].request]
    BY <2>2, Stored
  <2>4. LeadsTo(deposits, requests[ledger[i].request], i)
    BY <2>1 DEF RequestsInv
  <2> QED
    BY <2>1, <2>3, <2>4, StillLeads
<1> QED
  BY <1>2, <1>3

\* An entry nobody requested, whatever it does to the status of a deposit, and a
\* result no entry carries change nothing for the others.
LEMMA RequestsKept ==
    ASSUME FinanceTypeOK, FinanceTypeOK', RequestsInv, DepositsGrow,
           Len(ledger') \in {Len(ledger), Len(ledger) + 1},
           \A h \in 1..Len(ledger) : ledger'[h].request = ledger[h].request,
           Len(ledger') = Len(ledger) + 1 => ledger'[Len(ledger) + 1].request = None,
           \A h \in 1..Len(ledger) : ledger[h].request # None =>
               requests'[ledger[h].request] = requests[ledger[h].request]
    PROVE  RequestsInv'
<1> SUFFICES ASSUME NEW i \in 1..Len(ledger'), ledger'[i].request # None
             PROVE  LeadsTo(deposits', requests'[ledger'[i].request], i)
  BY DEF RequestsInv
<1>1. i \in 1..Len(ledger)
  BY Documents
<1>2. LeadsTo(deposits, requests[ledger[i].request], i)
  BY <1>1 DEF RequestsInv
<1> QED
  BY <1>1, <1>2, StillLeads

LEMMA RequestsStep ==
    FinanceTypeOK /\ RequestsInv /\ [FinanceNext]_financeVars => RequestsInv'
<1> SUFFICES ASSUME FinanceTypeOK, RequestsInv, [FinanceNext]_financeVars PROVE RequestsInv'
  OBVIOUS
<1>1. FinanceTypeOK'
  BY TypeStep
<1>2. Len(ledger) \in Nat /\ Len(deposits) \in Nat
  BY Documents
<1>3. UNCHANGED deposits => DepositsGrow
  BY <1>2 DEF DepositsGrow
<1>4. CASE EntryAlone
  <2>1. PICK e \in Entry : e.request = None /\ Appends(e)
    BY <1>4 DEF EntryAlone
  <2>2. /\ Len(ledger') = Len(ledger) + 1
        /\ \A h \in 1..Len(ledger) : ledger'[h].request = ledger[h].request
        /\ ledger'[Len(ledger) + 1].request = None
    BY <2>1 DEF Appends, Alike
  <2>3. UNCHANGED <<requests, deposits>>
    BY <1>4 DEF EntryAlone
  <2> QED
    BY <1>1, <1>3, <2>2, <2>3, RequestsKept
<1>5. CASE Transfers
  <2>1. PICK r \in RequestIds, e \in Entry :
           /\ Fresh(r) /\ e.request = r /\ Appends(e)
           /\ Store(r, "transfer", Len(ledger) + 1) /\ UNCHANGED deposits
    BY <1>5 DEF Transfers, NextNumber
  <2>2. LeadsTo(deposits', requests'[r], Len(ledger) + 1)
    BY <2>1, Stored DEF LeadsTo
  <2> QED
    BY <1>1, <1>3, <2>1, <2>2, RequestsAppend
<1>6. CASE Banks
  <2> DEFINE m == Len(deposits) + 1
             d == [txn |-> Len(ledger) + 1, status |-> "completed"]
  <2>1. PICK r \in RequestIds, e \in Entry :
           /\ Fresh(r) /\ e.request = r /\ Appends(e)
           /\ Store(r, "deposit", m) /\ deposits' = Append(deposits, d)
    BY <1>6 DEF Banks, NextNumber
  <2>2. /\ Len(deposits') = m /\ deposits'[m] = d
        /\ \A k \in 1..Len(deposits) : deposits'[k] = deposits[k]
    BY <2>1, AppendProperties DEF FinanceTypeOK
  <2>3. DepositsGrow
    BY <1>2, <2>2 DEF DepositsGrow
  <2>4. LeadsTo(deposits', requests'[r], Len(ledger) + 1)
    BY <1>2, <2>1, <2>2, Stored DEF LeadsTo
  <2> QED
    BY <1>1, <2>1, <2>3, <2>4, RequestsAppend
<1>7. CASE AdjustsFor
  <2>1. PICK r \in RequestIds, e \in Entry :
           /\ Fresh(r) /\ e.request = r /\ Appends(e)
           /\ Store(r, "adjustment", Len(ledger) + 1) /\ UNCHANGED deposits
    BY <1>7 DEF AdjustsFor, NextNumber
  <2>2. LeadsTo(deposits', requests'[r], Len(ledger) + 1)
    BY <2>1, Stored DEF LeadsTo
  <2> QED
    BY <1>1, <1>3, <2>1, <2>2, RequestsAppend
<1>8. CASE Reverting
  <2>1. PICK i \in DOMAIN ledger :
           Reverts(i) /\ deposits' = DepositsAfterReversing(ledger[i])
    BY <1>8 DEF Reverting
  <2>2. /\ Len(ledger') = Len(ledger) + 1
        /\ \A h \in 1..Len(ledger) : ledger'[h].request = ledger[h].request
        /\ ledger'[Len(ledger) + 1].request = None
    BY <2>1 DEF Reverts, Alike
  <2>3. DepositsGrow
    <3>1. CASE deposits' = deposits
      BY <1>3, <3>1
    <3>2. CASE deposits' = [deposits EXCEPT ![ledger[i].about].status = "reversed"]
      BY <1>2, <3>2, Documents DEF DepositsGrow, Deposit, FinanceTypeOK
    <3> QED
      BY <2>1, <3>1, <3>2 DEF DepositsAfterReversing
  <2>4. UNCHANGED requests
    BY <1>8 DEF Reverting
  <2> QED
    BY <1>1, <2>2, <2>3, <2>4, RequestsKept
<1>9. CASE Reconciles
  <2>1. PICK r \in RequestIds, n \in Nat : Fresh(r) /\ Store(r, "reconciliation", n)
    BY <1>9 DEF Reconciles
  <2>2. UNCHANGED <<ledger, deposits>>
    BY <1>9 DEF Reconciles
  <2>3. \A h \in 1..Len(ledger) : ledger[h].request # None =>
            requests'[ledger[h].request] = requests[ledger[h].request]
    BY <2>1, Documents, FreshCarriedByNone, Stored DEF Entry
  <2>4. Len(ledger') = Len(ledger) /\ ~(Len(ledger') = Len(ledger) + 1)
    BY <1>2, <2>2
  <2> QED
    BY <1>1, <1>3, <2>2, <2>3, <2>4, RequestsKept
<1>10. CASE Idles
  BY <1>10 DEF Idles, RequestsInv
<1> QED
  BY <1>4, <1>5, <1>6, <1>7, <1>8, <1>9, <1>10, DocumentStep

\* However often a client retries, and whatever else happens between its tries:
\* the entries of a request are the one its stored result leads to.
THEOREM RequestsCorrect == FinanceSpec => []RequestsPostOnce
<1>1. FinanceInit => RequestsInv
  BY DEF FinanceInit, RequestsInv
<1> QED
  BY <1>1, RequestsStep, RequestsDefined, TypeCorrect, PTL DEF FinanceSpec

-----------------------------------------------------------------------------
(* What posting leaves alone in an account: everything but the money. *)

\* These accounts differ from those only in the money in them.
SameTerms(these, those) ==
    \A a \in AccountIds :
        /\ these[a].type = those[a].type
        /\ these[a].active = those[a].active
        /\ these[a].openingRecorded = those[a].openingRecorded

LEMMA PostingTerms ==
    ASSUME NEW accts \in [AccountIds -> Account], NEW e
    PROVE  SameTerms(AfterPosting(accts, e), accts)
BY DEF AfterPosting, Moved, Account, SameTerms

\* After a commit: the terms are those the callable prepared, no document is gone,
\* and where the money went has one.
LEMMA CommitTerms ==
    ASSUME NEW accts \in [AccountIds -> Account], NEW entries, NEW e,
           Commit(accts, entries, e)
    PROVE  /\ SameTerms(accounts', accts)
           /\ created' = created \cup ({e.from, e.to} \ {None})
BY PostingTerms DEF Commit

-----------------------------------------------------------------------------
(* The banks a cashier is offered *)

LEMMA ListedAreActive ==
    ASSUME NEW accts, NEW docs
    PROVE  \A a \in ActiveBanks(accts, docs) :
              a \in docs /\ accts[a].active /\ accts[a].type = "bank"
BY DEF ActiveBanks

\* Money moving between accounts of the same terms keeps the list good.
LEMMA ListedKept ==
    ASSUME FinanceTypeOK, ListedBanksAcceptPayments,
           SameTerms(accounts', accounts), created \subseteq created', UNCHANGED listed
    PROVE  ListedBanksAcceptPayments'
BY DEF ListedBanksAcceptPayments, SameTerms, FinanceTypeOK

LEMMA ListedStep ==
    FinanceTypeOK /\ ListedBanksAcceptPayments /\ [FinanceNext]_financeVars
        => ListedBanksAcceptPayments'
<1> SUFFICES ASSUME FinanceTypeOK, ListedBanksAcceptPayments, [FinanceNext]_financeVars
             PROVE  ListedBanksAcceptPayments'
  OBVIOUS
<1>1. accounts \in [AccountIds -> Account]
  BY DEF FinanceTypeOK
<1>2. SameTerms(accounts, accounts)
  BY DEF SameTerms
<1>3. ASSUME NEW accts \in [AccountIds -> Account], SameTerms(accts, accounts),
             NEW entries, NEW e, Commit(accts, entries, e), UNCHANGED listed
      PROVE  ListedBanksAcceptPayments'
  <2>1. SameTerms(accounts', accounts) /\ created \subseteq created'
    BY <1>3, CommitTerms DEF SameTerms
  <2> QED
    BY <1>3, <2>1, ListedKept
<1>4. CASE Payments
  BY <1>1, <1>2, <1>3, <1>4 DEF Payments, PostCustomerPayment, Post
<1>5. CASE AccountChanges
  <2>1. CASE EnsureDefaultAccounts
    <3>1. accounts' = accounts /\ listed' = ActiveBanks(accounts', created')
      BY <2>1 DEF EnsureDefaultAccounts
    <3> QED
      BY <3>1, ListedAreActive DEF ListedBanksAcceptPayments
  <2>2. ASSUME NEW a \in Extra, NEW type \in {"mobile_money", "bank"},
               NEW n \in Amounts \cup {0}, CreateAccount(a, type, n)
        PROVE  ListedBanksAcceptPayments'
    <3>1. listed' = ActiveBanks(accounts', created \cup {a})
      BY <2>2 DEF CreateAccount
    <3>2. created' = created \cup {a}
      <4>1. CASE n > 0
        <5> DEFINE new == [accounts EXCEPT ![a] =
                              [NewAccount(type) EXCEPT !.openingRecorded = n > 0]]
                   e == NewEntry("opening_balance", n, None, a)
        <5>1. Commit(new, ledger, e)
          BY <2>2, <4>1 DEF CreateAccount
        <5>2. e.from = None /\ e.to = a /\ a # None
          BY AccountAssumption DEF NewEntry, AccountIds
        <5> HIDE DEF new, e
        <5>3. created' = created \cup ({e.from, e.to} \ {None})
          BY <5>1 DEF Commit
        <5> QED
          BY <5>2, <5>3
      <4>2. CASE ~(n > 0)
        BY <2>2, <4>2 DEF CreateAccount
      <4> QED
        BY <4>1, <4>2
    <3> QED
      BY <3>1, <3>2, ListedAreActive DEF ListedBanksAcceptPayments
  <2>3. ASSUME NEW a \in AccountIds, NEW active \in BOOLEAN, UpdateAccount(a, active)
        PROVE  ListedBanksAcceptPayments'
    <3>1. listed' = ActiveBanks(accounts', created')
      BY <2>3 DEF UpdateAccount
    <3> QED
      BY <3>1, ListedAreActive DEF ListedBanksAcceptPayments
  <2>4. ASSUME NEW a \in AccountIds, NEW n \in Amounts, RecordOpeningBalance(a, n)
        PROVE  ListedBanksAcceptPayments'
    <3> DEFINE accts == [accounts EXCEPT ![a].openingRecorded = TRUE]
               e == NewEntry("opening_balance", n, None, a)
    <3>1. Commit(accts, ledger, e) /\ UNCHANGED listed
      BY <2>4 DEF RecordOpeningBalance
    <3>2. /\ accts \in [AccountIds -> Account]
          /\ \A b \in AccountIds : /\ accts[b].type = accounts[b].type
                                   /\ accts[b].active = accounts[b].active
      BY <1>1 DEF Account
    <3> HIDE DEF accts, e
    <3>3. SameTerms(accounts', accts) /\ created \subseteq created'
      BY <3>1, <3>2, CommitTerms
    <3> QED
      BY <3>1, <3>2, <3>3 DEF SameTerms, ListedBanksAcceptPayments, FinanceTypeOK
  <2> QED
    BY <1>5, <2>1, <2>2, <2>3, <2>4 DEF AccountChanges
<1>6. CASE Movements
  BY <1>1, <1>2, <1>3, <1>6 DEF Movements, TransferFunds, RecordBankDeposit, Post
<1>7. CASE Corrections
  <2>1. ASSUME NEW r \in RequestIds, NEW a \in AccountIds, NEW actual \in Counts,
               ReconcileAccount(r, a, actual)
        PROVE  ListedBanksAcceptPayments'
    BY <2>1 DEF ReconcileAccount, ListedBanksAcceptPayments
  <2>2. ASSUME NEW r \in RequestIds, NEW a \in AccountIds, NEW in \in BOOLEAN,
               NEW n \in Amounts, NEW k \in {0} \cup DOMAIN recs,
               RecordAdjustment(r, a, in, n, k)
        PROVE  ListedBanksAcceptPayments'
    BY <1>1, <1>2, <1>3, <2>2 DEF RecordAdjustment, Post
  <2> QED
    BY <1>7, <2>1, <2>2 DEF Corrections
<1>8. CASE Reversals
  <2>1. ASSUME NEW i \in DOMAIN ledger, ReverseCustomerPayment(i)
        PROVE  ListedBanksAcceptPayments'
    BY <1>1, <1>2, <1>3, <2>1 DEF ReverseCustomerPayment, PostReversal
  <2>2. ASSUME NEW i \in DOMAIN ledger, ReverseTransaction(i)
        PROVE  ListedBanksAcceptPayments'
    <3> DEFINE accts == Reopened(accounts, ledger[i])
               entries == [ledger EXCEPT ![i] = MarkReversed(@, NextNumber)]
    <3>1. Commit(accts, entries, MirrorOf(ledger[i], i)) /\ UNCHANGED listed
      BY <2>2 DEF ReverseTransaction, PostReversal
    <3>2. /\ accts \in [AccountIds -> Account]
          /\ \A b \in AccountIds : /\ accts[b].type = accounts[b].type
                                   /\ accts[b].active = accounts[b].active
      BY <1>1 DEF Reopened, Account
    <3> HIDE DEF accts, entries
    <3>3. SameTerms(accounts', accts) /\ created \subseteq created'
      BY <3>1, <3>2, CommitTerms
    <3> QED
      BY <3>1, <3>2, <3>3 DEF SameTerms, ListedBanksAcceptPayments, FinanceTypeOK
  <2> QED
    BY <1>8, <2>1, <2>2 DEF Reversals
<1>9. CASE NextDay \/ UNCHANGED financeVars
  BY <1>9 DEF NextDay, financeVars, ListedBanksAcceptPayments
<1> QED
  BY <1>4, <1>5, <1>6, <1>7, <1>8, <1>9 DEF FinanceNext

\* Whichever accounts are created, renamed, deactivated and reactivated: a cashier
\* is never offered a bank that takes no payment.
THEOREM ListedCorrect == FinanceSpec => []ListedBanksAcceptPayments
<1>1. FinanceInit => ListedBanksAcceptPayments
  BY DEF FinanceInit, ListedBanksAcceptPayments
<1> QED
  BY <1>1, ListedStep, TypeCorrect, PTL DEF FinanceSpec

-----------------------------------------------------------------------------
(* Opening balances *)

\* Entry i is an opening balance of account a that stands.
OpensFor(entries, i, a) ==
    entries[i].type = "opening_balance" /\ entries[i].to = a /\ entries[i].posted

\* Besides what OpeningBalanceOnce says: an account without a document has none, so
\* creating it forgets none.
OpeningsInv ==
    \A a \in AccountIds :
        /\ accounts[a].openingRecorded => a \in created
        /\ accounts[a].openingRecorded <=> \E i \in 1..Len(ledger) : OpensFor(ledger, i, a)
        /\ \A i, j \in 1..Len(ledger) : OpensFor(ledger, i, a) /\ OpensFor(ledger, j, a) => i = j

LEMMA OpeningsDefined == FinanceTypeOK /\ OpeningsInv => OpeningBalanceOnce
<1> SUFFICES ASSUME FinanceTypeOK, OpeningsInv, NEW a \in AccountIds
             PROVE  LET live == {i \in EntryNumbers : /\ ledger[i].type = "opening_balance"
                                                      /\ ledger[i].to = a /\ ledger[i].posted}
                    IN  Cardinality(live) = IF accounts[a].openingRecorded THEN 1 ELSE 0
  BY DEF OpeningBalanceOnce
<1> DEFINE live == {i \in EntryNumbers : /\ ledger[i].type = "opening_balance"
                                         /\ ledger[i].to = a /\ ledger[i].posted}
<1>1. \A i : i \in live <=> i \in 1..Len(ledger) /\ OpensFor(ledger, i, a)
  BY Documents DEF EntryNumbers, OpensFor
<1> HIDE DEF live
<1>2. CASE accounts[a].openingRecorded
  <2>1. PICK i \in 1..Len(ledger) : OpensFor(ledger, i, a)
    BY <1>2 DEF OpeningsInv
  <2>2. \A j : j \in live <=> j = i
    BY <1>1, <2>1 DEF OpeningsInv
  <2>3. live = {i}
    BY <2>2
  <2> QED
    BY <1>2, <2>3, FS_Singleton DEF live
<1>3. CASE ~accounts[a].openingRecorded
  <2>1. live = {}
    BY <1>1, <1>3 DEF OpeningsInv
  <2> QED
    BY <1>3, <2>1, FS_EmptySet DEF live
<1> QED
  BY <1>2, <1>3

\* The flags and documents the accounts have after a step that opens or closes none.
FlagsKept ==
    /\ \A a \in AccountIds : accounts'[a].openingRecorded = accounts[a].openingRecorded
    /\ created \subseteq created'

LEMMA OpeningsIdle == FinanceTypeOK /\ OpeningsInv /\ FlagsKept /\ ledger' = ledger => OpeningsInv'
BY DEF OpeningsInv, FlagsKept, OpensFor

\* Any other entry leaves the openings as they were.
LEMMA OpeningsAppend ==
    ASSUME FinanceTypeOK, OpeningsInv, FlagsKept,
           NEW e \in Entry, Appends(e), e.type # "opening_balance"
    PROVE  OpeningsInv'
<1>1. /\ Len(ledger) \in Nat /\ Len(ledger') = Len(ledger) + 1
      /\ \A h \in 1..Len(ledger) : ledger'[h] = ledger[h]
      /\ ledger'[Len(ledger) + 1].type # "opening_balance"
  BY Documents DEF Appends, Alike
<1>2. \A a, i : i \in 1..Len(ledger') /\ OpensFor(ledger', i, a)
                   <=> i \in 1..Len(ledger) /\ OpensFor(ledger, i, a)
  BY <1>1 DEF OpensFor
<1> QED
  BY <1>2 DEF OpeningsInv, FlagsKept

\* Recording the opening balance of an account that has none.
LEMMA OpeningsOpen ==
    ASSUME FinanceTypeOK, OpeningsInv, NEW a \in AccountIds, ~accounts[a].openingRecorded,
           NEW e \in Entry, Appends(e), e.type = "opening_balance", e.to = a,
           \A b \in AccountIds : accounts'[b].openingRecorded
                                    <=> (b = a \/ accounts[b].openingRecorded),
           created \cup {a} \subseteq created'
    PROVE  OpeningsInv'
<1> DEFINE n == Len(ledger) + 1
<1>1. /\ Len(ledger) \in Nat /\ Len(ledger') = n
      /\ \A h \in 1..Len(ledger) : ledger'[h] = ledger[h]
      /\ OpensFor(ledger', n, a) /\ \A b : b # a => ~OpensFor(ledger', n, b)
  BY Documents DEF Appends, Alike, OpensFor
<1>2. \A b, i : i \in 1..Len(ledger') /\ OpensFor(ledger', i, b)
                   <=> \/ i \in 1..Len(ledger) /\ OpensFor(ledger, i, b)
                       \/ i = n /\ b = a
  BY <1>1 DEF OpensFor
<1>3. \A i \in 1..Len(ledger) : ~OpensFor(ledger, i, a)
  BY DEF OpeningsInv
<1> SUFFICES ASSUME NEW b \in AccountIds
             PROVE  /\ accounts'[b].openingRecorded => b \in created'
                    /\ accounts'[b].openingRecorded
                          <=> \E i \in 1..Len(ledger') : OpensFor(ledger', i, b)
                    /\ \A i, j \in 1..Len(ledger') :
                          OpensFor(ledger', i, b) /\ OpensFor(ledger', j, b) => i = j
  BY DEF OpeningsInv
<1>4. CASE b = a
  BY <1>1, <1>2, <1>3, <1>4
<1>5. CASE b # a
  BY <1>2, <1>5 DEF OpeningsInv
<1> QED
  BY <1>4, <1>5

\* Reversing an entry: when it opened an account, that account may be opened again.
LEMMA OpeningsRevert ==
    ASSUME FinanceTypeOK, OpeningsInv, NEW i \in 1..Len(ledger), Reverts(i),
           \A b \in AccountIds : accounts'[b].openingRecorded
               <=> /\ accounts[b].openingRecorded
                   /\ ~(ledger[i].type = "opening_balance" /\ ledger[i].to = b),
           created \subseteq created'
    PROVE  OpeningsInv'
<1>1. /\ Len(ledger) \in Nat /\ Len(ledger') = Len(ledger) + 1 /\ ledger[i].posted
      /\ ledger'[Len(ledger) + 1].type = "reversal"
      /\ \A h \in 1..Len(ledger) :
            /\ ledger'[h].type = ledger[h].type /\ ledger'[h].to = ledger[h].to
            /\ ledger'[h].posted = (h # i /\ ledger[h].posted)
  BY Documents DEF Reverts, Alike
<1>2. \A b, h : h \in 1..Len(ledger') /\ OpensFor(ledger', h, b)
                   <=> h \in 1..Len(ledger) /\ h # i /\ OpensFor(ledger, h, b)
  <2>1. ASSUME NEW b, NEW h \in 1..Len(ledger)
        PROVE  OpensFor(ledger', h, b) <=> h # i /\ OpensFor(ledger, h, b)
    BY <1>1, <2>1 DEF OpensFor
  <2>2. \A b : ~OpensFor(ledger', Len(ledger) + 1, b)
    BY <1>1 DEF OpensFor
  <2>3. \A h : h \in 1..Len(ledger') <=> h \in 1..Len(ledger) \/ h = Len(ledger) + 1
    BY <1>1
  <2> QED
    BY <2>1, <2>2, <2>3
<1>3. \A b : OpensFor(ledger, i, b) <=> ledger[i].type = "opening_balance" /\ ledger[i].to = b
  BY <1>1 DEF OpensFor
<1> SUFFICES ASSUME NEW b \in AccountIds
             PROVE  /\ accounts'[b].openingRecorded => b \in created'
                    /\ accounts'[b].openingRecorded
                          <=> \E h \in 1..Len(ledger') : OpensFor(ledger', h, b)
                    /\ \A h, j \in 1..Len(ledger') :
                          OpensFor(ledger', h, b) /\ OpensFor(ledger', j, b) => h = j
  BY DEF OpeningsInv
<1>4. CASE OpensFor(ledger, i, b)
  BY <1>2, <1>3, <1>4 DEF OpeningsInv
<1>5. CASE ~OpensFor(ledger, i, b)
  BY <1>2, <1>3, <1>5 DEF OpeningsInv
<1> QED
  BY <1>4, <1>5

LEMMA OpeningsPayments == FinanceTypeOK /\ OpeningsInv /\ Payments => OpeningsInv'
<1> SUFFICES ASSUME FinanceTypeOK, OpeningsInv, NEW method \in Defaults, NEW n \in Amounts,
                    NEW requested \in AccountIds \cup {None},
                    PostCustomerPayment(method, requested, n)
             PROVE  OpeningsInv'
  BY DEF Payments
<1>1. PICK a \in AccountIds : Post(NewEntry("customer_payment", n, None, a))
  BY DEF PostCustomerPayment
<1> DEFINE e == NewEntry("customer_payment", n, None, a)
<1>2. e \in Entry /\ accounts \in [AccountIds -> Account]
  BY NewEntryType, BoundAssumption DEF PostingTypes, FinanceTypeOK
<1>3. e.posted /\ e.type # "opening_balance"
  BY DEF NewEntry
<1>4. Commit(accounts, ledger, e)
  BY <1>1 DEF Post
<1> HIDE DEF e
<1> QED
  BY <1>2, <1>3, <1>4, CommittedAppends, CommitTerms, OpeningsAppend DEF FlagsKept, SameTerms

LEMMA OpeningsMovements == FinanceTypeOK /\ OpeningsInv /\ Movements => OpeningsInv'
<1> SUFFICES ASSUME FinanceTypeOK, OpeningsInv, Movements PROVE OpeningsInv'
  OBVIOUS
<1>1. FlagsKept
  <2>1. \E e : Commit(accounts, ledger, e)
    BY DEF Movements, TransferFunds, RecordBankDeposit, Post
  <2> QED
    BY <2>1, CommitTerms DEF FlagsKept, SameTerms, FinanceTypeOK
<1>2. PICK e \in Entry : e.type # "opening_balance" /\ Appends(e)
  BY DocumentMovements DEF Transfers, Banks
<1> QED
  BY <1>1, <1>2, OpeningsAppend

LEMMA OpeningsCorrections == FinanceTypeOK /\ OpeningsInv /\ Corrections => OpeningsInv'
<1> SUFFICES ASSUME FinanceTypeOK, OpeningsInv, NEW r \in RequestIds, NEW a \in AccountIds,
                    \/ \E actual \in Counts : ReconcileAccount(r, a, actual)
                    \/ \E in \in BOOLEAN, n \in Amounts, k \in {0} \cup DOMAIN recs :
                          RecordAdjustment(r, a, in, n, k)
             PROVE  OpeningsInv'
  BY DEF Corrections
<1>1. ASSUME NEW actual \in Counts, ReconcileAccount(r, a, actual)
      PROVE  OpeningsInv'
  BY <1>1, OpeningsIdle DEF ReconcileAccount, FlagsKept
<1>2. ASSUME NEW in \in BOOLEAN, NEW n \in Amounts, NEW k \in {0} \cup DOMAIN recs,
             RecordAdjustment(r, a, in, n, k)
      PROVE  OpeningsInv'
  <2> DEFINE e == [Adjustment(a, in, n) EXCEPT !.about = k, !.request = r]
  <2>1. n \in Amount /\ k \in Nat
    BY BoundAssumption DEF FinanceTypeOK
  <2>2. e \in Entry /\ accounts \in [AccountIds -> Account]
    BY <2>1, NewEntryType DEF Adjustment, PostingTypes, FinanceTypeOK
  <2>3. e.posted /\ e.type # "opening_balance"
    BY DEF Adjustment, NewEntry
  <2>4. Commit(accounts, ledger, e)
    BY <1>2 DEF RecordAdjustment, Post
  <2> HIDE DEF e
  <2> QED
    BY <2>2, <2>3, <2>4, CommittedAppends, CommitTerms, OpeningsAppend DEF FlagsKept, SameTerms
<1> QED
  BY <1>1, <1>2

LEMMA OpeningsReversals == FinanceTypeOK /\ OpeningsInv /\ Reversals => OpeningsInv'
<1> SUFFICES ASSUME FinanceTypeOK, OpeningsInv, NEW i \in DOMAIN ledger,
                    ReverseTransaction(i) \/ ReverseCustomerPayment(i)
             PROVE  OpeningsInv'
  BY DEF Reversals
<1>1. /\ i \in 1..Len(ledger) /\ ledger[i] \in Entry
      /\ accounts \in [AccountIds -> Account]
  BY Documents DEF FinanceTypeOK
<1> DEFINE entries == [ledger EXCEPT ![i] = MarkReversed(@, NextNumber)]
<1>2. CASE ReverseCustomerPayment(i)
  <2>1. Reverts(i) /\ ledger[i].type = "customer_payment"
    BY <1>2, ReversalReverts DEF ReverseCustomerPayment
  <2>2. Commit(accounts, entries, MirrorOf(ledger[i], i))
    BY <1>2 DEF ReverseCustomerPayment, PostReversal
  <2> HIDE DEF entries
  <2>3. SameTerms(accounts', accounts) /\ created \subseteq created'
    BY <1>1, <2>2, CommitTerms
  <2> QED
    BY <1>1, <2>1, <2>3, OpeningsRevert DEF SameTerms
<1>3. CASE ReverseTransaction(i)
  <2> DEFINE accts == Reopened(accounts, ledger[i])
  <2>1. Reverts(i)
    BY <1>3, ReversalReverts DEF ReverseTransaction
  <2>2. Commit(accts, entries, MirrorOf(ledger[i], i))
    BY <1>3 DEF ReverseTransaction, PostReversal
  <2>3. /\ accts \in [AccountIds -> Account]
        /\ \A b \in AccountIds : accts[b].openingRecorded
               <=> /\ accounts[b].openingRecorded
                   /\ ~(ledger[i].type = "opening_balance" /\ ledger[i].to = b)
    BY <1>1 DEF Reopened, Account
  <2> HIDE DEF accts, entries
  <2>4. SameTerms(accounts', accts) /\ created \subseteq created'
    BY <2>2, <2>3, CommitTerms
  <2> QED
    BY <1>1, <2>1, <2>3, <2>4, OpeningsRevert DEF SameTerms
<1> QED
  BY <1>2, <1>3

LEMMA OpeningsAccounts == FinanceTypeOK /\ OpeningsInv /\ AccountChanges => OpeningsInv'
<1> SUFFICES ASSUME FinanceTypeOK, OpeningsInv, AccountChanges PROVE OpeningsInv'
  OBVIOUS
<1>1. accounts \in [AccountIds -> Account]
  BY DEF FinanceTypeOK
<1>2. ASSUME NEW accts \in [AccountIds -> Account], NEW a \in AccountIds, NEW n \in Amount,
             ~accounts[a].openingRecorded,
             \A b \in AccountIds : accts[b].openingRecorded
                                      <=> (b = a \/ accounts[b].openingRecorded),
             Commit(accts, ledger, NewEntry("opening_balance", n, None, a))
      PROVE  OpeningsInv'
  <2> DEFINE e == NewEntry("opening_balance", n, None, a)
  <2>1. e \in Entry /\ Appends(e)
    BY <1>2, DocumentOpening
  <2>2. e.type = "opening_balance" /\ e.to = a /\ a # None
    BY AccountAssumption DEF NewEntry
  <2>3. SameTerms(accounts', accts) /\ created' = created \cup ({e.from, e.to} \ {None})
    BY <1>2, CommitTerms
  <2> HIDE DEF e
  <2>4. created \cup {a} \subseteq created'
    BY <2>2, <2>3
  <2> QED
    BY <1>2, <2>1, <2>2, <2>3, <2>4, OpeningsOpen DEF SameTerms
<1>3. CASE EnsureDefaultAccounts
  BY <1>3, OpeningsIdle DEF EnsureDefaultAccounts, FlagsKept
<1>4. ASSUME NEW a \in Extra, NEW type \in {"mobile_money", "bank"}, NEW n \in Amounts \cup {0},
             CreateAccount(a, type, n)
      PROVE  OpeningsInv'
  <2> DEFINE opened == n > 0
             fresh == [NewAccount(type) EXCEPT !.openingRecorded = opened]
             new == [accounts EXCEPT ![a] = fresh]
  <2>1. a \in AccountIds /\ ~accounts[a].openingRecorded
    BY <1>4 DEF CreateAccount, AccountIds, OpeningsInv
  <2>2. fresh \in Account /\ fresh.openingRecorded = opened
    <3>1. opened \in BOOLEAN
      OBVIOUS
    <3> HIDE DEF opened
    <3> QED
      BY <3>1 DEF NewAccount, Account, AccountTypes
  <2>3. CASE n > 0
    <3>1. n \in Amount /\ opened
      BY <2>3, BoundAssumption DEF Amount
    <3>2. Commit(new, ledger, NewEntry("opening_balance", n, None, a))
      BY <1>4, <2>3 DEF CreateAccount
    <3> HIDE DEF fresh, opened
    <3>3. /\ new \in [AccountIds -> Account]
          /\ \A b \in AccountIds : new[b].openingRecorded
                                      <=> (b = a \/ accounts[b].openingRecorded)
      BY <1>1, <2>1, <2>2, <3>1
    <3> HIDE DEF new
    <3> QED
      BY <1>2, <2>1, <3>1, <3>2, <3>3
  <2>4. CASE ~(n > 0)
    <3>1. accounts' = new /\ created' = created \cup {a} /\ ledger' = ledger
      BY <1>4, <2>4 DEF CreateAccount
    <3>2. opened = FALSE
      BY <2>4
    <3>3. accounts[a].openingRecorded = FALSE
      BY <1>1, <2>1 DEF Account
    <3> HIDE DEF fresh, opened
    <3>4. FlagsKept
      BY <1>1, <2>1, <2>2, <3>1, <3>2, <3>3 DEF FlagsKept
    <3> QED
      BY <3>1, <3>4, OpeningsIdle
  <2> QED
    BY <2>3, <2>4
<1>5. ASSUME NEW a \in AccountIds, NEW active \in BOOLEAN, UpdateAccount(a, active)
      PROVE  OpeningsInv'
  <2>1. \A b \in AccountIds : accounts'[b].openingRecorded = accounts[b].openingRecorded
    BY <1>1, <1>5 DEF UpdateAccount, Account
  <2> QED
    BY <1>5, <2>1, OpeningsIdle DEF UpdateAccount, FlagsKept
<1>6. ASSUME NEW a \in AccountIds, NEW n \in Amounts, RecordOpeningBalance(a, n)
      PROVE  OpeningsInv'
  <2> DEFINE new == [accounts EXCEPT ![a].openingRecorded = TRUE]
  <2>1. n \in Amount /\ ~accounts[a].openingRecorded
    BY <1>6, BoundAssumption DEF RecordOpeningBalance
  <2>2. Commit(new, ledger, NewEntry("opening_balance", n, None, a))
    BY <1>6 DEF RecordOpeningBalance
  <2>3. /\ new \in [AccountIds -> Account]
        /\ \A b \in AccountIds : new[b].openingRecorded
                                    <=> (b = a \/ accounts[b].openingRecorded)
    BY <1>1 DEF Account
  <2> HIDE DEF new
  <2> QED
    BY <1>2, <2>1, <2>2, <2>3
<1> QED
  BY <1>3, <1>4, <1>5, <1>6 DEF AccountChanges

LEMMA OpeningsStep == FinanceTypeOK /\ OpeningsInv /\ [FinanceNext]_financeVars => OpeningsInv'
<1>1. FinanceTypeOK /\ OpeningsInv /\ (NextDay \/ UNCHANGED financeVars) => OpeningsInv'
  BY OpeningsIdle DEF NextDay, financeVars, FlagsKept
<1> QED
  BY <1>1, OpeningsPayments, OpeningsAccounts, OpeningsMovements, OpeningsCorrections,
     OpeningsReversals DEF FinanceNext

\* Whatever opening balances are recorded, reversed and recorded again: an account
\* has one that stands exactly while it says so, and never two.
THEOREM OpeningsCorrect == FinanceSpec => []OpeningBalanceOnce
<1>1. FinanceInit => OpeningsInv
  BY DEF FinanceInit, OpeningsInv, NewAccount
<1> QED
  BY <1>1, OpeningsStep, OpeningsDefined, TypeCorrect, PTL DEF FinanceSpec
=============================================================================
