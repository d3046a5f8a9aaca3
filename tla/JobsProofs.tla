----------------------------- MODULE JobsProofs -----------------------------
(* Theorems about Jobs, for every value of its constants: one inductive     *)
(* invariant, JobsInv, that every kind of step keeps, and what follows.     *)
EXTENDS Jobs, SequenceTheorems, FiniteSetTheorems, TLAPS

-----------------------------------------------------------------------------
(* The inductive invariant *)

Line == [worker: Workers \cup {None}, status: OrderStatuses]
JobDoc == [vehicle: Vehicles, status: {"draft", "open", "completed", "cancelled"},
           selected: UNION {[S -> Prices] : S \in (SUBSET Services) \ {{}}},
           lines: UNION {[L -> Line] : L \in SUBSET OrderIds},
           workerIds: SUBSET Workers, invoice: Nat]
InvoiceDoc == [job: Nat, cancelled: BOOLEAN,
               items: UNION {[D -> Prices] : D \in SUBSET OrderIds}]

\* An order by itself: JobsTypeOK and OneAssignee, and who was never assigned has
\* no history.
OrderRight(order) ==
    /\ order \in Order
    /\ order.status \notin {"pending", "cancelled"} => order.worker # None
    /\ order.status = "pending" => order.history = << >>
    /\ \A k \in DOMAIN order.history : order.history[k].ended <=> k < Len(order.history)
    /\ order.worker = IF order.history = << >> THEN None
                      ELSE order.history[Len(order.history)].worker

\* What JobMirrorsOrders and WorkIsPricedOnce say of one job.
Mirrored(job, j, ords) ==
    LET all == {o \in DOMAIN ords : o.job = j}
        done == {o \in all : ords[o].status = "completed"}
    IN  /\ DOMAIN job.lines = all
        /\ \A o \in all : job.lines[o] = LineOf(ords[o])
        /\ job.workerIds = {ords[o].worker : o \in all} \ {None}
        /\ job.status = "cancelled" => \A o \in all : ords[o].status = "cancelled"
        /\ job.status \notin {"cancelled", "draft"} =>
              (job.status = "completed" <=>
                  done # {} /\ \A o \in all \ done : ords[o].status = "cancelled")
PricedOnce(job, j, ords) ==
    LET live == {o \in DOMAIN ords : o.job = j /\ ords[o].status # "cancelled"}
    IN  /\ \A o \in live : o.service \in DOMAIN job.selected
        /\ \A o, p \in live : o.service = p.service => o = p

\* The orders of a job for a service are counted, so the next number is free.
Like(o, ids) == {p \in ids : p.job = o.job /\ p.service = o.service}
Numbered(ids) ==
    /\ IsFiniteSet(ids)
    /\ ids \subseteq OrderIds
    /\ \A o \in ids : o.nth <= Cardinality(Like(o, ids))

Documents ==
    /\ intakes \in Seq(JobDoc)
    /\ invoices \in Seq(InvoiceDoc)
    /\ price \in [Services -> Prices]
    /\ orders = [o \in DOMAIN orders |-> orders[o]]
    /\ Numbered(DOMAIN orders)
    /\ \A o \in DOMAIN orders : o.job \in DOMAIN intakes
    /\ \A i \in DOMAIN invoices : invoices[i].job \in DOMAIN intakes
OrdersRight == \A o \in DOMAIN orders : OrderRight(orders[o])
JobsRight ==
    \A j \in DOMAIN intakes :
        Mirrored(intakes[j], j, orders) /\ PricedOnce(intakes[j], j, orders)

JobsInv == Documents /\ OrdersRight /\ JobsRight /\ InvoicedWorkFrozen

-----------------------------------------------------------------------------
(* New orders *)

\* New orders are new: one for each of the services.
LEMMA NewOrdersFresh ==
    ASSUME Numbered(DOMAIN orders), NEW j \in Nat \ {0}, NEW S \in SUBSET Services
    PROVE  /\ NewOrders(j, S) \subseteq OrderIds
           /\ NewOrders(j, S) \cap DOMAIN orders = {}
           /\ \A o \in NewOrders(j, S) : o.job = j /\ o.service \in S
           /\ \A o, p \in NewOrders(j, S) : o.service = p.service => o = p
<1> DEFINE Before(s) == {o \in OrdersOf(j) : o.service = s}
<1> DEFINE id(s) == [job |-> j, service |-> s, nth |-> Cardinality(Before(s)) + 1]
<1>1. \A s \in S : Cardinality(Before(s)) \in Nat
  <2> TAKE s \in S
  <2>1. Before(s) \in SUBSET DOMAIN orders
    BY DEF OrdersOf
  <2> QED
    BY <2>1, FS_Subset, FS_CardinalityType DEF Numbered
<1>2. NewOrders(j, S) = {id(s) : s \in S}
  BY DEF NewOrders
<1>3. \A s \in S : id(s) \in OrderIds /\ id(s) \notin DOMAIN orders
  <2> TAKE s \in S
  <2>1. id(s) \in OrderIds
    BY <1>1 DEF OrderIds
  <2>2. ASSUME id(s) \in DOMAIN orders PROVE FALSE
    <3>1. Like(id(s), DOMAIN orders) = Before(s)
      BY DEF Like, OrdersOf
    <3>2. id(s).nth <= Cardinality(Before(s))
      BY <2>2, <3>1 DEF Numbered
    <3> QED
      BY <3>2, <1>1
  <2> QED
    BY <2>1, <2>2
<1> HIDE DEF Before
<1> QED
  BY <1>2, <1>3

\* Ids stay numbered when a job gets new orders.
LEMMA NumberedKept ==
    ASSUME JobsAssumption,
           Numbered(DOMAIN orders), NEW j \in Nat \ {0}, NEW S \in SUBSET Services
    PROVE  Numbered(DOMAIN orders \cup NewOrders(j, S))
<1> DEFINE new == NewOrders(j, S)
           ids == DOMAIN orders \cup new
           Before(s) == {o \in OrdersOf(j) : o.service = s}
           id(s) == [job |-> j, service |-> s, nth |-> Cardinality(Before(s)) + 1]
           f == [s \in S |-> id(s)]
<1>1. new = {id(s) : s \in S}
  BY DEF NewOrders
<1>2. IsFiniteSet(S)
  BY FS_Subset DEF JobsAssumption
<1>3. f \in Surjection(S, new)
  BY <1>1 DEF Surjection
<1>4. IsFiniteSet(ids)
  BY <1>2, <1>3, FS_Surjection, FS_Union DEF Numbered
<1>5. ids \subseteq OrderIds
  BY NewOrdersFresh DEF Numbered
<1>6. ASSUME NEW o \in DOMAIN orders PROVE o.nth <= Cardinality(Like(o, ids))
  <2>1. Like(o, DOMAIN orders) \in SUBSET Like(o, ids)
    BY DEF Like
  <2>2. Like(o, ids) \in SUBSET ids /\ Like(o, DOMAIN orders) \in SUBSET DOMAIN orders
    BY DEF Like
  <2>3. /\ Cardinality(Like(o, DOMAIN orders)) <= Cardinality(Like(o, ids))
        /\ Cardinality(Like(o, DOMAIN orders)) \in Nat /\ Cardinality(Like(o, ids)) \in Nat
    BY <1>4, <2>1, <2>2, FS_Subset, FS_CardinalityType DEF Numbered
  <2>4. o.nth \in Nat /\ o.nth <= Cardinality(Like(o, DOMAIN orders))
    BY DEF Numbered, OrderIds
  <2> QED
    BY <2>3, <2>4
<1>7. ASSUME NEW s \in S PROVE id(s).nth <= Cardinality(Like(id(s), ids))
  <2>1. Before(s) \in SUBSET DOMAIN orders /\ id(s) \notin Before(s) /\ id(s) \in ids
    <3>1. Before(s) \in SUBSET DOMAIN orders
      BY DEF OrdersOf
    <3>2. id(s) \in new
      BY <1>1
    <3>3. new \cap DOMAIN orders = {}
      BY NewOrdersFresh
    <3> HIDE DEF Before, id, new
    <3> QED
      BY <3>1, <3>2, <3>3
  <2>2. Before(s) \cup {id(s)} \in SUBSET Like(id(s), ids) /\ Like(id(s), ids) \in SUBSET ids
    BY <2>1 DEF Like, OrdersOf
  <2>3. Cardinality(Before(s) \cup {id(s)}) = Cardinality(Before(s)) + 1
    <3> HIDE DEF Before, id
    <3> QED
      BY <2>1, FS_Subset, FS_AddElement DEF Numbered
  <2>4. Cardinality(Before(s) \cup {id(s)}) <= Cardinality(Like(id(s), ids))
    BY <1>4, <2>2, FS_Subset
  <2> QED
    BY <2>3, <2>4
<1> QED
  BY <1>1, <1>4, <1>5, <1>6, <1>7 DEF Numbered

-----------------------------------------------------------------------------
(* What a step does to an order *)

OrderStep(a, b) ==
    \/ b = a
    \/ /\ a.status \notin {"completed", "cancelled"}
       /\ \/ b = CancelledOrder(a)
          \/ a.status = "pending" /\ \E w \in Workers : b = Assigned(a, << >>, w)
          \/ /\ a.status \in Reassignable
             /\ \E w \in Workers : b = Assigned(a, EarlierAssignments(a), w)
          \/ /\ a.status # "pending"
             /\ \E s \in OrderStatuses \ {"pending", "cancelled"} :
                   b = [a EXCEPT !.status = s]

\* What WorkIsKept says of one order.
OrderKept(a, b) ==
    /\ Len(a.history) <= Len(b.history)
    /\ \A k \in DOMAIN a.history :
          /\ b.history[k].worker = a.history[k].worker
          /\ a.history[k].ended => b.history[k].ended
    /\ a.status \in {"completed", "cancelled"} => b = a

\* What is appended is open, all before it is ended, if it was so before.
LEMMA AssignedRight ==
    ASSUME NEW a, OrderRight(a), NEW h \in Seq([worker: Workers, ended: BOOLEAN]),
           \A k \in DOMAIN h : h[k].ended, NEW w \in Workers, JobsAssumption
    PROVE  /\ OrderRight(Assigned(a, h, w))
           /\ Assigned(a, h, w).history = Append(h, [worker |-> w, ended |-> FALSE])
<1> DEFINE b == Assigned(a, h, w)
           x == [worker |-> w, ended |-> FALSE]
<1>1. x \in [worker: Workers, ended: BOOLEAN]
  OBVIOUS
<1>2. /\ Append(h, x) \in Seq([worker: Workers, ended: BOOLEAN])
      /\ Append(h, x) # << >>
      /\ Len(Append(h, x)) = Len(h) + 1
      /\ \A i \in 1..Len(h) : Append(h, x)[i] = h[i]
      /\ Append(h, x)[Len(h) + 1] = x
  BY <1>1, AppendProperties
<1>3. Len(h) \in Nat /\ DOMAIN h = 1..Len(h) /\ DOMAIN Append(h, x) = 1..(Len(h) + 1)
  BY <1>2, LenProperties
<1>4. b.status = "assigned" /\ b.worker = w /\ b.history = Append(h, x) /\ b \in Order
  BY <1>2 DEF Assigned, OrderRight, Order, OrderStatuses
<1>5. w # None
  BY DEF JobsAssumption
<1>6. \A k \in DOMAIN Append(h, x) : Append(h, x)[k].ended <=> k < Len(h) + 1
  <2> TAKE k \in DOMAIN Append(h, x)
  <2>1. CASE k = Len(h) + 1
    BY <1>2, <1>3, <2>1
  <2>2. CASE k \in 1..Len(h)
    BY <1>2, <1>3, <2>2
  <2> QED
    BY <1>3, <2>1, <2>2
<1>7. x.worker = w
  OBVIOUS
<1> HIDE DEF b, x
<1> QED
  BY <1>2, <1>4, <1>5, <1>6, <1>7 DEF OrderRight, b, x

\* The earlier assignments of an order are all ended, by the same workers.
LEMMA EarlierRight ==
    ASSUME NEW a, OrderRight(a)
    PROVE  LET h == EarlierAssignments(a)
           IN  /\ h \in Seq([worker: Workers, ended: BOOLEAN])
               /\ Len(h) = Len(a.history)
               /\ \A k \in DOMAIN h : h[k].ended /\ h[k].worker = a.history[k].worker
<1> DEFINE g == a.history
           h == EarlierAssignments(a)
           A == [worker: Workers, ended: BOOLEAN]
<1>1. g \in Seq(A)
  BY DEF OrderRight, Order
<1>2. Len(g) \in Nat /\ DOMAIN g = 1..Len(g) /\ \A k \in 1..Len(g) : g[k] \in A
  BY <1>1, LenProperties
<1>3. \A k \in DOMAIN g : [g[k] EXCEPT !.ended = TRUE] \in A
  BY <1>2
<1>4. h = [k \in 1..Len(g) |-> IF k = Len(g) THEN [g[k] EXCEPT !.ended = TRUE] ELSE g[k]]
  BY <1>2 DEF EarlierAssignments
<1>5. h \in [1..Len(g) -> A]
  BY <1>2, <1>3, <1>4
<1>6. h \in Seq(A) /\ Len(h) = Len(g) /\ DOMAIN h = 1..Len(g)
  <2> HIDE DEF g, h, A
  <2>1. h \in Seq(A)
    BY <1>2, <1>5, SeqDef
  <2>2. Len(h) \in Nat /\ DOMAIN h = 1..Len(h) /\ DOMAIN h = 1..Len(g)
    BY <1>5, <2>1, LenProperties
  <2>3. \A m, n \in Nat : 1..m = 1..n => m = n
    <3> SUFFICES ASSUME NEW m \in Nat, NEW n \in Nat, 1..m = 1..n, m < n PROVE FALSE
      OBVIOUS
    <3>1. n \in 1..n /\ n \notin 1..m
      OBVIOUS
    <3> QED
      BY <3>1
  <2> QED
    BY <1>2, <2>1, <2>2, <2>3
<1>7. ASSUME NEW k \in 1..Len(g) PROVE h[k].ended /\ h[k].worker = g[k].worker
  <2>1. CASE k = Len(g)
    BY <1>2, <1>4, <2>1
  <2>2. CASE k # Len(g)
    BY <1>2, <1>4, <2>2 DEF OrderRight
  <2> QED
    BY <2>1, <2>2
<1> QED
  BY <1>6, <1>7

LEMMA OrderStepRight ==
    ASSUME JobsAssumption, NEW a, OrderRight(a), NEW b, OrderStep(a, b)
    PROVE  OrderRight(b) /\ OrderKept(a, b)
<1> DEFINE g == a.history
           A == [worker: Workers, ended: BOOLEAN]
<1>1. /\ g \in Seq(A) /\ Len(g) \in Nat /\ DOMAIN g = 1..Len(g)
      /\ DOMAIN a = {"status", "worker", "history"}
  BY LenProperties DEF OrderRight, Order
<1>2. CASE b = a
  BY <1>1, <1>2 DEF OrderKept
<1>3. ASSUME a.status \notin {"completed", "cancelled"}, b = CancelledOrder(a)
      PROVE  OrderRight(b) /\ OrderKept(a, b)
  <2>1. b.status = "cancelled" /\ b.worker = a.worker /\ b.history = g /\ b \in Order
    BY <1>3 DEF CancelledOrder, OrderRight, Order, OrderStatuses
  <2> QED
    BY <1>1, <1>3, <2>1 DEF OrderRight, OrderKept
<1>4. ASSUME a.status \notin {"completed", "cancelled", "pending"},
             NEW s \in OrderStatuses \ {"pending", "cancelled"}, b = [a EXCEPT !.status = s]
      PROVE  OrderRight(b) /\ OrderKept(a, b)
  <2>1. b.status = s /\ b.worker = a.worker /\ b.history = g /\ b \in Order
    BY <1>4 DEF OrderRight, Order
  <2> QED
    BY <1>1, <1>4, <2>1 DEF OrderRight, OrderKept
<1>5. ASSUME a.status = "pending", NEW w \in Workers, b = Assigned(a, << >>, w)
      PROVE  OrderRight(b) /\ OrderKept(a, b)
  <2>1. g = << >>
    BY <1>5 DEF OrderRight
  <2>2. << >> \in Seq(A) /\ DOMAIN << >> = {} /\ Len(<< >>) = 0
    OBVIOUS
  <2>3. OrderRight(Assigned(a, << >>, w))
    BY <2>2, AssignedRight
  <2>4. OrderRight(b) /\ b.history \in Seq(A)
    BY <1>5, <2>3 DEF OrderRight, Order
  <2>5. Len(b.history) \in Nat
    BY <2>4, LenProperties
  <2> QED
    BY <1>5, <2>1, <2>2, <2>4, <2>5 DEF OrderKept
<1>6. ASSUME a.status \in Reassignable, NEW w \in Workers,
             b = Assigned(a, EarlierAssignments(a), w)
      PROVE  OrderRight(b) /\ OrderKept(a, b)
  <2> DEFINE h == EarlierAssignments(a)
             x == [worker |-> w, ended |-> FALSE]
  <2>1. /\ h \in Seq(A) /\ Len(h) = Len(g)
        /\ \A k \in DOMAIN h : h[k].ended /\ h[k].worker = g[k].worker
    BY EarlierRight
  <2>2. OrderRight(b) /\ b.history = Append(h, x)
    BY <1>6, <2>1, AssignedRight
  <2>3. DOMAIN h = 1..Len(g)
    BY <2>1, LenProperties
  <2>4. x \in A
    OBVIOUS
  <2>5. Len(b.history) = Len(g) + 1 /\ \A k \in 1..Len(g) : b.history[k] = h[k]
    <3> HIDE DEF h, x, A
    <3> QED
      BY <2>1, <2>2, <2>4, AppendProperties
  <2>6. a.status \notin {"completed", "cancelled"}
    BY <1>6 DEF Reassignable
  <2> HIDE DEF h, x
  <2> QED
    BY <1>1, <2>1, <2>2, <2>3, <2>5, <2>6 DEF OrderKept
<1> QED
  BY <1>2, <1>3, <1>4, <1>5, <1>6 DEF OrderStep

-----------------------------------------------------------------------------
(* What the summary of a job says *)

IdsOf(j, ords) == {o \in DOMAIN ords : o.job = j}
DoneOf(j, ords) == {o \in IdsOf(j, ords) : ords[o].status = "completed"}

\* lines says of the orders of job j what they say.
Summarises(lines, j, ords) ==
    lines = [o \in IdsOf(j, ords) |-> LineOf(ords[o])]
WorkersOn(lines) == {lines[o].worker : o \in DOMAIN lines} \ {None}
OrdersIn(ords) == \A o \in DOMAIN ords : o \in OrderIds /\ ords[o] \in Order

\* The status of a job follows from its orders if the summary is right.
LEMMA StatusFollows ==
    ASSUME NEW j, NEW ords, OrdersIn(ords), NEW lines, Summarises(lines, j, ords)
    PROVE  /\ lines \in UNION {[L -> Line] : L \in SUBSET OrderIds}
           /\ JobStatusFor(lines) \in {"open", "completed"}
           /\ JobStatusFor(lines) = "completed" <=>
                  /\ DoneOf(j, ords) # {}
                  /\ \A o \in IdsOf(j, ords) \ DoneOf(j, ords) : ords[o].status = "cancelled"
           /\ WorkersOn(lines) = {ords[o].worker : o \in IdsOf(j, ords)} \ {None}
           /\ WorkersOn(lines) \subseteq Workers
<1> DEFINE all == IdsOf(j, ords)
<1>1. /\ DOMAIN lines = all /\ all \in SUBSET OrderIds
      /\ \A o \in all : /\ lines[o] = LineOf(ords[o]) /\ lines[o] \in Line
                        /\ lines[o].status = ords[o].status
                        /\ lines[o].worker = ords[o].worker
  BY DEF Summarises, OrdersIn, IdsOf, LineOf, Line, Order
<1>2. lines \in [all -> Line]
  BY <1>1 DEF Summarises
<1>3. lines \in UNION {[L -> Line] : L \in SUBSET OrderIds}
  BY <1>1, <1>2
<1>4. /\ JobStatusFor(lines) \in {"open", "completed"}
      /\ JobStatusFor(lines) = "completed" <=>
            LET live == {o \in all : ords[o].status # "cancelled"}
            IN  live # {} /\ \A o \in live : ords[o].status = "completed"
  <2>1. {o \in DOMAIN lines : lines[o].status # "cancelled"} =
            {o \in all : ords[o].status # "cancelled"}
    BY <1>1
  <2> QED
    BY <1>1, <2>1 DEF JobStatusFor
<1>5. /\ WorkersOn(lines) = {ords[o].worker : o \in all} \ {None}
      /\ WorkersOn(lines) \subseteq Workers
  BY <1>1 DEF Line, WorkersOn
<1> QED
  BY <1>3, <1>4, <1>5 DEF DoneOf

\* The job d after its orders became lines and its services those of selected.
Reselected(d, lines, selected, opening) ==
    Opened([IntakeUpdate(d, lines) EXCEPT !.selected = selected], opening)

\* A job after its orders were summarised and its services chosen, opened or not.
LEMMA ServicesMirrored ==
    ASSUME NEW j, NEW ords, OrdersIn(ords), NEW lines, Summarises(lines, j, ords),
           NEW d \in JobDoc, d.status # "cancelled", NEW opening \in BOOLEAN,
           NEW selected \in UNION {[T -> Prices] : T \in (SUBSET Services) \ {{}}}
    PROVE  LET v == Reselected(d, lines, selected, opening)
           IN  v \in JobDoc /\ v.invoice = d.invoice /\ v.selected = selected /\ Mirrored(v, j, ords)
<1> DEFINE u0 == IntakeUpdate(d, lines)
           v0 == [u0 EXCEPT !.selected = selected]
           v == Reselected(d, lines, selected, opening)
           ids == WorkersOn(lines)
           status == IF d.status \in {"cancelled", "draft"} THEN d.status ELSE JobStatusFor(lines)
           now == IF opening /\ status = "draft" THEN JobStatusFor(lines) ELSE status
<1>1. /\ lines \in UNION {[L -> Line] : L \in SUBSET OrderIds}
      /\ JobStatusFor(lines) \in {"open", "completed"}
      /\ JobStatusFor(lines) = "completed" <=>
            /\ DoneOf(j, ords) # {}
            /\ \A o \in IdsOf(j, ords) \ DoneOf(j, ords) : ords[o].status = "cancelled"
      /\ ids = {ords[o].worker : o \in IdsOf(j, ords)} \ {None}
      /\ ids \in SUBSET Workers
  BY StatusFollows
<1>2. v0 = [vehicle |-> d.vehicle, status |-> status, selected |-> selected, lines |-> lines,
            workerIds |-> ids, invoice |-> d.invoice]
  <2>1. u0 = [d EXCEPT !.lines = lines, !.workerIds = ids, !.status = status]
    BY DEF IntakeUpdate, WorkersOn
  <2>2. d = [vehicle |-> d.vehicle, status |-> d.status, selected |-> d.selected,
             lines |-> d.lines, workerIds |-> d.workerIds, invoice |-> d.invoice]
    BY DEF JobDoc
  <2>3. u0 = [vehicle |-> d.vehicle, status |-> status, selected |-> d.selected, lines |-> lines,
              workerIds |-> ids, invoice |-> d.invoice]
    <3> HIDE DEF u0, ids, status
    <3> QED
      BY <2>1, <2>2
  <2> HIDE DEF u0, ids, status
  <2> QED
    BY <2>3
<1>3. status \in {"draft", "open", "completed"} /\ v0.status = status /\ v0.lines = lines
  <2>1. status \in {"draft", "open", "completed"}
    BY <1>1 DEF JobDoc
  <2> HIDE DEF v0, ids, status
  <2> QED
    BY <1>2, <2>1
<1>4. v = [vehicle |-> d.vehicle, status |-> now, selected |-> selected, lines |-> lines,
           workerIds |-> ids, invoice |-> d.invoice]
  <2>1. v = Opened(v0, opening)
    BY DEF Reselected
  <2> HIDE DEF v, v0, ids, status
  <2> QED
    BY <1>2, <1>3, <2>1 DEF Opened
<1>5. now \in {"draft", "open", "completed"} /\ (now # "draft" => now = JobStatusFor(lines))
  <2>1. status # "draft" => status = JobStatusFor(lines)
    BY DEF JobDoc
  <2> HIDE DEF status
  <2> QED
    BY <1>1, <1>3, <2>1
<1> HIDE DEF v, ids, now
<1>6. d.vehicle \in Vehicles /\ d.invoice \in Nat
  BY DEF JobDoc
<1>7. /\ v \in JobDoc /\ v.invoice = d.invoice /\ v.selected = selected
      /\ v.lines = lines /\ v.workerIds = ids /\ v.status = now
  BY <1>1, <1>4, <1>5, <1>6 DEF JobDoc
<1>8. Mirrored(v, j, ords)
  <2>1. DOMAIN lines = IdsOf(j, ords) /\ \A o \in IdsOf(j, ords) : lines[o] = LineOf(ords[o])
    BY DEF Summarises
  <2> QED
    BY <1>1, <1>5, <1>7, <2>1 DEF Mirrored, IdsOf, DoneOf
<1> QED
  BY <1>7, <1>8 DEF v

\* The same when the services stay.
LEMMA JobMirrored ==
    ASSUME NEW j, NEW ords, OrdersIn(ords), NEW lines, Summarises(lines, j, ords),
           NEW d \in JobDoc, d.status # "cancelled", NEW opening \in BOOLEAN
    PROVE  LET u == Opened(IntakeUpdate(d, lines), opening)
           IN  u \in JobDoc /\ u.invoice = d.invoice /\ u.selected = d.selected /\ Mirrored(u, j, ords)
<1>1. d.selected \in UNION {[T -> Prices] : T \in (SUBSET Services) \ {{}}}
  BY DEF JobDoc
<1>2. IntakeUpdate(d, lines) = [IntakeUpdate(d, lines) EXCEPT !.selected = d.selected]
  <2>1. d = [vehicle |-> d.vehicle, status |-> d.status, selected |-> d.selected,
             lines |-> d.lines, workerIds |-> d.workerIds, invoice |-> d.invoice]
    BY DEF JobDoc
  <2> QED
    BY <2>1 DEF IntakeUpdate
<1> DEFINE v == Reselected(d, lines, d.selected, opening)
<1>3. v \in JobDoc /\ v.invoice = d.invoice /\ v.selected = d.selected /\ Mirrored(v, j, ords)
  BY <1>1, ServicesMirrored
<1>4. v = Opened(IntakeUpdate(d, lines), opening)
  BY <1>2 DEF Reselected
<1> HIDE DEF v
<1> QED
  BY <1>3, <1>4

-----------------------------------------------------------------------------
(* What a step does *)

\* The orders of job j change, each by one step, and new ones are added.
OrdersStep(j, new) ==
    /\ orders' = [o \in DOMAIN orders \cup new |-> orders'[o]]
    /\ \A o \in new : orders'[o] = NewOrder
    /\ \A o \in DOMAIN orders :
          OrderStep(orders[o], orders'[o]) /\ (o.job # j => orders'[o] = orders[o])

JobAfter(d, j) ==
    /\ d \in JobDoc /\ d.invoice = 0
    /\ Mirrored(d, j, orders') /\ PricedOnce(d, j, orders')

ChangesJob == \E j \in DOMAIN intakes, S \in SUBSET Services, d \in JobDoc :
    /\ intakes[j].invoice = 0
    /\ intakes' = [intakes EXCEPT ![j] = d]
    /\ JobAfter(d, j) /\ OrdersStep(j, NewOrders(j, S))
    /\ UNCHANGED <<invoices, price>>
StartsJob == \E S \in SUBSET Services, d \in JobDoc :
    LET j == Len(intakes) + 1
    IN  /\ intakes' = Append(intakes, d)
        /\ JobAfter(d, j) /\ OrdersStep(j, NewOrders(j, S))
        /\ UNCHANGED <<invoices, price>>
InvoicesJob == \E j \in DOMAIN intakes : CreateInvoice(j)
FreesJob == \E i \in DOMAIN invoices : CancelInvoice(i)
Reprices == \E s \in Services, p \in Prices : UpdateService(s, p)

LEMMA OrdersStepRight ==
    ASSUME JobsAssumption, Documents, OrdersRight, NEW j \in Nat \ {0},
           NEW S \in SUBSET Services, OrdersStep(j, NewOrders(j, S))
    PROVE  /\ \A o \in DOMAIN orders' : OrderRight(orders'[o])
           /\ OrdersIn(orders')
           /\ DOMAIN orders' = DOMAIN orders \cup NewOrders(j, S)
           /\ \A o \in DOMAIN orders : OrderKept(orders[o], orders'[o])
<1>1. DOMAIN orders' = DOMAIN orders \cup NewOrders(j, S)
  BY DEF OrdersStep
<1>2. OrderRight(NewOrder)
  <2>1. NewOrder.history = << >> /\ NewOrder.status = "pending" /\ NewOrder.worker = None
        /\ NewOrder \in Order
    BY DEF NewOrder, Order, OrderStatuses
  <2> QED
    BY <2>1 DEF OrderRight
<1>3. \A o \in DOMAIN orders : OrderRight(orders'[o]) /\ OrderKept(orders[o], orders'[o])
  BY OrderStepRight DEF OrdersStep, OrdersRight
<1>4. \A o \in NewOrders(j, S) : OrderRight(orders'[o])
  BY <1>2 DEF OrdersStep
<1>5. DOMAIN orders' \subseteq OrderIds
  BY <1>1, NewOrdersFresh DEF Documents, Numbered
<1> QED
  BY <1>1, <1>3, <1>4, <1>5 DEF OrdersIn, OrderRight

LEMMA JobIdsKnown ==
    ASSUME Documents
    PROVE  /\ Len(intakes) \in Nat /\ DOMAIN intakes = 1..Len(intakes)
           /\ DOMAIN intakes \subseteq Nat \ {0}
           /\ \A j \in DOMAIN intakes : intakes[j] \in JobDoc
BY LenProperties DEF Documents

\* Assigning, passing on, working on or cancelling one order.
LEMMA UpdateChanges ==
    ASSUME JobsAssumption, JobsInv, NEW o \in DOMAIN orders, Changeable(intakes[o.job]),
           NEW b, OrderStep(orders[o], b), Update(o, b), UNCHANGED <<invoices, price>>
    PROVE  ChangesJob
<1> DEFINE j == o.job
           job == intakes[j]
           lines == [l \in DOMAIN job.lines \cup {o} |->
                        IF l = o THEN LineOf(b) ELSE job.lines[l]]
           d == IntakeUpdate(job, lines)
<1>1. /\ j \in DOMAIN intakes /\ j \in Nat \ {0} /\ job \in JobDoc
      /\ job.status # "cancelled" /\ job.invoice = 0
      /\ Mirrored(job, j, orders) /\ PricedOnce(job, j, orders)
  BY JobIdsKnown DEF JobsInv, Documents, JobsRight, Changeable
<1>2. orders' = [orders EXCEPT ![o] = b] /\ intakes' = [intakes EXCEPT ![j] = d]
  BY DEF Update
<1>3. NewOrders(j, {}) = {}
  BY DEF NewOrders
<1>4. OrdersStep(j, NewOrders(j, {}))
  BY <1>2, <1>3 DEF OrdersStep, OrderStep, JobsInv, Documents
<1>5. OrdersIn(orders') /\ DOMAIN orders' = DOMAIN orders
  BY <1>1, <1>3, <1>4, OrdersStepRight DEF JobsInv
<1>6. Summarises(lines, j, orders')
  BY <1>1, <1>2, <1>5 DEF Summarises, Mirrored, IdsOf
<1>8. /\ d \in JobDoc /\ d.invoice = job.invoice /\ d.selected = job.selected
      /\ Mirrored(d, j, orders')
  <2> DEFINE u == Opened(IntakeUpdate(job, lines), FALSE)
  <2>1. u = d
    BY DEF Opened
  <2>2. u \in JobDoc /\ u.invoice = job.invoice /\ u.selected = job.selected
        /\ Mirrored(u, j, orders')
    <3> HIDE DEF lines, job
    <3> QED
      BY <1>1, <1>5, <1>6, JobMirrored
  <2> QED
    BY <2>1, <2>2
<1>9. PricedOnce(d, j, orders')
  <2>1. \A p \in DOMAIN orders : orders'[p].status # "cancelled" => orders[p].status # "cancelled"
    <3> TAKE p \in DOMAIN orders
    <3>1. CASE p = o
      BY <1>2, <3>1 DEF OrderStep
    <3>2. CASE p # o
      BY <1>2, <3>2
    <3> QED
      BY <3>1, <3>2
  <2> HIDE DEF d, lines, job
  <2> QED
    BY <1>1, <1>5, <1>8, <2>1 DEF PricedOnce
<1> HIDE DEF d, lines, job
<1>10. d \in JobDoc /\ JobAfter(d, j) /\ job.invoice = 0
  BY <1>1, <1>8, <1>9 DEF JobAfter
<1> QED
  BY <1>1, <1>2, <1>4, <1>10 DEF ChangesJob, job

\* Dropping and adding services.
LEMMA ServicesChange ==
    ASSUME JobsAssumption, JobsInv, NEW j \in DOMAIN intakes,
           NEW S \in (SUBSET Services) \ {{}}, NEW opening \in BOOLEAN,
           ChangeServices(j, S, opening)
    PROVE  ChangesJob
<1> DEFINE job == intakes[j]
           live == {o \in OrdersOf(j) : Live(o)}
           out == {o \in live : o.service \notin S}
           T == WithoutOrder(j, S)
           new == NewOrders(j, T)
           lines == [o \in OrdersOf(j) \cup new |-> LineOf(orders'[o])]
           d == Opened([IntakeUpdate(job, lines) EXCEPT !.selected = Selected(S)], opening)
<1>1. /\ j \in Nat \ {0} /\ job \in JobDoc /\ job.status # "cancelled" /\ job.invoice = 0
      /\ Mirrored(job, j, orders) /\ PricedOnce(job, j, orders)
  BY JobIdsKnown DEF JobsInv, JobsRight, Changeable, ChangeServices
<1>2. /\ orders' = OrdersWith(out, new) /\ UNCHANGED <<invoices, price>>
      /\ intakes' = [intakes EXCEPT ![j] = d]
      /\ \A o \in out : orders[o].status \in Removable
  BY DEF ChangeServices
<1>3. T \in SUBSET S /\ S \in SUBSET Services
  BY DEF WithoutOrder
<1>4. /\ new \subseteq OrderIds /\ new \cap DOMAIN orders = {}
      /\ \A o \in new : o.job = j /\ o.service \in T
      /\ \A o, p \in new : o.service = p.service => o = p
  <2>1. Numbered(DOMAIN orders) /\ T \in SUBSET Services
    BY <1>3 DEF JobsInv, Documents
  <2> HIDE DEF T
  <2> QED
    BY <1>1, <2>1, NewOrdersFresh
<1>5. /\ DOMAIN orders' = DOMAIN orders \cup new
      /\ \A o \in new : orders'[o] = NewOrder
      /\ \A o \in DOMAIN orders :
            orders'[o] = IF o \in out THEN CancelledOrder(orders[o]) ELSE orders[o]
  <2> HIDE DEF new, out
  <2> QED
    BY <1>2, <1>4 DEF OrdersWith
<1>6. OrdersStep(j, new)
  <2>1. \A o \in out : orders[o].status \notin {"completed", "cancelled"} /\ o.job = j
    BY <1>2 DEF Removable, OrdersOf
  <2>2. orders' = [o \in DOMAIN orders \cup new |-> orders'[o]]
    <3> HIDE DEF new, out
    <3> QED
      BY <1>2, <1>5 DEF OrdersWith
  <2> HIDE DEF new, out
  <2> QED
    BY <1>5, <2>1, <2>2 DEF OrdersStep, OrderStep
<1>7. OrdersIn(orders')
  <2>1. T \in SUBSET Services
    BY <1>3
  <2> HIDE DEF T
  <2> QED
    BY <1>1, <1>6, <2>1, OrdersStepRight DEF JobsInv
<1>8. IdsOf(j, orders') = OrdersOf(j) \cup new
  <2> HIDE DEF new, out
  <2> QED
    BY <1>4, <1>5 DEF IdsOf, OrdersOf
<1>9. Summarises(lines, j, orders')
  BY <1>8 DEF Summarises
<1>10. /\ Selected(S) \in UNION {[U -> Prices] : U \in (SUBSET Services) \ {{}}}
       /\ DOMAIN Selected(S) = S
  BY <1>3 DEF Selected, JobsInv, Documents
<1>11. /\ d \in JobDoc /\ d.invoice = 0 /\ d.selected = Selected(S)
       /\ Mirrored(d, j, orders')
  <2> DEFINE v == Reselected(job, lines, Selected(S), opening)
  <2>1. v \in JobDoc /\ v.invoice = job.invoice /\ v.selected = Selected(S)
        /\ Mirrored(v, j, orders')
    <3> HIDE DEF lines, job
    <3> QED
      BY <1>1, <1>7, <1>9, <1>10, ServicesMirrored
  <2>2. v = d
    BY DEF Reselected
  <2> QED
    BY <1>1, <2>1, <2>2
<1>12. PricedOnce(d, j, orders')
  <2> DEFINE after == {o \in DOMAIN orders' : o.job = j /\ orders'[o].status # "cancelled"}
  <2>1. \A o \in after : o \in new \/ (o \in live /\ o.service \in S)
    <3>1. \A o \in DOMAIN orders : o \in out => orders'[o].status = "cancelled"
      <4> SUFFICES ASSUME NEW o \in DOMAIN orders, o \in out
                   PROVE  orders'[o].status = "cancelled"
        OBVIOUS
      <4>1. orders[o] \in Order
        BY DEF JobsInv, OrdersRight, OrderRight
      <4> HIDE DEF out
      <4> QED
        BY <1>5, <4>1 DEF CancelledOrder, Order
    <3>2. \A o \in DOMAIN orders : o.job = j /\ o \notin live => orders[o].status = "cancelled"
      BY DEF Live, OrdersOf
    <3>3. \A o \in live : o \notin out => o.service \in S
      OBVIOUS
    <3> HIDE DEF new, out, live
    <3> QED
      BY <1>5, <3>1, <3>2, <3>3
  <2>2. \A o \in new, p \in live : o.service # p.service
    <3>1. \A o \in new : o.service \in T
      BY <1>4
    <3> HIDE DEF new
    <3> QED
      BY <3>1 DEF WithoutOrder
  <2>3. \A o, p \in live : o.service = p.service => o = p
    BY <1>1 DEF PricedOnce, Live, OrdersOf
  <2>4. \A o \in new : o.service \in S
    BY <1>3, <1>4
  <2>5. \A o, p \in after : o.service = p.service => o = p
    <3> HIDE DEF new, live, after
    <3> QED
      BY <1>4, <2>1, <2>2, <2>3
  <2>6. \A o \in after : o.service \in DOMAIN d.selected
    <3> HIDE DEF new, live, after, d
    <3> QED
      BY <1>10, <1>11, <2>1, <2>4
  <2> HIDE DEF d
  <2> QED
    BY <2>5, <2>6 DEF PricedOnce
<1> HIDE DEF d, job, new, T
<1>13. JobAfter(d, j)
  BY <1>11, <1>12 DEF JobAfter
<1>14. T \in SUBSET Services
  BY <1>3
<1> QED
  BY <1>1, <1>2, <1>6, <1>11, <1>13, <1>14 DEF ChangesJob, new, job

\* Opening a draft.
LEMMA OpeningChanges ==
    ASSUME JobsAssumption, JobsInv, NEW j \in DOMAIN intakes, OpenServiceIntake(j)
    PROVE  ChangesJob
<1> DEFINE job == intakes[j]
           lines == [o \in OrdersOf(j) |-> LineOf(orders[o])]
           d == Opened(IntakeUpdate(job, lines), TRUE)
<1>1. /\ j \in Nat \ {0} /\ job \in JobDoc /\ job.status # "cancelled" /\ job.invoice = 0
      /\ Mirrored(job, j, orders) /\ PricedOnce(job, j, orders)
  BY JobIdsKnown DEF JobsInv, JobsRight, Changeable, OpenServiceIntake
<1>2. intakes' = [intakes EXCEPT ![j] = d] /\ UNCHANGED <<orders, invoices, price>>
  BY DEF OpenServiceIntake
<1>3. NewOrders(j, {}) = {}
  BY DEF NewOrders
<1>4. OrdersStep(j, NewOrders(j, {}))
  BY <1>2, <1>3 DEF OrdersStep, OrderStep, JobsInv, Documents
<1>5. OrdersIn(orders)
  BY DEF OrdersIn, JobsInv, OrdersRight, OrderRight, Documents, Numbered
<1>6. Summarises(lines, j, orders)
  BY DEF Summarises, IdsOf, OrdersOf
<1>8. d \in JobDoc /\ d.invoice = job.invoice /\ d.selected = job.selected /\ Mirrored(d, j, orders)
  <2> HIDE DEF lines, job
  <2> QED
    BY <1>1, <1>5, <1>6, JobMirrored
<1> HIDE DEF d, lines, job
<1>9. JobAfter(d, j)
  BY <1>1, <1>2, <1>8 DEF JobAfter, PricedOnce
<1> QED
  BY <1>1, <1>2, <1>4, <1>8, <1>9 DEF ChangesJob, job

\* Cancelling a visit that nobody has started on.
LEMMA CancellingChanges ==
    ASSUME JobsAssumption, JobsInv, NEW j \in DOMAIN intakes, CancelServiceIntake(j)
    PROVE  ChangesJob
<1> DEFINE job == intakes[j]
           live == {o \in OrdersOf(j) : Live(o)}
           lines == [o \in OrdersOf(j) |-> LineOf(orders'[o])]
           d == [job EXCEPT !.status = "cancelled", !.lines = lines]
<1>1. /\ j \in Nat \ {0} /\ job \in JobDoc /\ job.invoice = 0 /\ Mirrored(job, j, orders)
  BY JobIdsKnown DEF JobsInv, JobsRight, Changeable, CancelServiceIntake
<1>2. /\ intakes' = [intakes EXCEPT ![j] = d] /\ UNCHANGED <<invoices, price>>
      /\ orders' = OrdersWith(live, {})
      /\ \A o \in live : orders[o].status \notin {"in_progress", "paused", "completed"}
  BY DEF CancelServiceIntake, Underway
<1>3. NewOrders(j, {}) = {}
  BY DEF NewOrders
<1>4. /\ DOMAIN orders' = DOMAIN orders
      /\ \A o \in DOMAIN orders :
            orders'[o] = IF o \in live THEN CancelledOrder(orders[o]) ELSE orders[o]
  <2> HIDE DEF live
  <2> QED
    BY <1>2 DEF OrdersWith
<1>5. OrdersStep(j, NewOrders(j, {}))
  <2>1. \A o \in live : orders[o].status \notin {"completed", "cancelled"} /\ o.job = j
    BY <1>2 DEF Live, OrdersOf
  <2>2. orders' = [o \in DOMAIN orders \cup {} |-> orders'[o]]
    <3> HIDE DEF live
    <3> QED
      BY <1>2, <1>4 DEF OrdersWith
  <2> HIDE DEF live
  <2> QED
    BY <1>3, <1>4, <2>1, <2>2 DEF OrdersStep, OrderStep
<1>6. OrdersIn(orders')
  <2> HIDE DEF d, lines, live, job
  <2> QED
    BY <1>1, <1>3, <1>5, OrdersStepRight DEF JobsInv
<1>7. Summarises(lines, j, orders')
  BY <1>4 DEF Summarises, IdsOf, OrdersOf
<1>8. lines \in UNION {[L -> Line] : L \in SUBSET OrderIds}
  BY <1>6, <1>7, StatusFollows
<1>9. \A o \in IdsOf(j, orders') : orders'[o].status = "cancelled" /\ orders'[o].worker = orders[o].worker
  <2> SUFFICES ASSUME NEW o \in DOMAIN orders, o.job = j
               PROVE  orders'[o].status = "cancelled" /\ orders'[o].worker = orders[o].worker
    BY <1>4 DEF IdsOf
  <2>1. orders[o] \in Order
    BY DEF JobsInv, OrdersRight, OrderRight
  <2>2. o \notin live => orders[o].status = "cancelled"
    BY DEF Live, OrdersOf
  <2> HIDE DEF live
  <2> QED
    BY <1>4, <2>1, <2>2 DEF CancelledOrder, Order
<1>10. /\ d \in JobDoc /\ d.status = "cancelled" /\ d.lines = lines
       /\ d.workerIds = job.workerIds /\ d.invoice = 0
  <2> HIDE DEF lines, job
  <2> QED
    BY <1>1, <1>8 DEF JobDoc
<1>11. Mirrored(d, j, orders')
  <2>1. DOMAIN lines = IdsOf(j, orders') /\ \A o \in IdsOf(j, orders') : lines[o] = LineOf(orders'[o])
    BY <1>7 DEF Summarises
  <2>2. job.workerIds = {orders[o].worker : o \in IdsOf(j, orders')} \ {None}
    BY <1>1, <1>4 DEF Mirrored, IdsOf
  <2>3. {orders[o].worker : o \in IdsOf(j, orders')} = {orders'[o].worker : o \in IdsOf(j, orders')}
    BY <1>9
  <2> HIDE DEF d, lines, job
  <2> QED
    BY <1>9, <1>10, <2>1, <2>2, <2>3 DEF Mirrored, IdsOf
<1>12. PricedOnce(d, j, orders')
  BY <1>9 DEF PricedOnce, IdsOf
<1> HIDE DEF d, lines, job
<1>13. JobAfter(d, j)
  BY <1>10, <1>11, <1>12 DEF JobAfter
<1> QED
  BY <1>1, <1>2, <1>5, <1>10, <1>13 DEF ChangesJob, job

\* A new visit.
LEMMA CreatingStarts ==
    ASSUME JobsAssumption, JobsInv, NEW v \in Vehicles, NEW S \in (SUBSET Services) \ {{}},
           NEW status \in {"open", "draft"}, CreateServiceIntake(v, S, status)
    PROVE  StartsJob
<1> DEFINE j == Len(intakes) + 1
           new == NewOrders(j, S)
           lines == [o \in new |-> LineOf(NewOrder)]
           d == NewIntake(v, status, Selected(S), lines)
<1>1. /\ orders' = [o \in DOMAIN orders \cup new |-> IF o \in new THEN NewOrder ELSE orders[o]]
      /\ intakes' = Append(intakes, d) /\ UNCHANGED <<invoices, price>>
  BY DEF CreateServiceIntake
<1>2. j \in Nat \ {0} /\ \A o \in DOMAIN orders : o.job # j
  BY JobIdsKnown DEF JobsInv, Documents
<1>3. S \in SUBSET Services
  OBVIOUS
<1>4. /\ new \subseteq OrderIds /\ new \cap DOMAIN orders = {}
      /\ \A o \in new : o.job = j /\ o.service \in S
      /\ \A o, p \in new : o.service = p.service => o = p
  <2>1. Numbered(DOMAIN orders)
    BY DEF JobsInv, Documents
  <2> HIDE DEF j
  <2> QED
    BY <1>2, <1>3, <2>1, NewOrdersFresh
<1> HIDE DEF new, j
<1>5. /\ DOMAIN orders' = DOMAIN orders \cup new
      /\ \A o \in new : orders'[o] = NewOrder
      /\ \A o \in DOMAIN orders : orders'[o] = orders[o]
      /\ orders' = [o \in DOMAIN orders \cup new |-> orders'[o]]
  BY <1>1, <1>4
<1>6. OrdersStep(j, new)
  BY <1>5 DEF OrdersStep, OrderStep
<1>7. IdsOf(j, orders') = new
  BY <1>2, <1>4, <1>5 DEF IdsOf
<1>8. /\ NewOrder.status = "pending" /\ NewOrder.worker = None
      /\ LineOf(NewOrder) \in Line
  BY DEF NewOrder, LineOf, Line, OrderStatuses
<1>9. /\ Selected(S) \in UNION {[U -> Prices] : U \in (SUBSET Services) \ {{}}}
      /\ DOMAIN Selected(S) = S
  BY <1>3 DEF Selected, JobsInv, Documents
<1>10. lines \in UNION {[L -> Line] : L \in SUBSET OrderIds}
  BY <1>4, <1>8
<1>11. /\ d \in JobDoc /\ d.invoice = 0 /\ d.status = status /\ d.lines = lines
       /\ d.workerIds = {} /\ d.selected = Selected(S)
  <2> HIDE DEF lines
  <2> QED
    BY <1>9, <1>10 DEF NewIntake, JobDoc
<1>12. Mirrored(d, j, orders')
  <2>1. DOMAIN lines = new /\ \A o \in new : lines[o] = LineOf(orders'[o])
    BY <1>5
  <2>2. {orders'[o].worker : o \in new} \ {None} = {}
    BY <1>5, <1>8
  <2>3. {o \in new : orders'[o].status = "completed"} = {}
    BY <1>5, <1>8
  <2> HIDE DEF d, lines
  <2> QED
    BY <1>7, <1>11, <2>1, <2>2, <2>3 DEF Mirrored, IdsOf
<1>13. PricedOnce(d, j, orders')
  <2> HIDE DEF d
  <2> QED
    BY <1>4, <1>7, <1>9, <1>11 DEF PricedOnce, IdsOf
<1> HIDE DEF d
<1>14. d \in JobDoc /\ JobAfter(d, j)
  BY <1>11, <1>12, <1>13 DEF JobAfter
<1> QED
  BY <1>1, <1>3, <1>6, <1>14 DEF StartsJob, new, j

\* Every step starts a job, changes one that is not invoiced, invoices one, frees
\* one from its invoice, or sets a price.
LEMMA JobsStep ==
    JobsAssumption /\ JobsInv /\ JobsNext =>
        ChangesJob \/ StartsJob \/ InvoicesJob \/ FreesJob \/ Reprices
<1> SUFFICES ASSUME JobsAssumption, JobsInv, JobsNext
             PROVE  ChangesJob \/ StartsJob \/ InvoicesJob \/ FreesJob \/ Reprices
  OBVIOUS
<1>1. CASE Visits
  BY <1>1, CreatingStarts, ServicesChange, OpeningChanges, CancellingChanges DEF Visits
<1>2. CASE Work
  <2> PICK o \in DOMAIN orders :
         \/ \E w \in Workers : \/ AssignWorkerOrder(o, w)
                               \/ ReassignWorkerOrder(o, w)
                               \/ \E action \in WorkerActions : UpdateWorkerOrderStatus(o, w, action)
         \/ CancelWorkerOrder(o)
    BY <1>2 DEF Work
  <2>1. ASSUME NEW w \in Workers, AssignWorkerOrder(o, w) PROVE ChangesJob
    <3>1. OrderStep(orders[o], Assigned(orders[o], << >>, w))
      BY <2>1 DEF AssignWorkerOrder, OrderStep
    <3> QED
      BY <2>1, <3>1, UpdateChanges DEF AssignWorkerOrder
  <2>2. ASSUME NEW w \in Workers, ReassignWorkerOrder(o, w) PROVE ChangesJob
    <3>1. OrderStep(orders[o], Assigned(orders[o], EarlierAssignments(orders[o]), w))
      BY <2>2 DEF ReassignWorkerOrder, OrderStep, Reassignable
    <3> QED
      BY <2>2, <3>1, UpdateChanges DEF ReassignWorkerOrder
  <2>3. ASSUME NEW w \in Workers, NEW action \in WorkerActions,
               UpdateWorkerOrderStatus(o, w, action)
        PROVE  ChangesJob
    <3> DEFINE b == [orders[o] EXCEPT !.status = action.to]
    <3>1. orders[o].status = action.from
      BY <2>3 DEF UpdateWorkerOrderStatus
    <3>2. /\ action.from \notin {"pending", "completed", "cancelled"}
          /\ action.to \in OrderStatuses \ {"pending", "cancelled"}
      BY DEF WorkerActions, OrderStatuses
    <3>3. OrderStep(orders[o], b)
      BY <3>1, <3>2 DEF OrderStep
    <3>4. Changeable(intakes[o.job]) /\ Update(o, b) /\ UNCHANGED <<invoices, price>>
      BY <2>3 DEF UpdateWorkerOrderStatus
    <3> HIDE DEF b
    <3> QED
      BY <3>3, <3>4, UpdateChanges
  <2>4. ASSUME CancelWorkerOrder(o) PROVE ChangesJob
    <3>1. OrderStep(orders[o], CancelledOrder(orders[o]))
      BY <2>4 DEF CancelWorkerOrder, OrderStep
    <3> QED
      BY <2>4, <3>1, UpdateChanges DEF CancelWorkerOrder
  <2> QED
    BY <2>1, <2>2, <2>3, <2>4
<1>3. CASE Invoicing
  BY <1>3 DEF Invoicing, InvoicesJob, FreesJob
<1>4. CASE Pricing
  BY <1>4 DEF Pricing, Reprices
<1> QED
  BY <1>1, <1>2, <1>3, <1>4 DEF JobsNext

-----------------------------------------------------------------------------
(* The invariant is kept *)

\* Steps on one job leave what is true of the others.
LEMMA OthersUnchanged ==
    ASSUME JobsAssumption, Documents, NEW j \in Nat \ {0}, NEW S \in SUBSET Services,
           OrdersStep(j, NewOrders(j, S)), NEW k, k # j
    PROVE  /\ IdsOf(k, orders') = IdsOf(k, orders)
           /\ \A o \in IdsOf(k, orders) : orders'[o] = orders[o]
<1>1. \A o \in NewOrders(j, S) : o.job = j
  BY NewOrdersFresh DEF Documents
<1> QED
  BY <1>1 DEF OrdersStep, IdsOf

LEMMA OthersRight ==
    ASSUME NEW job, NEW k, NEW ords, NEW later,
           IdsOf(k, later) = IdsOf(k, ords), \A o \in IdsOf(k, ords) : later[o] = ords[o],
           Mirrored(job, k, ords), PricedOnce(job, k, ords)
    PROVE  Mirrored(job, k, later) /\ PricedOnce(job, k, later)
<1>1. {o \in IdsOf(k, later) : later[o].status = "completed"} =
          {o \in IdsOf(k, ords) : ords[o].status = "completed"}
  OBVIOUS
<1>2. {later[o].worker : o \in IdsOf(k, later)} = {ords[o].worker : o \in IdsOf(k, ords)}
  OBVIOUS
<1>3. Mirrored(job, k, later)
  BY <1>1, <1>2 DEF Mirrored, IdsOf
<1>4. PricedOnce(job, k, later)
  BY DEF PricedOnce, IdsOf
<1> QED
  BY <1>3, <1>4

\* An invoice stands for the finished work of its job, as it was.
Stands(i, inv, jobs, ords) ==
    LET j == inv.job
    IN  /\ jobs[j].invoice = i /\ jobs[j].status = "completed"
        /\ DOMAIN inv.items = DoneOf(j, ords)
        /\ \A o \in DOMAIN inv.items : inv.items[o] = jobs[j].selected[o.service]

LEMMA FrozenIsStanding ==
    /\ InvoicedWorkFrozen <=>
          \A i \in DOMAIN invoices : ~invoices[i].cancelled =>
              Stands(i, invoices[i], intakes, orders)
    /\ InvoicedWorkFrozen' <=>
          \A i \in DOMAIN invoices' : ~invoices'[i].cancelled =>
              Stands(i, invoices'[i], intakes', orders')
BY DEF InvoicedWorkFrozen, Stands, OrdersOf, DoneOf, IdsOf

\* An invoice stands as long as its job and the orders of its job do.
LEMMA StandsStill ==
    ASSUME NEW i, NEW inv, NEW jobs, NEW jobs2, NEW ords, NEW ords2,
           Stands(i, inv, jobs, ords), jobs2[inv.job] = jobs[inv.job],
           IdsOf(inv.job, ords2) = IdsOf(inv.job, ords),
           \A o \in IdsOf(inv.job, ords) : ords2[o] = ords[o]
    PROVE  Stands(i, inv, jobs2, ords2)
<1>1. DoneOf(inv.job, ords2) = DoneOf(inv.job, ords)
  BY DEF DoneOf
<1> QED
  BY <1>1 DEF Stands

LEMMA InvoiceIdsKnown ==
    ASSUME Documents
    PROVE  /\ Len(invoices) \in Nat /\ DOMAIN invoices = 1..Len(invoices)
           /\ \A i \in DOMAIN invoices : i # 0 /\ invoices[i] \in InvoiceDoc
BY LenProperties DEF Documents

\* Changing or starting a job.
LEMMA OneJobKeeps ==
    ASSUME JobsAssumption, JobsInv, NEW j \in Nat \ {0}, NEW S \in SUBSET Services,
           NEW d, JobAfter(d, j), OrdersStep(j, NewOrders(j, S)),
           UNCHANGED <<invoices, price>>,
           intakes' \in Seq(JobDoc), j \in DOMAIN intakes', intakes'[j] = d,
           DOMAIN intakes' = DOMAIN intakes \cup {j},
           \A k \in DOMAIN intakes : k # j => intakes'[k] = intakes[k],
           j \in DOMAIN intakes => intakes[j].invoice = 0
    PROVE  JobsInv'
<1>1. Documents /\ OrdersRight /\ JobsRight /\ InvoicedWorkFrozen
  BY DEF JobsInv
<1>2. /\ \A o \in DOMAIN orders' : OrderRight(orders'[o])
      /\ DOMAIN orders' = DOMAIN orders \cup NewOrders(j, S)
  BY <1>1, OrdersStepRight
<1>3. \A o \in NewOrders(j, S) : o.job = j
  BY <1>1, NewOrdersFresh DEF Documents
<1>4. Numbered(DOMAIN orders')
  BY <1>1, <1>2, NumberedKept DEF Documents
<1>5. orders' = [o \in DOMAIN orders' |-> orders'[o]]
  BY <1>2 DEF OrdersStep
<1>6. Documents'
  BY <1>1, <1>2, <1>3, <1>4, <1>5 DEF Documents
<1>7. OrdersRight'
  BY <1>2 DEF OrdersRight
<1>8. JobsRight'
  <2> SUFFICES ASSUME NEW k \in DOMAIN intakes'
               PROVE  Mirrored(intakes'[k], k, orders') /\ PricedOnce(intakes'[k], k, orders')
    BY DEF JobsRight
  <2>1. CASE k = j
    BY <2>1 DEF JobAfter
  <2>2. CASE k # j
    <3>1. k \in DOMAIN intakes /\ intakes'[k] = intakes[k]
      BY <2>2
    <3>2. Mirrored(intakes[k], k, orders) /\ PricedOnce(intakes[k], k, orders)
      BY <1>1, <3>1 DEF JobsRight
    <3>3. /\ IdsOf(k, orders') = IdsOf(k, orders)
          /\ \A o \in IdsOf(k, orders) : orders'[o] = orders[o]
      BY <1>1, <2>2, OthersUnchanged
    <3> QED
      BY <3>1, <3>2, <3>3, OthersRight
  <2> QED
    BY <2>1, <2>2
<1>9. InvoicedWorkFrozen'
  <2> SUFFICES ASSUME NEW i \in DOMAIN invoices, ~invoices[i].cancelled
               PROVE  Stands(i, invoices[i], intakes', orders')
    BY FrozenIsStanding
  <2> DEFINE k == invoices[i].job
  <2>1. k \in DOMAIN intakes /\ i # 0
    BY <1>1, InvoiceIdsKnown DEF Documents
  <2>2. Stands(i, invoices[i], intakes, orders)
    BY <1>1, FrozenIsStanding
  <2>3. k # j
    BY <2>1, <2>2 DEF Stands
  <2>4. /\ IdsOf(k, orders') = IdsOf(k, orders)
        /\ \A o \in IdsOf(k, orders) : orders'[o] = orders[o]
    BY <1>1, <2>3, OthersUnchanged
  <2>5. intakes'[k] = intakes[k]
    BY <2>1, <2>3
  <2> QED
    BY <2>2, <2>4, <2>5, StandsStill
<1> QED
  BY <1>6, <1>7, <1>8, <1>9 DEF JobsInv

LEMMA ChangingKeeps ==
    ASSUME JobsAssumption, JobsInv, ChangesJob
    PROVE  JobsInv'
<1> PICK j \in DOMAIN intakes, S \in SUBSET Services, d \in JobDoc :
         /\ intakes[j].invoice = 0
         /\ intakes' = [intakes EXCEPT ![j] = d]
         /\ JobAfter(d, j) /\ OrdersStep(j, NewOrders(j, S))
         /\ UNCHANGED <<invoices, price>>
  BY DEF ChangesJob
<1>1. Documents /\ j \in Nat \ {0} /\ intakes \in Seq(JobDoc) /\ j \in 1..Len(intakes)
  BY JobIdsKnown DEF JobsInv, Documents
<1>2. intakes' \in Seq(JobDoc)
  BY <1>1, ExceptSeq
<1>3. /\ DOMAIN intakes' = DOMAIN intakes /\ intakes'[j] = d
      /\ \A k \in DOMAIN intakes : k # j => intakes'[k] = intakes[k]
  OBVIOUS
<1>4. j \in DOMAIN intakes' /\ DOMAIN intakes' = DOMAIN intakes \cup {j}
  BY <1>3
<1> QED
  BY <1>1, <1>2, <1>3, <1>4, OneJobKeeps

LEMMA StartingKeeps ==
    ASSUME JobsAssumption, JobsInv, StartsJob
    PROVE  JobsInv'
<1> DEFINE j == Len(intakes) + 1
<1> PICK S \in SUBSET Services, d \in JobDoc :
         /\ intakes' = Append(intakes, d)
         /\ JobAfter(d, j) /\ OrdersStep(j, NewOrders(j, S))
         /\ UNCHANGED <<invoices, price>>
  BY DEF StartsJob
<1>1. Documents /\ intakes \in Seq(JobDoc) /\ Len(intakes) \in Nat /\ DOMAIN intakes = 1..Len(intakes)
  BY JobIdsKnown DEF JobsInv, Documents
<1>2. /\ intakes' \in Seq(JobDoc) /\ Len(intakes') = Len(intakes) + 1
      /\ \A i \in 1..Len(intakes) : intakes'[i] = intakes[i]
      /\ intakes'[j] = d
  BY <1>1, AppendProperties
<1>3. DOMAIN intakes' = 1..(Len(intakes) + 1)
  BY <1>2, LenProperties
<1>4. /\ j \in Nat \ {0} /\ j \notin DOMAIN intakes /\ j \in DOMAIN intakes'
      /\ DOMAIN intakes' = DOMAIN intakes \cup {j}
      /\ \A k \in DOMAIN intakes : k # j => intakes'[k] = intakes[k]
  BY <1>1, <1>2, <1>3
<1> HIDE DEF j
<1> QED
  BY <1>2, <1>4, OneJobKeeps

\* Setting the invoice of a job changes nothing its orders say of it.
LEMMA NamingKeeps ==
    ASSUME Documents, JobsRight, NEW j \in DOMAIN intakes, NEW n \in Nat,
           intakes' = [intakes EXCEPT ![j].invoice = n], UNCHANGED orders
    PROVE  /\ intakes' \in Seq(JobDoc) /\ DOMAIN intakes' = DOMAIN intakes
           /\ \A k \in DOMAIN intakes : k # j => intakes'[k] = intakes[k]
           /\ intakes'[j].invoice = n /\ intakes'[j].status = intakes[j].status
           /\ intakes'[j].selected = intakes[j].selected
           /\ JobsRight'
<1> DEFINE d == [intakes[j] EXCEPT !.invoice = n]
<1>1. /\ intakes[j] \in JobDoc /\ intakes \in Seq(JobDoc) /\ j \in 1..Len(intakes)
      /\ Mirrored(intakes[j], j, orders) /\ PricedOnce(intakes[j], j, orders)
  BY JobIdsKnown DEF Documents, JobsRight
<1>2. /\ d \in JobDoc /\ d.invoice = n /\ d.status = intakes[j].status
      /\ d.selected = intakes[j].selected /\ d.lines = intakes[j].lines
      /\ d.workerIds = intakes[j].workerIds
  BY <1>1 DEF JobDoc
<1>3. intakes' = [intakes EXCEPT ![j] = d]
  OBVIOUS
<1> HIDE DEF d
<1>4. intakes' \in Seq(JobDoc)
  BY <1>1, <1>2, <1>3, ExceptSeq
<1>5. /\ DOMAIN intakes' = DOMAIN intakes /\ intakes'[j] = d
      /\ \A k \in DOMAIN intakes : k # j => intakes'[k] = intakes[k]
  BY <1>3
<1>6. Mirrored(d, j, orders) /\ PricedOnce(d, j, orders)
  BY <1>1, <1>2 DEF Mirrored, PricedOnce
<1>7. JobsRight'
  <2> SUFFICES ASSUME NEW k \in DOMAIN intakes
               PROVE  Mirrored(intakes'[k], k, orders) /\ PricedOnce(intakes'[k], k, orders)
    BY <1>5 DEF JobsRight
  <2> QED
    BY <1>5, <1>6 DEF JobsRight
<1> QED
  BY <1>2, <1>4, <1>5, <1>7

LEMMA InvoicingKeeps ==
    ASSUME JobsAssumption, JobsInv, InvoicesJob
    PROVE  JobsInv'
<1> PICK j \in DOMAIN intakes : CreateInvoice(j)
  BY DEF InvoicesJob
<1> DEFINE n == Len(invoices) + 1
           done == {o \in OrdersOf(j) : orders[o].status = "completed"}
           items == [o \in done |-> intakes[j].selected[o.service]]
           inv == [job |-> j, cancelled |-> FALSE, items |-> items]
<1>1. /\ intakes[j].invoice = 0 /\ intakes[j].status = "completed"
      /\ \A o \in done : o.service \in DOMAIN intakes[j].selected
      /\ invoices' = Append(invoices, inv)
      /\ intakes' = [intakes EXCEPT ![j].invoice = n]
      /\ UNCHANGED <<orders, price>>
  BY DEF CreateInvoice
<1>2. /\ Documents /\ OrdersRight /\ JobsRight /\ InvoicedWorkFrozen
      /\ j \in Nat /\ intakes[j] \in JobDoc
      /\ Len(invoices) \in Nat /\ DOMAIN invoices = 1..Len(invoices)
      /\ invoices \in Seq(InvoiceDoc)
  BY JobIdsKnown, InvoiceIdsKnown DEF JobsInv, Documents
<1>3. items \in UNION {[D -> Prices] : D \in SUBSET OrderIds}
  <2>1. done \in SUBSET OrderIds
    BY <1>2 DEF OrdersOf, Documents, Numbered
  <2>2. PICK U : intakes[j].selected \in [U -> Prices]
    BY <1>2 DEF JobDoc
  <2>3. items \in [done -> Prices]
    BY <1>1, <2>2
  <2> QED
    BY <2>1, <2>3
<1>4. done = DoneOf(j, orders) /\ DOMAIN items = done
      /\ \A o \in done : items[o] = intakes[j].selected[o.service]
  BY DEF DoneOf, IdsOf, OrdersOf
<1> HIDE DEF done, items
<1>5. inv \in InvoiceDoc /\ inv.job = j /\ inv.items = items /\ ~inv.cancelled
  BY <1>2, <1>3 DEF InvoiceDoc
<1> HIDE DEF inv
<1>6. /\ invoices' \in Seq(InvoiceDoc) /\ Len(invoices') = n
      /\ \A i \in DOMAIN invoices : invoices'[i] = invoices[i]
      /\ invoices'[n] = inv
  BY <1>1, <1>2, <1>5, AppendProperties
<1>7. DOMAIN invoices' = DOMAIN invoices \cup {n}
  BY <1>2, <1>6, LenProperties
<1>8. /\ intakes' \in Seq(JobDoc) /\ DOMAIN intakes' = DOMAIN intakes
      /\ \A k \in DOMAIN intakes : k # j => intakes'[k] = intakes[k]
      /\ intakes'[j].invoice = n /\ intakes'[j].status = intakes[j].status
      /\ intakes'[j].selected = intakes[j].selected
      /\ JobsRight'
  <2>1. n \in Nat
    BY <1>2
  <2> HIDE DEF n
  <2> QED
    BY <1>1, <1>2, <2>1, NamingKeeps
<1> HIDE DEF n
<1>9. Documents'
  BY <1>1, <1>2, <1>5, <1>6, <1>7, <1>8 DEF Documents
<1>10. InvoicedWorkFrozen'
  <2> SUFFICES ASSUME NEW i \in DOMAIN invoices', ~invoices'[i].cancelled
               PROVE  Stands(i, invoices'[i], intakes', orders)
    BY <1>1, FrozenIsStanding
  <2>1. CASE i = n
    BY <1>1, <1>4, <1>5, <1>6, <1>8, <2>1 DEF Stands
  <2>2. CASE i \in DOMAIN invoices
    <3>1. Stands(i, invoices[i], intakes, orders) /\ invoices'[i] = invoices[i]
      BY <1>2, <1>6, <2>2, FrozenIsStanding
    <3>2. invoices[i].job # j
      BY <1>1, <1>2, <2>2, <3>1, InvoiceIdsKnown DEF Stands
    <3>3. intakes'[invoices[i].job] = intakes[invoices[i].job]
      BY <1>2, <1>8, <2>2, <3>2 DEF Documents
    <3> QED
      BY <3>1, <3>3, StandsStill
  <2> QED
    BY <1>7, <2>1, <2>2
<1> QED
  BY <1>1, <1>2, <1>8, <1>9, <1>10 DEF JobsInv, OrdersRight

LEMMA FreeingKeeps ==
    ASSUME JobsAssumption, JobsInv, FreesJob
    PROVE  JobsInv'
<1> PICK i \in DOMAIN invoices : CancelInvoice(i)
  BY DEF FreesJob
<1> DEFINE j == invoices[i].job
           n == IF intakes[j].invoice = i THEN 0 ELSE intakes[j].invoice
           inv == [invoices[i] EXCEPT !.cancelled = TRUE]
<1>1. /\ Documents /\ OrdersRight /\ JobsRight /\ InvoicedWorkFrozen
      /\ invoices \in Seq(InvoiceDoc) /\ i \in 1..Len(invoices) /\ invoices[i] \in InvoiceDoc
      /\ j \in DOMAIN intakes /\ intakes[j] \in JobDoc
  BY JobIdsKnown, InvoiceIdsKnown DEF JobsInv, Documents
<1>2. inv \in InvoiceDoc /\ inv.job = j /\ inv.cancelled
  BY <1>1 DEF InvoiceDoc
<1>3. /\ invoices' = [invoices EXCEPT ![i] = inv]
      /\ intakes' = [intakes EXCEPT ![j].invoice = n]
      /\ UNCHANGED <<orders, price>> /\ ~invoices[i].cancelled
  BY DEF CancelInvoice
<1>4. n \in Nat
  BY <1>1 DEF JobDoc
<1>5. intakes[j].invoice = i
  BY <1>1, <1>3, FrozenIsStanding DEF Stands
<1> HIDE DEF inv
<1>6. /\ invoices' \in Seq(InvoiceDoc) /\ DOMAIN invoices' = DOMAIN invoices
      /\ \A l \in DOMAIN invoices : invoices'[l] = IF l = i THEN inv ELSE invoices[l]
  BY <1>1, <1>2, <1>3, ExceptSeq
<1>7. /\ intakes' \in Seq(JobDoc) /\ DOMAIN intakes' = DOMAIN intakes
      /\ \A k \in DOMAIN intakes : k # j => intakes'[k] = intakes[k]
      /\ JobsRight'
  <2> HIDE DEF n, j
  <2> QED
    BY <1>1, <1>3, <1>4, NamingKeeps
<1>8. Documents'
  BY <1>1, <1>2, <1>3, <1>6, <1>7 DEF Documents
<1>9. InvoicedWorkFrozen'
  <2> SUFFICES ASSUME NEW l \in DOMAIN invoices, ~invoices'[l].cancelled
               PROVE  Stands(l, invoices'[l], intakes', orders)
    BY <1>3, <1>6, FrozenIsStanding
  <2>1. l # i /\ invoices'[l] = invoices[l]
    BY <1>2, <1>6
  <2>2. Stands(l, invoices[l], intakes, orders)
    BY <1>1, <2>1, FrozenIsStanding
  <2>3. invoices[l].job # j /\ invoices[l].job \in DOMAIN intakes
    BY <1>1, <1>5, <2>1, <2>2 DEF Stands, Documents
  <2> QED
    BY <1>7, <2>1, <2>2, <2>3, StandsStill
<1> QED
  BY <1>1, <1>3, <1>7, <1>8, <1>9 DEF JobsInv, OrdersRight

LEMMA RepricingKeeps ==
    ASSUME JobsAssumption, JobsInv, Reprices
    PROVE  JobsInv'
<1> PICK s \in Services, p \in Prices : UpdateService(s, p)
  BY DEF Reprices
<1>1. price' = [price EXCEPT ![s] = p] /\ UNCHANGED <<intakes, orders, invoices>>
  BY DEF UpdateService
<1>2. Documents'
  BY <1>1 DEF JobsInv, Documents
<1>3. OrdersRight' /\ JobsRight'
  BY <1>1 DEF JobsInv, OrdersRight, JobsRight
<1>4. InvoicedWorkFrozen'
  BY <1>1, FrozenIsStanding DEF JobsInv
<1> QED
  BY <1>2, <1>3, <1>4 DEF JobsInv

LEMMA StuttersKeep ==
    ASSUME JobsInv, UNCHANGED jobsVars
    PROVE  JobsInv'
<1>1. UNCHANGED <<intakes, orders, invoices, price>>
  BY DEF jobsVars
<1>2. Documents'
  BY <1>1 DEF JobsInv, Documents
<1>3. OrdersRight' /\ JobsRight'
  BY <1>1 DEF JobsInv, OrdersRight, JobsRight
<1>4. InvoicedWorkFrozen'
  BY <1>1, FrozenIsStanding DEF JobsInv
<1> QED
  BY <1>2, <1>3, <1>4 DEF JobsInv

LEMMA JobsInitInv == JobsAssumption /\ JobsInit => JobsInv
<1> SUFFICES ASSUME JobsInit PROVE JobsInv
  OBVIOUS
<1>1. /\ intakes = << >> /\ orders = << >> /\ invoices = << >>
      /\ price \in [Services -> Prices]
  BY DEF JobsInit
<1>2. DOMAIN << >> = {} /\ << >> \in Seq(JobDoc) /\ << >> \in Seq(InvoiceDoc)
      /\ << >> = [o \in {} |-> << >>[o]]
  OBVIOUS
<1>3. Numbered({})
  BY FS_EmptySet DEF Numbered
<1>4. Documents
  BY <1>1, <1>2, <1>3 DEF Documents
<1>5. OrdersRight /\ JobsRight /\ InvoicedWorkFrozen
  BY <1>1, <1>2 DEF OrdersRight, JobsRight, InvoicedWorkFrozen
<1> QED
  BY <1>4, <1>5 DEF JobsInv

LEMMA JobsInvKept == JobsAssumption /\ JobsInv /\ [JobsNext]_jobsVars => JobsInv'
BY JobsStep, ChangingKeeps, StartingKeeps, InvoicingKeeps, FreeingKeeps, RepricingKeeps,
   StuttersKeep

LEMMA JobsInvAlways == JobsSpec => []JobsInv
<1>1. JobsInit => JobsInv
  BY JobsAssumption, JobsInitInv
<1>2. JobsInv /\ [JobsNext]_jobsVars => JobsInv'
  BY JobsAssumption, JobsInvKept
<1> QED
  BY <1>1, <1>2, PTL DEF JobsSpec

-----------------------------------------------------------------------------
(* The theorems *)

\* Every document keeps its shape, and who works on an order was assigned to it.
LEMMA JobsInvTyped == JobsInv => JobsTypeOK
<1> SUFFICES ASSUME JobsInv PROVE JobsTypeOK
  OBVIOUS
<1>1. Documents /\ OrdersRight /\ JobsRight
  BY DEF JobsInv
<1>2. \A j \in DOMAIN intakes : intakes[j] \in Intake(j)
  <2> SUFFICES ASSUME NEW j \in DOMAIN intakes PROVE intakes[j] \in Intake(j)
    OBVIOUS
  <2> DEFINE job == intakes[j]
  <2>1. job \in JobDoc /\ DOMAIN job.lines = OrdersOf(j)
    BY <1>1, JobIdsKnown DEF JobsRight, Mirrored, OrdersOf
  <2>2. PICK L \in SUBSET OrderIds : job.lines \in [L -> Line]
    BY <2>1 DEF JobDoc
  <2>3. job.lines \in [OrdersOf(j) -> Line]
    BY <2>1, <2>2
  <2> HIDE DEF job
  <2>4. job \in Intake(j)
    BY <2>1, <2>3 DEF JobDoc, Intake, Line
  <2> QED
    BY <2>4 DEF job
<1>3. DOMAIN orders \subseteq OrderIds /\ price \in [Services -> Prices]
      /\ \A i \in DOMAIN invoices : invoices[i].job \in DOMAIN intakes
  BY <1>1 DEF Documents, Numbered
<1>4. \A o \in DOMAIN orders :
         /\ orders[o] \in Order
         /\ orders[o].status \notin {"pending", "cancelled"} => orders[o].worker # None
  BY <1>1 DEF OrdersRight, OrderRight
<1> QED
  BY <1>2, <1>3, <1>4 DEF JobsTypeOK

\* Every document keeps its shape, and a job's summary and status agree with its
\* orders, whoever changed what.
THEOREM MirrorsCorrect == JobsSpec => []JobMirrorsOrders
<1>1. JobsInv => MirrorsOrders
  BY DEF JobsInv, JobsRight, Mirrored, MirrorsOrders, OrdersOf, Live
<1>2. JobsInv => JobMirrorsOrders
  BY <1>1, JobsInvTyped DEF JobMirrorsOrders
<1> QED
  BY <1>2, JobsInvAlways, PTL

\* A job has one live order and one price for a service, so that work is billed,
\* and billed once.
THEOREM PricedOnceCorrect == JobsSpec => []WorkIsPricedOnce
<1>1. JobsInv => WorkIsPricedOnce
  BY DEF JobsInv, JobsRight, PricedOnce, WorkIsPricedOnce, OrdersOf, Live
<1> QED
  BY <1>1, JobsInvAlways, PTL

\* Nothing changes the work and the prices a standing invoice was made from.
THEOREM InvoicedWorkCorrect == JobsSpec => []InvoicedWorkFrozen
<1>1. JobsInv => InvoicedWorkFrozen
  BY DEF JobsInv
<1> QED
  BY <1>1, JobsInvAlways, PTL

\* An order has one open assignment, that of its worker.
THEOREM OneAssigneeCorrect == JobsSpec => []OneAssignee
<1>1. JobsInv => OneAssignee
  BY DEF JobsInv, OrdersRight, OrderRight, OneAssignee
<1> QED
  BY <1>1, JobsInvAlways, PTL

\* No step deletes an order or an assignment, or changes finished work.
THEOREM WorkIsKeptCorrect == JobsSpec => WorkIsKept
<1> DEFINE Kept == \A o \in DOMAIN orders : o \in DOMAIN orders' /\ OrderKept(orders[o], orders'[o])
<1>1. JobsInv /\ [JobsNext]_jobsVars => Kept
  <2> SUFFICES ASSUME JobsInv, [JobsNext]_jobsVars PROVE Kept
    OBVIOUS
  <2>1. JobsAssumption /\ Documents /\ OrdersRight
    BY JobsAssumption DEF JobsInv
  <2>2. ASSUME UNCHANGED orders PROVE Kept
    <3>1. \A o \in DOMAIN orders : OrderStep(orders[o], orders[o])
      BY DEF OrderStep
    <3> QED
      BY <2>1, <2>2, <3>1, OrderStepRight DEF OrdersRight
  <2>3. ASSUME NEW j \in Nat \ {0}, NEW S \in SUBSET Services, OrdersStep(j, NewOrders(j, S))
        PROVE  Kept
    BY <2>1, <2>3, OrdersStepRight
  <2>4. ASSUME ChangesJob PROVE Kept
    BY <2>1, <2>3, <2>4, JobIdsKnown DEF ChangesJob
  <2>5. ASSUME StartsJob PROVE Kept
    <3>1. Len(intakes) + 1 \in Nat \ {0}
      BY <2>1, JobIdsKnown
    <3> QED
      BY <2>3, <2>5, <3>1 DEF StartsJob
  <2>6. ASSUME InvoicesJob \/ FreesJob \/ Reprices \/ UNCHANGED jobsVars PROVE UNCHANGED orders
    BY <2>6 DEF InvoicesJob, FreesJob, Reprices, CreateInvoice, CancelInvoice, UpdateService, jobsVars
  <2> QED
    BY <2>1, <2>2, <2>4, <2>5, <2>6, JobsStep
<1>2. Kept =>
        [\A o \in DOMAIN orders :
          /\ o \in DOMAIN orders'
          /\ Len(orders[o].history) <= Len(orders'[o].history)
          /\ \A k \in DOMAIN orders[o].history :
                /\ orders'[o].history[k].worker = orders[o].history[k].worker
                /\ orders[o].history[k].ended => orders'[o].history[k].ended
          /\ orders[o].status \in {"completed", "cancelled"} => orders'[o] = orders[o]]_jobsVars
  BY DEF OrderKept
<1> HIDE DEF Kept
<1> QED
  BY <1>1, <1>2, JobsInvAlways, PTL DEF JobsSpec, WorkIsKept
=============================================================================
