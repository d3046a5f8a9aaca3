-------------------------------- MODULE Jobs --------------------------------
(***************************************************************************)
(* functions/src/jobs.js: a vehicle's visit is a job (service intake); each *)
(* of its services is a worker order, which a manager assigns and a worker  *)
(* carries out.  The job keeps a summary of its orders, from which its      *)
(* status follows.  Of billing.js, what touches jobs: a completed job is    *)
(* invoiced, and is free again once the invoice is cancelled.  Of           *)
(* operations.js, the price of a service, which a job copies.               *)
(*                                                                          *)
(* A callable is one serializable transaction, so one step.  A vehicle that *)
(* is inactive, a service no longer offered or a worker who left only makes *)
(* the code refuse more calls; none of them is part of the state here.      *)
(***************************************************************************)
EXTENDS Integers, Sequences, FiniteSets

CONSTANTS
    Vehicles, Services, Workers,
    None,          \* null
    Prices,        \* the prices a service may have
    MaxIntakes,    \* bound: jobs
    MaxOrders,     \* bound: worker orders
    MaxInvoices,   \* bound: invoices
    MaxHistory     \* bound: assignments of one order

ASSUME JobsAssumption ==
    /\ None \notin Workers /\ IsFiniteSet(Services)
    /\ Prices \subseteq Nat
    /\ {MaxIntakes, MaxOrders, MaxInvoices, MaxHistory} \subseteq Nat

VARIABLES
    intakes,   \* service_intakes, in the order they were numbered
    orders,    \* worker_orders: [OrderIds -> Order], partial
    invoices,  \* what an invoice keeps of its job
    price      \* services[].priceUgx

jobsVars == <<intakes, orders, invoices, price>>

-----------------------------------------------------------------------------
(* Documents *)

\* An order is known by its job, its service and how many orders that job had
\* for the service before.
OrderIds == [job: Nat \ {0}, service: Services, nth: Nat \ {0}]

OrderStatuses ==
    {"pending", "assigned", "accepted", "in_progress", "paused", "completed", "cancelled"}
Reassignable == {"assigned", "accepted", "in_progress", "paused"}
Removable == {"pending", "assigned", "accepted"}
Underway == {"in_progress", "paused"}   \* ACTIVE_WORK

\* history is assignmentHistory, the last assignment last.
Order == [status: OrderStatuses, worker: Workers \cup {None},
          history: Seq([worker: Workers, ended: BOOLEAN])]
NewOrder == [status |-> "pending", worker |-> None, history |-> << >>]

\* summary() of an order: the line of the intake that repeats it.
LineOf(order) == [worker |-> order.worker, status |-> order.status]

\* selected is selectedServices: the services of the job and the price of each
\* when it was chosen.  lines is orders: the summaries, by order.
NewIntake(v, status, selected, lines) ==
    [vehicle |-> v, status |-> status, selected |-> selected, lines |-> lines,
     workerIds |-> {}, invoice |-> 0]

OrdersOf(j) == {o \in DOMAIN orders : o.job = j}
Live(o) == orders[o].status # "cancelled"

\* selectedServices as readSelectedServices captures it.
Selected(S) == [s \in S |-> price[s]]

\* One new order for each of services S of job j.
NewOrders(j, S) ==
    {[job |-> j, service |-> s, nth |-> Cardinality({o \in OrdersOf(j) : o.service = s}) + 1] :
        s \in S}

-----------------------------------------------------------------------------
(* The status of a job *)

\* Mutant: a job whose services are all cancelled counts as completed.
JobStatusForAny(lines) ==
    IF \A o \in DOMAIN lines : lines[o].status \in {"completed", "cancelled"}
    THEN "completed" ELSE "open"

\* Completed once nothing is left to do and something was done.
JobStatusFor(lines) ==
    LET live == {o \in DOMAIN lines : lines[o].status # "cancelled"}
    IN  IF live # {} /\ \A o \in live : lines[o].status = "completed"
        THEN "completed" ELSE "open"

\* The intake after its orders became lines; a draft stays one.
IntakeUpdate(intake, lines) ==
    [intake EXCEPT
        !.lines = lines,
        !.workerIds = {lines[o].worker : o \in DOMAIN lines} \ {None},
        !.status = IF @ \in {"cancelled", "draft"} THEN @ ELSE JobStatusFor(lines)]

\* Order o becomes order, and its job's summary with it.
Update(o, order) ==
    LET lines == intakes[o.job].lines
    IN  /\ orders' = [orders EXCEPT ![o] = order]
        /\ intakes' = [intakes EXCEPT ![o.job] =
               IntakeUpdate(@, [l \in DOMAIN lines \cup {o} |->
                                   IF l = o THEN LineOf(order) ELSE lines[l]])]

-----------------------------------------------------------------------------
(* Jobs *)

CreateServiceIntake(v, S, status) ==
    LET j == Len(intakes) + 1
        new == NewOrders(j, S)
    IN  /\ \A i \in DOMAIN intakes :
              intakes[i].vehicle = v => intakes[i].status \notin {"open", "draft"}
        /\ Len(intakes) < MaxIntakes
        /\ Cardinality(DOMAIN orders \cup new) <= MaxOrders
        /\ orders' = [o \in DOMAIN orders \cup new |-> IF o \in new THEN NewOrder ELSE orders[o]]
        /\ intakes' = Append(intakes,
               NewIntake(v, status, Selected(S), [o \in new |-> LineOf(NewOrder)]))
        /\ UNCHANGED <<invoices, price>>

\* Mutant: whether the job was invoiced is not looked at.
ChangeableAlways(intake) == intake.status # "cancelled"

\* A cancelled job is final, an invoiced one frozen.
Changeable(intake) == intake.status # "cancelled" /\ intake.invoice = 0

CancelledOrder(order) == [order EXCEPT !.status = "cancelled"]

\* orders after those in out are cancelled and new ones added.
OrdersWith(out, new) ==
    [o \in DOMAIN orders \cup new |->
        IF o \in new THEN NewOrder
        ELSE IF o \in out THEN CancelledOrder(orders[o])
        ELSE orders[o]]

\* Nobody has started, so everybody's order is cancelled.
CancelServiceIntake(j) ==
    LET live == {o \in OrdersOf(j) : Live(o)}
    IN  /\ Changeable(intakes[j])
        /\ \A o \in live : orders[o].status \notin Underway \cup {"completed"}
        /\ orders' = OrdersWith(live, {})
        /\ intakes' = [intakes EXCEPT
               ![j].status = "cancelled",
               ![j].lines = [o \in OrdersOf(j) |-> LineOf(orders'[o])]]
        /\ UNCHANGED <<invoices, price>>

\* Mutant: services that have an order get another.
WithoutOrderAny(j, S) == S

\* The services among S that the job has no live order for.
WithoutOrder(j, S) == S \ {o.service : o \in {p \in OrdersOf(j) : Live(p)}}

\* The status a draft takes when it is opened: intakeUpdate has left it alone.
Opened(intake, opening) ==
    IF opening /\ intake.status = "draft" THEN [intake EXCEPT !.status = JobStatusFor(intake.lines)]
    ELSE intake

\* The services of the job become S, at today's prices; opening a draft may come
\* with it.
ChangeServices(j, S, opening) ==
    LET live == {o \in OrdersOf(j) : Live(o)}
        out == {o \in live : o.service \notin S}
        new == NewOrders(j, WithoutOrder(j, S))
    IN  /\ Changeable(intakes[j])
        /\ \A o \in out : orders[o].status \in Removable
        /\ Cardinality(DOMAIN orders \cup new) <= MaxOrders
        /\ orders' = OrdersWith(out, new)
        /\ intakes' = [intakes EXCEPT ![j] =
               Opened([IntakeUpdate(@, [o \in OrdersOf(j) \cup new |-> LineOf(orders'[o])])
                          EXCEPT !.selected = Selected(S)], opening)]
        /\ UNCHANGED <<invoices, price>>

OpenServiceIntake(j) ==
    /\ Changeable(intakes[j])
    /\ intakes' = [intakes EXCEPT ![j] =
           Opened(IntakeUpdate(@, [o \in OrdersOf(j) |-> LineOf(orders[o])]), TRUE)]
    /\ UNCHANGED <<orders, invoices, price>>

-----------------------------------------------------------------------------
(* Worker orders *)

Assigned(order, history, w) ==
    [order EXCEPT !.status = "assigned", !.worker = w,
                  !.history = Append(history, [worker |-> w, ended |-> FALSE])]

AssignWorkerOrder(o, w) ==
    /\ Changeable(intakes[o.job])
    /\ orders[o].status = "pending"
    /\ Update(o, Assigned(orders[o], << >>, w))
    /\ UNCHANGED <<invoices, price>>

\* Mutant: the earlier assignments are dropped.
EarlierDropped(order) == << >>

\* Mutant: the latest assignment is left open.
EarlierOpen(order) == order.history

\* The latest assignment is closed, none is removed.
EarlierAssignments(order) ==
    [k \in DOMAIN order.history |->
        IF k = Len(order.history) THEN [order.history[k] EXCEPT !.ended = TRUE]
        ELSE order.history[k]]

ReassignWorkerOrder(o, w) ==
    /\ Changeable(intakes[o.job])
    /\ orders[o].status \in Reassignable
    /\ w # orders[o].worker
    /\ Len(orders[o].history) < MaxHistory
    /\ Update(o, Assigned(orders[o], EarlierAssignments(orders[o]), w))
    /\ UNCHANGED <<invoices, price>>

CancelWorkerOrder(o) ==
    /\ Changeable(intakes[o.job])
    /\ orders[o].status \notin {"completed", "cancelled"}
    /\ Update(o, CancelledOrder(orders[o]))
    /\ UNCHANGED <<invoices, price>>

\* WORKER_ACTIONS: from which status each action leads to which.
WorkerActions ==
    {[name |-> "accept",   from |-> "assigned",    to |-> "accepted"],
     [name |-> "start",    from |-> "accepted",    to |-> "in_progress"],
     [name |-> "pause",    from |-> "in_progress", to |-> "paused"],
     [name |-> "resume",   from |-> "paused",      to |-> "in_progress"],
     [name |-> "complete", from |-> "in_progress", to |-> "completed"]}

\* Worker w acts on an order; it must be assigned to them.
UpdateWorkerOrderStatus(o, w, action) ==
    /\ Changeable(intakes[o.job])
    /\ orders[o].worker = w
    /\ orders[o].status = action.from
    /\ Update(o, [orders[o] EXCEPT !.status = action.to])
    /\ UNCHANGED <<invoices, price>>

-----------------------------------------------------------------------------
(* Invoices and prices, as far as they meet jobs *)

\* One line per completed order, at the price the job has for its service.
CreateInvoice(j) ==
    LET done == {o \in OrdersOf(j) : orders[o].status = "completed"}
    IN  /\ intakes[j].invoice = 0
        /\ intakes[j].status = "completed"
        /\ done # {}
        /\ \A o \in done : o.service \in DOMAIN intakes[j].selected
        /\ Len(invoices) < MaxInvoices
        /\ invoices' = Append(invoices,
               [job |-> j, cancelled |-> FALSE,
                items |-> [o \in done |-> intakes[j].selected[o.service]]])
        /\ intakes' = [intakes EXCEPT ![j].invoice = Len(invoices) + 1]
        /\ UNCHANGED <<orders, price>>

\* An unpaid invoice is cancelled and its job can be changed and invoiced again.
CancelInvoice(i) ==
    LET j == invoices[i].job
    IN  /\ ~invoices[i].cancelled
        /\ invoices' = [invoices EXCEPT ![i].cancelled = TRUE]
        /\ intakes' = [intakes EXCEPT ![j].invoice = IF @ = i THEN 0 ELSE @]
        /\ UNCHANGED <<orders, price>>

UpdateService(s, p) ==
    /\ price' = [price EXCEPT ![s] = p]
    /\ UNCHANGED <<intakes, orders, invoices>>

-----------------------------------------------------------------------------
JobsInit ==
    /\ intakes = << >>
    /\ orders = << >>
    /\ invoices = << >>
    /\ price \in [Services -> Prices]

Visits ==
    \/ \E v \in Vehicles, S \in (SUBSET Services) \ {{}}, status \in {"open", "draft"} :
          CreateServiceIntake(v, S, status)
    \/ \E j \in DOMAIN intakes :
          \/ CancelServiceIntake(j)
          \/ \E S \in (SUBSET Services) \ {{}}, opening \in BOOLEAN : ChangeServices(j, S, opening)
          \/ OpenServiceIntake(j)

Work == \E o \in DOMAIN orders :
    \/ \E w \in Workers : \/ AssignWorkerOrder(o, w)
                          \/ ReassignWorkerOrder(o, w)
                          \/ \E action \in WorkerActions : UpdateWorkerOrderStatus(o, w, action)
    \/ CancelWorkerOrder(o)

Invoicing ==
    \/ \E j \in DOMAIN intakes : CreateInvoice(j)
    \/ \E i \in DOMAIN invoices : CancelInvoice(i)

Pricing == \E s \in Services, p \in Prices : UpdateService(s, p)

JobsNext == Visits \/ Work \/ Invoicing \/ Pricing

JobsSpec == JobsInit /\ [][JobsNext]_jobsVars

-----------------------------------------------------------------------------
(* Properties *)

Intake(j) == [vehicle: Vehicles, status: {"draft", "open", "completed", "cancelled"},
              selected: UNION {[S -> Prices] : S \in (SUBSET Services) \ {{}}},
              lines: [OrdersOf(j) -> [worker: Workers \cup {None}, status: OrderStatuses]],
              workerIds: SUBSET Workers, invoice: Nat]

\* Every document has the shape the code writes, and an order has a worker once
\* it was assigned.
JobsTypeOK ==
    /\ \A j \in DOMAIN intakes : intakes[j] \in Intake(j)
    /\ DOMAIN orders \subseteq OrderIds
    /\ \A o \in DOMAIN orders :
          /\ orders[o] \in Order
          /\ orders[o].status \notin {"pending", "cancelled"} => orders[o].worker # None
    /\ \A i \in DOMAIN invoices : invoices[i].job \in DOMAIN intakes
    /\ price \in [Services -> Prices]

MirrorsOrders ==
    \A j \in DOMAIN intakes :
        LET job == intakes[j]
            all == OrdersOf(j)
            done == {o \in all : orders[o].status = "completed"}
        IN  /\ DOMAIN job.lines = all
            /\ \A o \in all : job.lines[o] = LineOf(orders[o])
            /\ job.workerIds = {orders[o].worker : o \in all} \ {None}
            /\ job.status = "cancelled" => \A o \in all : ~Live(o)
            /\ job.status \notin {"cancelled", "draft"} =>
                  (job.status = "completed" <=> done # {} /\ \A o \in all \ done : ~Live(o))

\* The job's summary, which is all that lists and screens read, says of every
\* order what the order says, and the job is completed exactly when nothing is
\* left to do and something was done, whoever changed what.
JobMirrorsOrders == JobsTypeOK /\ MirrorsOrders

\* However services are added, removed and added again, a job has one order that
\* is not cancelled for a service, and a price for it: invoicing never stops at
\* work without a price (billing.js:140), nor bills a service twice.
WorkIsPricedOnce ==
    \A j \in DOMAIN intakes :
        LET live == {o \in OrdersOf(j) : Live(o)}
        IN  /\ \A o \in live : o.service \in DOMAIN intakes[j].selected
            /\ \A o, p \in live : o.service = p.service => o = p

\* While an invoice stands its job is frozen: it names that invoice and no other,
\* stays completed, and its finished orders and their prices are those invoiced.
InvoicedWorkFrozen ==
    \A i \in DOMAIN invoices : ~invoices[i].cancelled =>
        LET j == invoices[i].job
        IN  /\ intakes[j].invoice = i /\ intakes[j].status = "completed"
            /\ DOMAIN invoices[i].items = {o \in OrdersOf(j) : orders[o].status = "completed"}
            /\ \A o \in DOMAIN invoices[i].items :
                  invoices[i].items[o] = intakes[j].selected[o.service]

\* The worker of an order holds its last assignment, the only one not ended: when
\* orders are passed on, no earlier worker still appears to have the work.
OneAssignee ==
    \A o \in DOMAIN orders :
        LET h == orders[o].history
        IN  /\ \A k \in DOMAIN h : h[k].ended <=> k < Len(h)
            /\ orders[o].worker = IF h = << >> THEN None ELSE h[Len(h)].worker

\* Nothing is deleted (docs/OPERATIONS.md): orders and their assignments stay, an
\* assignment only ever ends, and an order that is finished never changes.
WorkIsKept ==
    [][\A o \in DOMAIN orders :
          /\ o \in DOMAIN orders'
          /\ Len(orders[o].history) <= Len(orders'[o].history)
          /\ \A k \in DOMAIN orders[o].history :
                /\ orders'[o].history[k].worker = orders[o].history[k].worker
                /\ orders[o].history[k].ended => orders'[o].history[k].ended
          /\ orders[o].status \in {"completed", "cancelled"} => orders'[o] = orders[o]
      ]_jobsVars

-----------------------------------------------------------------------------
(* What the documents say and the code does not keep; see README, Findings *)

\* docs/SERVICES.md:74: "a vehicle has at most one open intake".
OneOpenIntake ==
    \A j, k \in DOMAIN intakes :
        (/\ intakes[j].vehicle = intakes[k].vehicle
         /\ intakes[j].status = "open" /\ intakes[k].status = "open") => j = k

\* docs/SERVICES.md:79: the invoice prices its lines from the snapshots of the
\* intake, "so a later catalogue price change never alters a visit already
\* started": a service that stays on the job keeps its price.
PricesKept ==
    [][\A j \in DOMAIN intakes :
          \A s \in DOMAIN intakes[j].selected \cap DOMAIN intakes'[j].selected :
              intakes'[j].selected[s] = intakes[j].selected[s]
      ]_jobsVars
=============================================================================
