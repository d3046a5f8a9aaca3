------------------------------ MODULE AfterHours ------------------------------
(***************************************************************************)
(* functions/src/after_hours.js: a worker is authorised for a window of    *)
(* time, opens a session, takes payments (billing.js), closes it and hands *)
(* the cash over; the count is compared with what the session says, and a  *)
(* difference is followed up.  A scheduled sweep does the housekeeping.    *)
(*                                                                         *)
(* A callable is one transaction and so one step.  The sweep is not: it    *)
(* reads its lists outside any transaction and works through them later,   *)
(* so its reads and its writes are steps of their own, two sweeps overlap, *)
(* and one may die in between.  Retried calls are stutters: every request  *)
(* id is also guarded by a status.  Actors hold the permission a call asks *)
(* for and are not the person it is about, except that a worker's own      *)
(* right to work after hours is the temporary grant modelled here.         *)
(***************************************************************************)
EXTENDS Billing

CONSTANTS
    Workers,         \* people with after_hours.request and no payments.record
    Windows,         \* the [from, until] windows approvers ask for
    Floats,          \* the opening floats they hand out
    AllowedMethods,  \* after_hours_policy.allowedPaymentMethods
    Methods,         \* bound: the payment methods customers use
    Counted,         \* what a manager may count when receiving a handover
    Sweepers,        \* invocations of sweepAfterHours that may overlap
    WarnBefore,      \* EXPIRY_WARNING_MS
    RemindAfter,     \* HANDOVER_REMINDER_MS
    MaxAuths, MaxSessions, MaxHandovers, MaxTime   \* bounds

ASSUME AfterHoursAssumption ==
    /\ Windows \subseteq [from: Nat, until: Nat]
    /\ Floats \subseteq Nat
    /\ Counted \subseteq Nat
    /\ Methods \subseteq Defaults
    /\ IsFiniteSet(Sweepers)
    /\ WarnBefore \in Nat
    /\ RemindAfter \in Nat
    /\ MaxTime \in Nat

VARIABLES
    auths,       \* after_hours_access, in the order they were numbered
    granted,     \* users[].temporaryPermissions: whose grant it is, 0 if none
    sessions,    \* after_hours_sessions
    openSession, \* unique_keys/after_hours_open_session_*: 0 if none
    takenIn,     \* payments[].afterHoursSessionId, 0 if none
    custody,     \* after_hours_cash: [session, delta]
    handovers,   \* cash_handovers
    gaps,        \* cash_discrepancies
    now,         \* the server clock
    sweeps,      \* what each running sweep has read and not dealt with yet
    told         \* notices sent: for authorisations and for handovers

afterHoursVars == <<auths, granted, sessions, openSession, takenIn, custody,
                    handovers, gaps, now, sweeps, told>>
businessVars == <<auths, granted, sessions, openSession, takenIn, custody, handovers, gaps>>
sweepVars == <<now, sweeps, told>>

-----------------------------------------------------------------------------
(* Documents *)

Authorization == [staff: Workers, from: Nat, until: Nat, float: Nat,
                  floatSession: Nat, status: {"active", "revoked", "expired"},
                  warned: BOOLEAN]                          \* expiryNotified
Session == [staff: Workers, auth: Nat,
            status: {"open", "closed", "handover_pending", "reconciled", "cancelled"},
            float: Nat, expected: Int, collected: Nat, reversed: Nat, late: Nat,
            handover: Nat,
            handoverStatus: {"none", "pending", "submitted", "received", "discrepancy", "reconciled"}]
Handover == [session: Nat, expected: Nat, actual: Nat,
             status: {"pending", "submitted", "received", "discrepancy", "reconciled"},
             since: Nat, gap: Nat, reminded: BOOLEAN]       \* reminderSentAt
Discrepancy == [handover: Nat, difference: Int,
                status: {"open", "under_review", "resolved", "waived"},
                entry: Nat, loss: BOOLEAN]

InWindow(a) == a.from <= now /\ now < a.until

\* isLive
Live(a) == a.status = "active" /\ InWindow(a)

\* The temporary grant the profile names is inside its window.
MayOperate(w) == granted[w] # 0 /\ InWindow(auths[granted[w]])

-----------------------------------------------------------------------------
(* Authorisations *)

Overlapping(w, window) ==
    \E a \in DOMAIN auths :
        /\ auths[a].staff = w /\ auths[a].status = "active" /\ now < auths[a].until
        /\ auths[a].from < window.until /\ window.from < auths[a].until

\* The new grants replace the ones the profile names, also those of another
\* authorisation whose window is not over.
AuthorizeAfterHours(w, window, float) ==
    /\ now <= window.from /\ window.from < window.until
    /\ ~Overlapping(w, window)
    /\ Len(auths) < MaxAuths
    /\ auths' = Append(auths, [staff |-> w, from |-> window.from, until |-> window.until,
                               float |-> float, floatSession |-> 0, status |-> "active",
                               warned |-> FALSE])
    /\ granted' = [granted EXCEPT ![w] = Len(auths) + 1]
    /\ UNCHANGED <<sessions, openSession, takenIn, custody, handovers, gaps,
                   sweepVars, billingVars, financeVars>>

RevokeAfterHours(a) ==
    /\ auths[a].status = "active" /\ now < auths[a].until
    /\ auths' = [auths EXCEPT ![a].status = "revoked"]
    /\ granted' = [granted EXCEPT ![auths[a].staff] = IF @ = a THEN 0 ELSE @]
    /\ UNCHANGED <<sessions, openSession, takenIn, custody, handovers, gaps,
                   sweepVars, billingVars, financeVars>>

-----------------------------------------------------------------------------
(* Sessions *)

\* Mutant: every session of an authorisation starts with its float.
FloatEveryTime(a) == auths[a].float

\* The float is handed out with the first session only.
FloatFor(a) == IF auths[a].floatSession = 0 THEN auths[a].float ELSE 0

OpenAfterHoursSession(w, a) ==
    /\ MayOperate(w)
    /\ openSession[w] = 0
    /\ auths[a].staff = w /\ Live(auths[a])
    /\ Len(sessions) < MaxSessions
    /\ LET float == FloatFor(a)
           s == Len(sessions) + 1
       IN  /\ sessions' = Append(sessions,
                 [staff |-> w, auth |-> a, status |-> "open", float |-> float,
                  expected |-> float, collected |-> 0, reversed |-> 0, late |-> 0,
                  handover |-> 0, handoverStatus |-> "none"])
           /\ openSession' = [openSession EXCEPT ![w] = s]
           /\ auths' = IF float > 0 THEN [auths EXCEPT ![a].floatSession = s] ELSE auths
           /\ custody' = IF float > 0 THEN Append(custody, [session |-> s, delta |-> float])
                         ELSE custody
    /\ UNCHANGED <<granted, takenIn, handovers, gaps, sweepVars, billingVars, financeVars>>

TakenIn(s) == {k \in DOMAIN payments : takenIn[k] = s}
IsCash(k) == ledger[payments[k].entry].to = Cash

\* expectedFromPayments: the cash of a session's live and reversed payments.
LiveCash(s) ==
    SumOver(LAMBDA k : payments[k].amount, {k \in TakenIn(s) : IsCash(k) /\ payments[k].live})
ReversedCash(s) ==
    SumOver(LAMBDA k : payments[k].amount, {k \in TakenIn(s) : IsCash(k) /\ ~payments[k].live})

CloseAfterHoursSession(s) ==
    LET expected == sessions[s].float + LiveCash(s)
        hands == expected > 0      \* there is cash to hand over
    IN  /\ sessions[s].status = "open"
        /\ hands => Len(handovers) < MaxHandovers
        /\ sessions' = [sessions EXCEPT
               ![s].status = IF hands THEN "handover_pending" ELSE "closed",
               ![s].expected = expected,
               ![s].collected = LiveCash(s) + ReversedCash(s),
               ![s].reversed = ReversedCash(s),
               ![s].handover = IF hands THEN Len(handovers) + 1 ELSE 0,
               ![s].handoverStatus = IF hands THEN "pending" ELSE "none"]
        /\ handovers' = IF hands
               THEN Append(handovers, [session |-> s, expected |-> expected, actual |-> 0,
                                       status |-> "pending", since |-> now, gap |-> 0,
                                       reminded |-> FALSE])
               ELSE handovers
        /\ openSession' = [openSession EXCEPT ![sessions[s].staff] = 0]
        /\ UNCHANGED <<auths, granted, takenIn, custody, gaps, sweepVars, billingVars, financeVars>>

CancellableSession(s) ==
    sessions[s].status = "open" /\ TakenIn(s) = {} /\ sessions[s].float = 0

CancelAfterHoursSession(s) ==
    /\ CancellableSession(s)
    /\ sessions' = [sessions EXCEPT ![s].status = "cancelled"]
    /\ openSession' = [openSession EXCEPT ![sessions[s].staff] = 0]
    /\ UNCHANGED <<auths, granted, takenIn, custody, handovers, gaps,
                   sweepVars, billingVars, financeVars>>

-----------------------------------------------------------------------------
(* Payments while a session is open (billing.js calls these) *)

\* A cashier has no session: the payment is an ordinary one.
CashierRecordsPayment(r, i, method, n) ==
    /\ RecordPayment(r, i, method, None, n)
    /\ takenIn' = Append(takenIn, 0)
    /\ UNCHANGED <<auths, granted, sessions, openSession, custody, handovers, gaps, sweepVars>>

\* With an open session the payment belongs to it: the authorisation must be in
\* force and the method allowed.
WorkerRecordsPayment(w, r, i, method, n) ==
    LET s == openSession[w]
        paidCash == IF method = Cash THEN n ELSE 0
    IN  /\ s # 0 /\ MayOperate(w) /\ Live(auths[sessions[s].auth])
        /\ method \in AllowedMethods
        /\ RecordPayment(r, i, method, None, n)
        /\ takenIn' = Append(takenIn, s)
        /\ custody' = Append(custody, [session |-> s, delta |-> paidCash])
        /\ sessions' = [sessions EXCEPT ![s].collected = @ + paidCash, ![s].expected = @ + paidCash]
        /\ UNCHANGED <<auths, granted, openSession, handovers, gaps, sweepVars>>

\* Mutant: a reversal after closing still changes what is expected.
SessionReversedLate(s, n, paidCash) ==
    [s EXCEPT !.reversed = @ + paidCash, !.expected = @ - paidCash]

\* While the session is open the refund comes out of the worker's cash; later the
\* expected cash is frozen and the reversal is noted only.
SessionReversed(s, n, paidCash) ==
    IF s.status = "open" THEN [s EXCEPT !.reversed = @ + paidCash, !.expected = @ - paidCash]
    ELSE [s EXCEPT !.late = @ + n]

ReverseAnyPayment(k) ==
    LET s == takenIn[k]
        n == payments[k].amount
        paidCash == IF IsCash(k) THEN n ELSE 0
    IN  /\ ReversePayment(k)
        /\ IF s = 0 THEN UNCHANGED <<sessions, custody>>
           ELSE /\ sessions' = [sessions EXCEPT ![s] = SessionReversed(@, n, paidCash)]
                /\ custody' = Append(custody,
                      [session |-> s,
                       delta |-> IF sessions[s].status = "open" THEN -paidCash ELSE 0])
        /\ UNCHANGED <<auths, granted, openSession, takenIn, handovers, gaps, sweepVars>>

InvoiceJob(j) == CreateInvoice(j) /\ UNCHANGED <<businessVars, sweepVars>>

-----------------------------------------------------------------------------
(* Handovers and discrepancies *)

WithHandover(s, status) == [sessions EXCEPT ![s].handoverStatus = status]

SubmitCashHandover(h) ==
    /\ handovers[h].status = "pending"
    /\ handovers' = [handovers EXCEPT ![h].status = "submitted"]
    /\ sessions' = WithHandover(handovers[h].session, "submitted")
    /\ UNCHANGED <<auths, granted, openSession, takenIn, custody, gaps,
                   sweepVars, billingVars, financeVars>>

Uncounted(h) == handovers[h].status \in {"pending", "submitted"}

\* The manager's count decides: equal, or a discrepancy is opened.
ReceiveCashHandover(h, actual) ==
    LET difference == actual - handovers[h].expected
        status == IF difference = 0 THEN "received" ELSE "discrepancy"
        s == handovers[h].session
    IN  /\ Uncounted(h)
        /\ gaps' = IF difference = 0 THEN gaps
                   ELSE Append(gaps, [handover |-> h, difference |-> difference,
                                      status |-> "open", entry |-> 0, loss |-> FALSE])
        /\ handovers' = [handovers EXCEPT
               ![h].status = status, ![h].actual = actual,
               ![h].gap = IF difference = 0 THEN 0 ELSE Len(gaps) + 1]
        /\ sessions' = [WithHandover(s, status) EXCEPT
               ![s].status = IF difference = 0 THEN "reconciled" ELSE "handover_pending"]
        /\ UNCHANGED <<auths, granted, openSession, takenIn, custody,
                       sweepVars, billingVars, financeVars>>

ReviewCashDiscrepancy(d) ==
    /\ gaps[d].status = "open"
    /\ gaps' = [gaps EXCEPT ![d].status = "under_review"]
    /\ UNCHANGED <<auths, granted, sessions, openSession, takenIn, custody, handovers,
                   sweepVars, billingVars, financeVars>>

\* Mutant: the cash account is moved the wrong way.
GapEntryBackwards(difference) ==
    IF difference > 0 THEN Adjustment(Cash, FALSE, difference)
    ELSE Adjustment(Cash, TRUE, -difference)

\* The adjustment that makes Cash at Hand match what was counted.
GapEntry(difference) ==
    IF difference > 0 THEN Adjustment(Cash, TRUE, difference)
    ELSE Adjustment(Cash, FALSE, -difference)

\* recover reports a loss incident (losses.js); adjust posts to the ledger.
ResolveCashDiscrepancy(d, outcome, recover, adjust) ==
    LET h == gaps[d].handover
        s == handovers[h].session
    IN  /\ gaps[d].status \in {"open", "under_review"}
        /\ recover => outcome = "resolved" /\ gaps[d].difference < 0
        /\ IF adjust THEN Active(Cash) /\ Post(GapEntry(gaps[d].difference))
           ELSE UNCHANGED <<accounts, created, ledger, daily>>
        /\ gaps' = [gaps EXCEPT ![d].status = outcome, ![d].loss = recover,
                                ![d].entry = IF adjust THEN NextNumber ELSE 0]
        /\ handovers' = [handovers EXCEPT ![h].status = "reconciled"]
        /\ sessions' = [WithHandover(s, "reconciled") EXCEPT ![s].status = "reconciled"]
        /\ UNCHANGED <<auths, granted, openSession, takenIn, custody, sweepVars, billingVars,
                       deposits, recs, requests, day, listed>>

-----------------------------------------------------------------------------
(* The scheduled sweep *)

Tick ==
    /\ now < MaxTime
    /\ now' = now + 1
    /\ UNCHANGED <<businessVars, sweeps, told, billingVars, financeVars>>

Lapsed == {a \in DOMAIN auths : auths[a].status = "active" /\ auths[a].until <= now}

\* Each one listed is looked at again in a transaction of its own.
ExpireAuthorization(a) ==
    /\ a \in Lapsed
    /\ auths' = [auths EXCEPT ![a].status = "expired"]
    /\ UNCHANGED <<granted, sessions, openSession, takenIn, custody, handovers, gaps,
                   sweepVars, billingVars, financeVars>>

Idle == [soon |-> {}, open |-> {}, claimed |-> 0, alive |-> TRUE]
Dead == [Idle EXCEPT !.alive = FALSE]

EndingSoon == {a \in DOMAIN auths :
    Live(auths[a]) /\ ~auths[a].warned /\ auths[a].until <= now + WarnBefore}

LeftOpen(h) == ~handovers[h].reminded /\ handovers[h].since + RemindAfter <= now

\* Mutant: only the handovers nobody submitted are listed.
OverduePending == {h \in DOMAIN handovers : handovers[h].status = "pending" /\ LeftOpen(h)}

Overdue == {h \in DOMAIN handovers : handovers[h].status \in {"pending", "submitted"} /\ LeftOpen(h)}

\* A sweep first lists what ends soon, and then the handovers still open.
SweepReadsEnding(p) ==
    /\ sweeps[p] = Idle /\ EndingSoon # {}
    /\ sweeps' = [sweeps EXCEPT ![p].soon = EndingSoon]
    /\ UNCHANGED <<businessVars, now, told, billingVars, financeVars>>

\* Marked without looking again at what the list was read from.
SweepWarns(p, a) ==
    /\ a \in sweeps[p].soon
    /\ auths' = [auths EXCEPT ![a].warned = TRUE]
    /\ told' = [told EXCEPT !.ending[a] = @ + 1]
    /\ sweeps' = [sweeps EXCEPT ![p].soon = @ \ {a}]
    /\ UNCHANGED <<granted, sessions, openSession, takenIn, custody, handovers, gaps, now,
                   billingVars, financeVars>>

SweepReadsOpen(p) ==
    /\ sweeps[p] = Idle /\ Overdue # {}
    /\ sweeps' = [sweeps EXCEPT ![p].open = Overdue]
    /\ UNCHANGED <<businessVars, now, told, billingVars, financeVars>>

\* Mutant: the handover is not looked at again in the claiming transaction.
ClaimableUnchecked(h) == TRUE

Claimable(h) == Uncounted(h) /\ ~handovers[h].reminded

\* The reminder is claimed in a transaction that looks again, and sent afterwards.
SweepClaims(p, h) ==
    /\ h \in sweeps[p].open /\ sweeps[p].claimed = 0
    /\ handovers' = IF Claimable(h) THEN [handovers EXCEPT ![h].reminded = TRUE] ELSE handovers
    /\ sweeps' = [sweeps EXCEPT ![p].open = @ \ {h},
                                ![p].claimed = IF Claimable(h) THEN h ELSE 0]
    /\ UNCHANGED <<auths, granted, sessions, openSession, takenIn, custody, gaps, now, told,
                   billingVars, financeVars>>

SweepReminds(p) ==
    /\ sweeps[p].claimed # 0
    /\ told' = [told EXCEPT !.open[sweeps[p].claimed] = @ + 1]
    /\ sweeps' = [sweeps EXCEPT ![p].claimed = 0]
    /\ UNCHANGED <<businessVars, now, billingVars, financeVars>>

\* An invocation ends before it is through, and what it had read is gone; the
\* schedule goes on, so not all of them die.
SweepDies(p) ==
    /\ sweeps[p] \notin {Idle, Dead}
    /\ \E other \in Sweepers \ {p} : sweeps[other].alive
    /\ sweeps' = [sweeps EXCEPT ![p] = Dead]
    /\ UNCHANGED <<businessVars, now, told, billingVars, financeVars>>

Sweep(p) ==
    \/ SweepReadsEnding(p)
    \/ \E a \in DOMAIN auths : SweepWarns(p, a)
    \/ SweepReadsOpen(p)
    \/ \E h \in DOMAIN handovers : SweepClaims(p, h)
    \/ SweepReminds(p)

-----------------------------------------------------------------------------
AfterHoursInit ==
    /\ BillingInit
    /\ auths = << >>
    /\ granted = [w \in Workers |-> 0]
    /\ sessions = << >>
    /\ openSession = [w \in Workers |-> 0]
    /\ takenIn = << >>
    /\ custody = << >>
    /\ handovers = << >>
    /\ gaps = << >>
    /\ now = 0
    /\ sweeps = [p \in Sweepers |-> Idle]
    /\ told = [ending |-> [a \in 1..MaxAuths |-> 0],
               open |-> [h \in 1..MaxHandovers |-> 0]]

Authorizing ==
    \/ \E w \in Workers, window \in Windows, float \in Floats : AuthorizeAfterHours(w, window, float)
    \/ \E a \in DOMAIN auths : RevokeAfterHours(a)

Working ==
    \/ \E w \in Workers, a \in DOMAIN auths : OpenAfterHoursSession(w, a)
    \/ \E s \in DOMAIN sessions : CloseAfterHoursSession(s) \/ CancelAfterHoursSession(s)

\* Request ids are interchangeable: which unused one a client picks is no matter.
NextRequest ==
    LET unused == {r \in PaymentRequests : FirstTime(r)}
    IN  IF unused = {} THEN {} ELSE {CHOOSE r \in unused : TRUE}

Collecting ==
    \/ \E j \in Intakes : InvoiceJob(j)
    \/ \E r \in NextRequest, i \in DOMAIN invoices, method \in Methods, n \in Amounts :
          \/ CashierRecordsPayment(r, i, method, n)
          \/ \E w \in Workers : WorkerRecordsPayment(w, r, i, method, n)
    \/ \E k \in DOMAIN payments : ReverseAnyPayment(k)

HandingOver ==
    \/ \E h \in DOMAIN handovers :
          SubmitCashHandover(h) \/ \E actual \in Counted : ReceiveCashHandover(h, actual)
    \/ \E d \in DOMAIN gaps :
          \/ ReviewCashDiscrepancy(d)
          \/ \E outcome \in {"resolved", "waived"}, recover, adjust \in BOOLEAN :
                ResolveCashDiscrepancy(d, outcome, recover, adjust)

SweepStep ==
    \/ \E a \in DOMAIN auths : ExpireAuthorization(a)
    \/ \E p \in Sweepers : Sweep(p)

Housekeeping == SweepStep \/ \E p \in Sweepers : SweepDies(p)

AfterHoursNext == Authorizing \/ Working \/ Collecting \/ HandingOver \/ Tick \/ Housekeeping

allVars == <<financeVars, billingVars, afterHoursVars>>

\* The sweep is run every 15 minutes for ever (index.js:249): while it has work to
\* do some invocation does some of it.  Nothing is assumed of people.
AfterHoursSpec ==
    /\ AfterHoursInit /\ [][AfterHoursNext]_allVars
    /\ WF_allVars(SweepStep)

-----------------------------------------------------------------------------
(* Properties *)

\* Every document has the shape the code writes; nobody expects less than no cash.
AfterHoursTypeOK ==
    /\ auths \in Seq(Authorization)
    /\ granted \in [Workers -> Nat]
    /\ sessions \in Seq(Session)
    /\ openSession \in [Workers -> Nat]
    /\ takenIn \in Seq(Nat) /\ Len(takenIn) = Len(payments)
    /\ custody \in Seq([session: Nat, delta: Int])
    /\ handovers \in Seq(Handover)
    /\ gaps \in Seq(Discrepancy)
    /\ now \in Nat

\* The cash a worker must account for is told three times (running total, custody
\* book, payments) and always comes out the same; closing freezes it, so that what
\* the payments say differs afterwards only by what was reversed late
\* (after_hours.js:27-30).
CustodyAddsUp ==
    \A s \in DOMAIN sessions :
        LET x == sessions[s]
            booked == SumOver(LAMBDA e : custody[e].delta, {e \in DOMAIN custody : custody[e].session = s})
        IN  /\ x.expected = booked
            /\ x.expected = x.float + x.collected - x.reversed
            /\ x.status = "open" => x.expected = x.float + LiveCash(s)
            /\ x.expected >= x.float + LiveCash(s)
            /\ x.expected <= x.float + LiveCash(s) + x.late
            /\ x.handover # 0 => handovers[x.handover].expected = x.expected

\* However often sessions are opened, cancelled and closed under it, the float of
\* an authorisation is out with exactly one of its sessions from the first on, and
\* a session that has cash ends only by handing it over; a person's open session is
\* the one the unique key names, and the only one.
FloatHandedBack ==
    /\ \A a \in DOMAIN auths :
          LET mine == {s \in DOMAIN sessions : sessions[s].auth = a}
          IN  mine # {} => SumOver(LAMBDA s : sessions[s].float, mine) = auths[a].float
    /\ \A s \in DOMAIN sessions : sessions[s].status \in {"closed", "cancelled"} =>
          sessions[s].float = 0 /\ sessions[s].expected = 0
    /\ \A w \in Workers :
          {s \in DOMAIN sessions : sessions[s].staff = w /\ sessions[s].status = "open"}
            = {openSession[w]} \ {0}

\* Session, handover and discrepancy are three documents that tell one story, in
\* whatever order they are counted, reviewed and resolved: one handover for each
\* session closed with cash, one discrepancy for each count that differs, and an
\* adjustment that brings Cash at Hand to exactly what was counted.
HandoverStory ==
    /\ \A h \in DOMAIN handovers :
          LET x == handovers[h]
              s == sessions[x.session]
          IN  /\ s.handover = h /\ s.handoverStatus = x.status
              /\ s.status = (IF x.status \in {"received", "reconciled"} THEN "reconciled"
                             ELSE "handover_pending")
              /\ x.gap # 0 <=> x.status \in {"discrepancy", "reconciled"}
              /\ x.status = "received" => x.actual = x.expected
    /\ \A d \in DOMAIN gaps :
          LET x == gaps[d]
              h == handovers[x.handover]
          IN  /\ h.gap = d /\ x.difference = h.actual - h.expected /\ x.difference # 0
              /\ x.status \in {"resolved", "waived"} <=> h.status = "reconciled"
              /\ x.entry # 0 => /\ ledger[x.entry].type = "adjustment"
                                /\ DeltaOf(ledger[x.entry], Cash) = x.difference
                                /\ \A c \in DOMAIN gaps \ {d} : gaps[c].entry # x.entry
              /\ x.loss => x.difference < 0 /\ x.status = "resolved"
    /\ \A s \in DOMAIN sessions : sessions[s].status \in {"handover_pending", "reconciled"} =>
          sessions[s].handover \in DOMAIN handovers

\* "An overlapping or retried sweep cannot remind twice" (after_hours.js:943-945): a
\* handover is reminded at most once however sweeps overlap and die, and an
\* authorisation is warned of at most once by each sweep that overlapped.
RemindedOnce ==
    /\ \A h \in DOMAIN told.open : told.open[h] <= 1
    /\ \A a \in DOMAIN told.ending : told.ending[a] <= Cardinality(Sweepers)

\* Nobody has counted the cash, and nobody was told to.
Waiting(h) == h \in DOMAIN handovers /\ Uncounted(h) /\ LeftOpen(h)

\* The sweep catches up: an authorisation past its window is marked expired, and a
\* handover left open too long is claimed for its reminder unless it is counted
\* first, although sweeps overlap and some of them die half-way.
HousekeepingDone ==
    /\ \A a \in 1..MaxAuths : (a \in Lapsed) ~> (a \notin Lapsed)
    /\ \A h \in 1..MaxHandovers : Waiting(h) ~> ~Waiting(h)
=============================================================================
