--------------------------- MODULE AfterHoursProofs ---------------------------
(* Theorems about AfterHours, for any workers, windows, floats and counts,   *)
(* and for any number of sessions, handovers and sweeps that overlap and     *)
(* die.  Cash is followed through three documents (sessions, custody book,   *)
(* payments), and a handover through three more (session, handover,          *)
(* discrepancy): what each says of the others is HoursInv, part by part.     *)
EXTENDS AfterHours, BillingProofs

-----------------------------------------------------------------------------
(* The inductive invariant *)

\* The numbers documents know each other by are numbers of documents.
RefsInv ==
    /\ \A s \in DOMAIN sessions : sessions[s].auth \in DOMAIN auths
    /\ \A k \in DOMAIN takenIn : takenIn[k] \in 0..Len(sessions)
    /\ \A e \in DOMAIN custody : custody[e].session \in DOMAIN sessions
    /\ \A w \in Workers : openSession[w] \in 0..Len(sessions)

\* The unique key of a worker names the session that is open, and no other is.
KeysInv ==
    \A w \in Workers, s \in DOMAIN sessions :
        openSession[w] = s <=> sessions[s].staff = w /\ sessions[s].status = "open"

\* The float of authorisation a is out with the session it names; while it names
\* none, there is no float or no session yet.
FloatOut(a) ==
    LET f == auths[a].floatSession
    IN  /\ f # 0 => /\ f \in DOMAIN sessions
                    /\ sessions[f].auth = a /\ sessions[f].float = auths[a].float
        /\ \A s \in DOMAIN sessions \ {f} : sessions[s].auth = a =>
              sessions[s].float = 0 /\ (f = 0 => auths[a].float = 0)
FloatsInv == \A a \in DOMAIN auths : FloatOut(a)

\* A session that ended without handing over has nothing to hand over.
Empty(x) == x.status \in {"closed", "cancelled"} => x.float = 0 /\ x.expected = 0
EmptyInv == \A s \in DOMAIN sessions : Empty(sessions[s])

\* The sum of lines S of a custody book c, and of the floats of sessions S of l.
DeltasOf(c, S) == SumOver(LAMBDA e : c[e].delta, S)
FloatsOf(l, S) == SumOver(LAMBDA s : l[s].float, S)

LinesOf(s) == {e \in DOMAIN custody : custody[e].session = s}

\* The cash of session s, told three times; cash is what its live payments say.
Balanced(x, booked, cash) ==
    /\ x.expected = booked
    /\ x.expected = x.float + x.collected - x.reversed
    /\ x.status = "open" => x.expected = x.float + cash
    /\ x.expected >= x.float + cash
    /\ x.expected <= x.float + cash + x.late
CustodyInv ==
    \A s \in DOMAIN sessions : Balanced(sessions[s], DeltasOf(custody, LinesOf(s)), LiveCash(s))

\* Session s, handover h and discrepancy d of sessions ss, handovers hs and
\* discrepancies gs, as far as each must agree with the others.
SessionFits(ss, hs, s) ==
    LET x == ss[s]
    IN  IF x.status \in {"handover_pending", "reconciled"}
        THEN x.handover \in DOMAIN hs /\ hs[x.handover].session = s
        ELSE x.handover = 0
HandoverFits(ss, hs, h) ==
    LET x == hs[h]
        s == ss[x.session]
    IN  /\ x.session \in DOMAIN ss
        /\ s.handover = h /\ s.handoverStatus = x.status /\ s.expected = x.expected
        /\ s.status = (IF x.status \in {"received", "reconciled"} THEN "reconciled"
                       ELSE "handover_pending")
        /\ x.status = "received" => x.actual = x.expected
CountFits(hs, gs, h) ==
    LET x == hs[h]
    IN  /\ x.gap # 0 <=> x.status \in {"discrepancy", "reconciled"}
        /\ x.gap # 0 => x.gap \in DOMAIN gs /\ gs[x.gap].handover = h
GapFits(hs, gs, d) ==
    LET x == gs[d]
        h == hs[x.handover]
    IN  /\ x.handover \in DOMAIN hs
        /\ h.gap = d /\ x.difference = h.actual - h.expected /\ x.difference # 0
        /\ x.status \in {"resolved", "waived"} <=> h.status = "reconciled"
        /\ x.loss => x.difference < 0 /\ x.status = "resolved"

\* An adjustment brings Cash at Hand to what was counted, once.
GapPosted(l, gs, d) ==
    LET x == gs[d]
    IN  x.entry # 0 =>
            /\ x.entry \in DOMAIN l
            /\ l[x.entry].type = "adjustment" /\ DeltaOf(l[x.entry], Cash) = x.difference
            /\ \A c \in DOMAIN gs \ {d} : gs[c].entry # x.entry

StoryInv ==
    /\ \A s \in DOMAIN sessions : SessionFits(sessions, handovers, s)
    /\ \A h \in DOMAIN handovers :
          HandoverFits(sessions, handovers, h) /\ CountFits(handovers, gaps, h)
    /\ \A d \in DOMAIN gaps : GapFits(handovers, gaps, d) /\ GapPosted(ledger, gaps, d)

\* What a sweep w has read and not dealt with is about documents there are.
SweepState == [soon: SUBSET Nat, open: SUBSET Nat, claimed: Nat, alive: BOOLEAN]
SweepFits(w, as, hs) == w.claimed \in 0..Len(hs) /\ w.soon \subseteq DOMAIN as

\* A handover is claimed by one of the sweeps sw, once, and then it is marked.
Claimed(sw, h) == {p \in Sweepers : sw[p].claimed = h}
RemindFits(sw, hs, n, h) ==
    /\ \A p, q \in Claimed(sw, h) : p = q
    /\ Claimed(sw, h) # {} => n = 0
    /\ Claimed(sw, h) # {} \/ n = 1 => h \in DOMAIN hs /\ hs[h].reminded

\* A sweep warns of what it has listed, and of an authorisation that is not marked
\* nobody was warned.
Listing(sw, a) == {p \in Sweepers : a \in sw[p].soon}
WarnFits(sw, as, n, a) ==
    /\ n + Cardinality(Listing(sw, a)) <= Cardinality(Sweepers)
    /\ n > 0 => a \in DOMAIN as /\ as[a].warned

RemindInv ==
    /\ sweeps \in [Sweepers -> SweepState]
    /\ told \in [ending: [1..MaxAuths -> Nat], open: [1..MaxHandovers -> {0, 1}]]
    /\ \A p \in Sweepers : SweepFits(sweeps[p], auths, handovers)
    /\ \A h \in 1..MaxHandovers : RemindFits(sweeps, handovers, told.open[h], h)
    /\ \A a \in 1..MaxAuths : WarnFits(sweeps, auths, told.ending[a], a)

HoursInv ==
    /\ BillInv /\ AfterHoursTypeOK /\ RefsInv
    /\ KeysInv /\ FloatsInv /\ EmptyInv /\ CustodyInv /\ StoryInv /\ RemindInv

-----------------------------------------------------------------------------
(* The money: a step of billing.js, or the adjustment of a discrepancy *)

\* Cash at Hand is brought to what was counted for discrepancy d.
Adjusts(d) ==
    /\ Post(GapEntry(gaps[d].difference))
    /\ UNCHANGED <<deposits, recs, requests, day, listed, billingVars>>

\* An unused request id is one of the request ids.
LEMMA NextRequestUnused == NextRequest \subseteq PaymentRequests
BY DEF NextRequest

\* Nothing else of after_hours.js touches the documents of finance.js and billing.js.
LEMMA BooksStepped ==
    [AfterHoursNext]_allVars =>
        \/ [BillingNext]_bookVars
        \/ \E d \in DOMAIN gaps : Adjusts(d)
<1> SUFFICES ASSUME [AfterHoursNext]_allVars
             PROVE  [BillingNext]_bookVars \/ \E d \in DOMAIN gaps : Adjusts(d)
  OBVIOUS
<1>1. CASE Authorizing
  BY <1>1 DEF Authorizing, AuthorizeAfterHours, RevokeAfterHours, bookVars
<1>2. CASE Working
  <2>1. ASSUME NEW w, NEW a, OpenAfterHoursSession(w, a) PROVE UNCHANGED bookVars
    BY <2>1 DEF OpenAfterHoursSession, bookVars
  <2>2. ASSUME NEW s, CloseAfterHoursSession(s) PROVE UNCHANGED bookVars
    BY <2>2 DEF CloseAfterHoursSession, bookVars
  <2>3. ASSUME NEW s, CancelAfterHoursSession(s) PROVE UNCHANGED bookVars
    BY <2>3 DEF CancelAfterHoursSession, bookVars
  <2> QED
    BY <1>2, <2>1, <2>2, <2>3 DEF Working
<1>3. CASE Collecting
  <2>1. ASSUME NEW j \in Intakes, InvoiceJob(j) PROVE BillingNext
    BY <2>1 DEF InvoiceJob, BillingNext, Invoicing
  <2>2. ASSUME NEW r \in NextRequest, NEW i \in DOMAIN invoices, NEW method \in Methods,
               NEW n \in Amounts, RecordPayment(r, i, method, None, n)
        PROVE  BillingNext
    BY <2>2, NextRequestUnused, AfterHoursAssumption DEF BillingNext, Paying
  <2>3. ASSUME NEW k \in DOMAIN payments, ReverseAnyPayment(k) PROVE BillingNext
    BY <2>3 DEF ReverseAnyPayment, BillingNext, Paying
  <2>4. ASSUME NEW r \in NextRequest, NEW i \in DOMAIN invoices, NEW method \in Methods,
               NEW n \in Amounts, CashierRecordsPayment(r, i, method, n)
        PROVE  BillingNext
    BY <2>2, <2>4 DEF CashierRecordsPayment
  <2>5. ASSUME NEW r \in NextRequest, NEW i \in DOMAIN invoices, NEW method \in Methods,
               NEW n \in Amounts, NEW w \in Workers, WorkerRecordsPayment(w, r, i, method, n)
        PROVE  BillingNext
    BY <2>2, <2>5 DEF WorkerRecordsPayment
  <2> QED
    BY <1>3, <2>1, <2>3, <2>4, <2>5 DEF Collecting
<1>4. CASE HandingOver
  <2>1. ASSUME NEW h, SubmitCashHandover(h) PROVE UNCHANGED bookVars
    BY <2>1 DEF SubmitCashHandover, bookVars
  <2>4. ASSUME NEW h, NEW actual, ReceiveCashHandover(h, actual) PROVE UNCHANGED bookVars
    BY <2>4 DEF ReceiveCashHandover, bookVars
  <2>2. ASSUME NEW d \in DOMAIN gaps, ReviewCashDiscrepancy(d) PROVE UNCHANGED bookVars
    BY <2>2 DEF ReviewCashDiscrepancy, bookVars
  <2>3. ASSUME NEW d \in DOMAIN gaps, NEW outcome, NEW recover, NEW adjust,
               ResolveCashDiscrepancy(d, outcome, recover, adjust)
        PROVE  Adjusts(d) \/ UNCHANGED bookVars
    BY <2>3 DEF ResolveCashDiscrepancy, Adjusts, bookVars, financeVars
  <2> QED
    BY <1>4, <2>1, <2>2, <2>3, <2>4 DEF HandingOver
<1>5. CASE Tick \/ Housekeeping
  BY <1>5 DEF Tick, Housekeeping, SweepStep, ExpireAuthorization, Sweep, SweepReadsEnding,
              SweepWarns, SweepReadsOpen, SweepClaims, SweepReminds, SweepDies, bookVars
<1>6. CASE UNCHANGED allVars
  BY <1>6 DEF allVars, bookVars
<1> QED
  BY <1>1, <1>2, <1>3, <1>4, <1>5, <1>6 DEF AfterHoursNext

\* The entry of an adjustment is one of the ledger's, if something is missing or over.
LEMMA GapEntryType ==
    ASSUME NEW n \in Int \ {0}
    PROVE  /\ GapEntry(n) \in Entry
           /\ GapEntry(n).type = "adjustment" /\ GapEntry(n).posted
           /\ GapEntry(n).reversedBy = 0
           /\ DeltaOf(GapEntry(n), Cash) = n
<1>1. Cash \in AccountIds \cup {None} /\ None \in AccountIds \cup {None} /\ Cash # None
  BY AccountAssumption DEF AccountIds, Defaults
<1>2. ASSUME NEW m \in Amount
      PROVE  /\ NewEntry("adjustment", m, None, Cash) \in Entry
             /\ NewEntry("adjustment", m, Cash, None) \in Entry
  <2>1. "adjustment" \in PostingTypes
    BY DEF PostingTypes
  <2>2. NewEntry("adjustment", m, None, Cash) \in Entry
    BY <1>1, <2>1 DEF NewEntry, Entry, EntryTypes
  <2>3. NewEntry("adjustment", m, Cash, None) \in Entry
    BY <1>1, <2>1 DEF NewEntry, Entry, EntryTypes
  <2> QED
    BY <2>2, <2>3
<1>3. CASE n > 0
  <2>1. n \in Amount /\ GapEntry(n) = NewEntry("adjustment", n, None, Cash)
    BY <1>3 DEF Amount, GapEntry, Adjustment
  <2>2. GapEntry(n) \in Entry
    BY <1>2, <2>1
  <2> QED
    BY <1>1, <2>1, <2>2 DEF NewEntry, DeltaOf
<1>4. CASE ~(n > 0)
  <2>1. -n \in Amount /\ GapEntry(n) = NewEntry("adjustment", -n, Cash, None)
    BY <1>4 DEF Amount, GapEntry, Adjustment
  <2>2. GapEntry(n) \in Entry
    BY <1>2, <2>1
  <2>3. -(-n) = n
    OBVIOUS
  <2> QED
    BY <1>1, <2>1, <2>2, <2>3 DEF NewEntry, DeltaOf
<1> QED
  BY <1>3, <1>4

\* The difference of a discrepancy is never nothing.
LEMMA GapKnown ==
    ASSUME AfterHoursTypeOK, StoryInv, NEW d \in DOMAIN gaps
    PROVE  gaps[d] \in Discrepancy /\ gaps[d].difference \in Int \ {0}
<1>1. gaps[d] \in Discrepancy
  BY ElementOfSeq DEF AfterHoursTypeOK
<1>2. gaps[d].difference # 0
  BY DEF StoryInv, GapFits
<1> QED
  BY <1>1, <1>2 DEF Discrepancy

\* Whatever after_hours.js does to the money goes by the book.
LEMMA HoursByTheBook == HoursInv /\ [AfterHoursNext]_allVars => ByTheBook /\ BillInv'
<1> SUFFICES ASSUME HoursInv, [AfterHoursNext]_allVars PROVE ByTheBook /\ BillInv'
  OBVIOUS
<1>1. BillInv /\ MoneyInv /\ FinanceTypeOK /\ AfterHoursTypeOK /\ StoryInv
  BY DEF HoursInv, BillInv, MoneyInv
<1>2. CASE [BillingNext]_bookVars
  BY <1>1, <1>2, BillingSteps, FinanceByTheBook, BillStep
<1>3. ASSUME NEW d \in DOMAIN gaps, Adjusts(d) PROVE ByTheBook /\ BillInv'
  <2> DEFINE e == GapEntry(gaps[d].difference)
  <2>1. e \in Entry /\ e.type # "reversal" /\ e.posted /\ e.reversedBy = 0
    BY <1>1, GapKnown, GapEntryType
  <2>2. /\ Commit(accounts, ledger, e) /\ ledger \in Seq(Entry)
        /\ accounts \in [AccountIds -> Account] /\ Prepared(accounts)
    BY <1>1, <1>3, PreparedNow DEF Adjusts, Post, FinanceTypeOK
  <2> HIDE DEF e
  <2>3. PostsEntry
    BY <2>1, <2>2 DEF PostsEntry
  <2>4. FinanceTypeOK'
    BY <1>1, <1>3, <2>1, <2>2, CommitType DEF Adjusts, FinanceTypeOK
  <2>5. ByTheBook /\ MoneyInv'
    BY <1>1, <2>3, <2>4, MoneyKept DEF ByTheBook
  <2>6. UNCHANGED <<invoices, invoiceOf, payments>>
    BY <1>3 DEF Adjusts, billingVars
  <2>7. InvoicesKnown'
    BY <1>1, <2>6 DEF BillInv, InvoicesKnown
  <2>8. EntriesKnown'
    <3>1. DOMAIN ledger \subseteq DOMAIN ledger'
      BY <1>1, <2>3, LedgerAfterPosting, LenProperties DEF FinanceTypeOK
    <3> QED
      BY <1>1, <2>6, <3>1 DEF BillInv, EntriesKnown
  <2> QED
    BY <2>5, <2>7, <2>8 DEF BillInv
<1> QED
  BY <1>2, <1>3, BooksStepped

\* What the ledger says of an entry, it says for good.
LEMMA EntriesStand ==
    ASSUME HoursInv, [AfterHoursNext]_allVars
    PROVE  /\ DOMAIN ledger \subseteq DOMAIN ledger'
           /\ \A i \in DOMAIN ledger : /\ ledger'[i].type = ledger[i].type
                                       /\ ledger'[i].from = ledger[i].from
                                       /\ ledger'[i].to = ledger[i].to
                                       /\ ledger'[i].amount = ledger[i].amount
<1>1. /\ MoneyInv /\ FinanceTypeOK /\ AppendOnlyStep
      /\ ledger \in Seq(Entry) /\ ledger' \in Seq(Entry)
  BY HoursByTheBook, AppendOnlyKept DEF HoursInv, BillInv, MoneyInv, ByTheBook, FinanceTypeOK
<1>2. /\ DOMAIN ledger = 1..Len(ledger) /\ Len(ledger) \in Nat
      /\ DOMAIN ledger' = 1..Len(ledger') /\ Len(ledger') \in Nat
      /\ Len(ledger) <= Len(ledger')
  <2>1. DOMAIN ledger = 1..Len(ledger) /\ Len(ledger) \in Nat
    BY <1>1, LenProperties
  <2>2. DOMAIN ledger' = 1..Len(ledger') /\ Len(ledger') \in Nat
    BY <1>1, LenProperties
  <2>3. Len(ledger) <= Len(ledger')
    BY <1>1, Zenon DEF AppendOnlyStep
  <2> QED
    BY <2>1, <2>2, <2>3
<1>3. ASSUME NEW i \in DOMAIN ledger
      PROVE  /\ ledger'[i].type = ledger[i].type /\ ledger'[i].from = ledger[i].from
             /\ ledger'[i].to = ledger[i].to /\ ledger'[i].amount = ledger[i].amount
  <2>1. ledger[i] \in Entry
    BY <1>1, ElementOfSeq
  <2>2. CASE ledger'[i] = ledger[i]
    BY <2>2
  <2>3. CASE ledger'[i] = MarkReversed(ledger[i], Len(ledger'))
    BY <1>2, <2>1, <2>3, Marked
  <2>4. \/ ledger'[i] = ledger[i]
        \/ ledger'[i] = MarkReversed(ledger[i], Len(ledger'))
    BY <1>1, Zenon DEF AppendOnlyStep, MarkReversed
  <2> QED
    BY <2>2, <2>3, <2>4
<1> QED
  BY <1>2, <1>3

-----------------------------------------------------------------------------
(* What a step does to a collection: it adds a document, or changes one *)

Grown(t, s, x) ==
    /\ Len(s) \in Nat /\ DOMAIN s = 1..Len(s)
    /\ Len(t) = Len(s) + 1 /\ DOMAIN t = 1..(Len(s) + 1)
    /\ \A k \in 1..Len(s) : t[k] = s[k]
    /\ t[Len(s) + 1] = x
Changed(t, s, i, x) ==
    /\ Len(t) = Len(s) /\ DOMAIN t = DOMAIN s /\ i \in DOMAIN s
    /\ Len(s) \in Nat /\ DOMAIN s = 1..Len(s)
    /\ \A k \in DOMAIN s : k # i => t[k] = s[k]
    /\ t[i] = x

LEMMA Growth ==
    ASSUME NEW S, NEW s \in Seq(S), NEW x \in S, NEW t, t = Append(s, x)
    PROVE  t \in Seq(S) /\ Grown(t, s, x)
BY AppendProperties, LenProperties DEF Grown

LEMMA Change ==
    ASSUME NEW S, NEW s \in Seq(S), NEW x \in S, NEW i \in DOMAIN s, NEW t, t = [s EXCEPT ![i] = x]
    PROVE  t \in Seq(S) /\ Changed(t, s, i, x)
<1>1. t \in Seq(S)
  BY ReplaceType
<1>2. DOMAIN t = DOMAIN s /\ t[i] = x /\ \A k \in DOMAIN s : k # i => t[k] = s[k]
  OBVIOUS
<1>3. Len(s) \in Nat /\ DOMAIN s = 1..Len(s) /\ Len(t) \in Nat /\ DOMAIN t = 1..Len(t)
  BY <1>1, LenProperties
<1>4. Len(t) = Len(s)
  BY <1>2, <1>3
<1> QED
  BY <1>1, <1>2, <1>3, <1>4 DEF Changed

\* The documents, one by one.
LEMMA DocumentTypes ==
    ASSUME AfterHoursTypeOK
    PROVE  /\ \A a \in DOMAIN auths : auths[a] \in Authorization
           /\ \A s \in DOMAIN sessions : sessions[s] \in Session
           /\ \A h \in DOMAIN handovers : handovers[h] \in Handover
           /\ \A d \in DOMAIN gaps : gaps[d] \in Discrepancy
           /\ DOMAIN auths = 1..Len(auths) /\ Len(auths) \in Nat
           /\ DOMAIN sessions = 1..Len(sessions) /\ Len(sessions) \in Nat
           /\ DOMAIN handovers = 1..Len(handovers) /\ Len(handovers) \in Nat
           /\ DOMAIN gaps = 1..Len(gaps) /\ Len(gaps) \in Nat
           /\ DOMAIN custody = 1..Len(custody) /\ Len(custody) \in Nat
           /\ DOMAIN takenIn = 1..Len(takenIn) /\ Len(takenIn) \in Nat
BY ElementOfSeq, LenProperties DEF AfterHoursTypeOK

-----------------------------------------------------------------------------
(* What each operation writes *)

NewAuthorization(w, window, float) ==
    [staff |-> w, from |-> window.from, until |-> window.until, float |-> float,
     floatSession |-> 0, status |-> "active", warned |-> FALSE]
NewSession(w, a, float) ==
    [staff |-> w, auth |-> a, status |-> "open", float |-> float,
     expected |-> float, collected |-> 0, reversed |-> 0, late |-> 0,
     handover |-> 0, handoverStatus |-> "none"]
NewHandover(s, expected) ==
    [session |-> s, expected |-> expected, actual |-> 0, status |-> "pending",
     since |-> now, gap |-> 0, reminded |-> FALSE]
NewGap(h, difference) ==
    [handover |-> h, difference |-> difference, status |-> "open", entry |-> 0, loss |-> FALSE]

\* An authorisation is added.
LEMMA Authorizes ==
    ASSUME AfterHoursTypeOK, NEW w \in Workers, NEW window \in Windows, NEW float \in Floats,
           AuthorizeAfterHours(w, window, float)
    PROVE  auths' \in Seq(Authorization) /\ Grown(auths', auths, NewAuthorization(w, window, float))
<1> DEFINE x == NewAuthorization(w, window, float)
<1>1. x \in Authorization
  BY AfterHoursAssumption DEF NewAuthorization, Authorization
<1>2. auths' = Append(auths, x)
  BY DEF AuthorizeAfterHours, NewAuthorization
<1> HIDE DEF x
<1>3. auths \in Seq(Authorization)
  BY DEF AfterHoursTypeOK
<1>4. auths' \in Seq(Authorization) /\ Grown(auths', auths, x)
  BY <1>1, <1>2, <1>3, Growth
<1> QED
  BY <1>4 DEF x

\* An authorisation is marked, and keeps its float.
LEMMA Remarks ==
    ASSUME AfterHoursTypeOK, NEW a \in DOMAIN auths,
           NEW status \in {"active", "revoked", "expired"}, NEW warned \in BOOLEAN, NEW session \in Nat,
           auths' = [auths EXCEPT ![a] = [auths[a] EXCEPT !.status = status, !.warned = warned,
                                                          !.floatSession = session]]
    PROVE  /\ auths' \in Seq(Authorization) /\ DOMAIN auths' = DOMAIN auths
           /\ \A b \in DOMAIN auths : b # a => auths'[b] = auths[b]
           /\ auths'[a].float = auths[a].float /\ auths'[a].floatSession = session
           /\ auths'[a].warned = warned
<1> DEFINE x == [auths[a] EXCEPT !.status = status, !.warned = warned, !.floatSession = session]
<1>1. auths[a] \in Authorization
  BY DocumentTypes
<1>2. /\ x \in Authorization /\ x.float = auths[a].float /\ x.floatSession = session
      /\ x.warned = warned
  BY <1>1 DEF Authorization
<1>3. auths' = [auths EXCEPT ![a] = x]
  OBVIOUS
<1> HIDE DEF x
<1>4. auths \in Seq(Authorization)
  BY DEF AfterHoursTypeOK
<1>5. auths' \in Seq(Authorization) /\ Changed(auths', auths, a, x)
  BY <1>2, <1>3, <1>4, Change, Zenon
<1> QED
  BY <1>2, <1>5 DEF Changed

\* Sessions after one of them became x.
LEMMA SessionChanges ==
    ASSUME AfterHoursTypeOK, NEW s \in DOMAIN sessions, NEW x \in Session,
           sessions' = [sessions EXCEPT ![s] = x]
    PROVE  sessions' \in Seq(Session) /\ Changed(sessions', sessions, s, x)
<1>1. sessions \in Seq(Session)
  BY DEF AfterHoursTypeOK
<1> QED
  BY <1>1, Change, Zenon

\* The cash of a session is a sum of amounts.
CashOf(s) == {k \in TakenIn(s) : IsCash(k) /\ payments[k].live}

LEMMA CashType ==
    ASSUME BillInv, NEW s
    PROVE  /\ LiveCash(s) = AmountsOf(payments, CashOf(s))
           /\ LiveCash(s) \in Nat /\ ReversedCash(s) \in Nat
<1> DEFINE back == {k \in TakenIn(s) : IsCash(k) /\ ~payments[k].live}
<1>1. /\ payments \in Seq(Payment) /\ DOMAIN payments = 1..Len(payments) /\ Len(payments) \in Nat
      /\ \A k \in DOMAIN payments : payments[k] \in Payment
  BY LenProperties, ElementOfSeq DEF BillInv, EntriesKnown
<1>2. IsFiniteSet(DOMAIN payments)
  BY <1>1, FS_Interval
<1>3. \A k \in DOMAIN payments : payments[k].amount \in Nat
  BY <1>1 DEF Payment, Amount
<1>4. CashOf(s) \subseteq DOMAIN payments /\ back \subseteq DOMAIN payments
  BY DEF CashOf, TakenIn
<1>5. LiveCash(s) = AmountsOf(payments, CashOf(s)) /\ ReversedCash(s) = AmountsOf(payments, back)
  BY DEF LiveCash, ReversedCash, AmountsOf, CashOf
<1> HIDE DEF back
<1>6. IsFiniteSet(CashOf(s)) /\ IsFiniteSet(back)
  BY <1>2, <1>4, FS_Subset
<1>7. AmountsOf(payments, CashOf(s)) \in Nat
  <2>1. \A k \in CashOf(s) : payments[k].amount \in Nat
    BY <1>3, <1>4
  <2> QED
    BY <1>6, <2>1, AmountsType
<1>8. AmountsOf(payments, back) \in Nat
  <2>1. \A k \in back : payments[k].amount \in Nat
    BY <1>3, <1>4
  <2> QED
    BY <1>6, <2>1, AmountsType
<1> QED
  BY <1>5, <1>7, <1>8

\* A session is opened.
LEMMA Opens ==
    ASSUME AfterHoursTypeOK, NEW w \in Workers, NEW a \in DOMAIN auths,
           OpenAfterHoursSession(w, a)
    PROVE  LET n == FloatFor(a)
               s == Len(sessions) + 1
           IN  /\ n \in Nat /\ s \in Nat /\ NewSession(w, a, n) \in Session
               /\ sessions' \in Seq(Session) /\ Grown(sessions', sessions, NewSession(w, a, n))
               /\ openSession[w] = 0 /\ openSession' = [openSession EXCEPT ![w] = s]
               /\ auths' \in Seq(Authorization) /\ DOMAIN auths' = DOMAIN auths
               /\ \A b \in DOMAIN auths :
                     /\ auths'[b].float = auths[b].float
                     /\ auths'[b].floatSession =
                           IF b = a /\ n > 0 THEN s ELSE auths[b].floatSession
                     /\ auths'[b].warned = auths[b].warned
               /\ custody' = IF n > 0 THEN Append(custody, [session |-> s, delta |-> n]) ELSE custody
<1> DEFINE n == FloatFor(a)
           s == Len(sessions) + 1
           x == NewSession(w, a, n)
<1>1. /\ auths[a] \in Authorization /\ Len(sessions) \in Nat /\ a \in Nat
      /\ sessions \in Seq(Session) /\ auths \in Seq(Authorization)
  BY DocumentTypes DEF AfterHoursTypeOK
<1>2. n \in Nat /\ s \in Nat
  BY <1>1 DEF FloatFor, Authorization
<1> HIDE DEF n
<1>3. x \in Session
  BY <1>1, <1>2 DEF NewSession, Session
<1>4. sessions' = Append(sessions, x)
  BY DEF OpenAfterHoursSession, NewSession, n
<1> HIDE DEF x
<1>5. sessions' \in Seq(Session) /\ Grown(sessions', sessions, x)
  BY <1>1, <1>3, <1>4, Growth
<1>6. /\ openSession[w] = 0 /\ openSession' = [openSession EXCEPT ![w] = s]
      /\ custody' = IF n > 0 THEN Append(custody, [session |-> s, delta |-> n]) ELSE custody
      /\ auths' = IF n > 0 THEN [auths EXCEPT ![a].floatSession = s] ELSE auths
  BY DEF OpenAfterHoursSession, n
<1>7. /\ auths' \in Seq(Authorization) /\ DOMAIN auths' = DOMAIN auths
      /\ \A b \in DOMAIN auths :
            /\ auths'[b].float = auths[b].float
            /\ auths'[b].floatSession = IF b = a /\ n > 0 THEN s ELSE auths[b].floatSession
            /\ auths'[b].warned = auths[b].warned
  <2>1. CASE n > 0
    <3> DEFINE y == [auths[a] EXCEPT !.floatSession = s]
    <3>1. /\ y \in Authorization /\ y.float = auths[a].float /\ y.floatSession = s
          /\ y.warned = auths[a].warned
      BY <1>1, <1>2 DEF Authorization
    <3>2. auths' = [auths EXCEPT ![a] = y]
      BY <1>6, <2>1
    <3> HIDE DEF y, s
    <3>3. auths' \in Seq(Authorization) /\ Changed(auths', auths, a, y)
      BY <1>1, <3>1, <3>2, Change, Zenon
    <3> QED
      BY <2>1, <3>1, <3>3 DEF Changed
  <2>2. CASE ~(n > 0)
    BY <1>1, <1>6, <2>2
  <2> QED
    BY <2>1, <2>2
<1> QED
  BY <1>2, <1>3, <1>5, <1>6, <1>7 DEF n, x

\* The fields of a session that closing writes.
ClosedAs(y, status, expected, collected, reversed, handover, waiting) ==
    [y EXCEPT !.status = status, !.expected = expected, !.collected = collected,
              !.reversed = reversed, !.handover = handover, !.handoverStatus = waiting]

ClosingValues(status, expected, collected, reversed, handover, waiting) ==
    /\ status \in {"closed", "handover_pending"} /\ waiting \in {"none", "pending"}
    /\ expected \in Nat /\ collected \in Nat /\ reversed \in Nat /\ handover \in Nat

LEMMA ClosedFields ==
    ASSUME NEW y \in Session, NEW status, NEW expected, NEW collected, NEW reversed,
           NEW handover, NEW waiting,
           ClosingValues(status, expected, collected, reversed, handover, waiting)
    PROVE  LET x == ClosedAs(y, status, expected, collected, reversed, handover, waiting)
           IN  /\ x \in Session /\ x.staff = y.staff /\ x.auth = y.auth
               /\ x.float = y.float /\ x.late = y.late
               /\ x.status = status /\ x.expected = expected /\ x.collected = collected
               /\ x.reversed = reversed /\ x.handover = handover /\ x.handoverStatus = waiting
<1> DEFINE x == ClosedAs(y, status, expected, collected, reversed, handover, waiting)
<1>1. \A z \in Session : /\ [z EXCEPT !.status = status] \in Session
                         /\ [z EXCEPT !.expected = expected] \in Session
                         /\ [z EXCEPT !.collected = collected] \in Session
                         /\ [z EXCEPT !.reversed = reversed] \in Session
                         /\ [z EXCEPT !.handover = handover] \in Session
                         /\ [z EXCEPT !.handoverStatus = waiting] \in Session
  BY DEF Session, ClosingValues
<1>2. x \in Session
  BY <1>1 DEF ClosedAs
<1>3. /\ x.staff = y.staff /\ x.auth = y.auth /\ x.float = y.float /\ x.late = y.late
      /\ x.status = status /\ x.expected = expected /\ x.collected = collected
      /\ x.reversed = reversed /\ x.handover = handover /\ x.handoverStatus = waiting
  BY DEF Session, ClosedAs
<1> QED
  BY <1>2, <1>3

\* A session is closed; with cash in it, a handover is added.
LEMMA Closes ==
    ASSUME BillInv, AfterHoursTypeOK, NEW s \in DOMAIN sessions, CloseAfterHoursSession(s)
    PROVE  LET expected == sessions[s].float + LiveCash(s)
               h == Len(handovers) + 1
           IN  /\ expected \in Nat /\ sessions[s].status = "open"
               /\ \E x \in Session :
                     /\ sessions' \in Seq(Session) /\ Changed(sessions', sessions, s, x)
                     /\ x.staff = sessions[s].staff /\ x.auth = sessions[s].auth
                     /\ x.float = sessions[s].float /\ x.late = sessions[s].late
                     /\ x.expected = expected /\ x.expected = x.float + x.collected - x.reversed
                     /\ x.status = IF expected > 0 THEN "handover_pending" ELSE "closed"
                     /\ x.handover = IF expected > 0 THEN h ELSE 0
                     /\ expected > 0 => x.handoverStatus = "pending"
               /\ openSession' = [openSession EXCEPT ![sessions[s].staff] = 0]
               /\ handovers' \in Seq(Handover)
               /\ IF expected > 0 THEN Grown(handovers', handovers, NewHandover(s, expected))
                  ELSE handovers' = handovers
<1> DEFINE expected == sessions[s].float + LiveCash(s)
           h == Len(handovers) + 1
           status == IF expected > 0 THEN "handover_pending" ELSE "closed"
           number == IF expected > 0 THEN h ELSE 0
           waiting == IF expected > 0 THEN "pending" ELSE "none"
           collected == LiveCash(s) + ReversedCash(s)
           x == ClosedAs(sessions[s], status, expected, collected, ReversedCash(s), number, waiting)
           y == NewHandover(s, expected)
<1>1. /\ sessions[s] \in Session /\ Len(handovers) \in Nat /\ s \in Nat /\ now \in Nat
      /\ handovers \in Seq(Handover) /\ LiveCash(s) \in Nat /\ ReversedCash(s) \in Nat
  BY DocumentTypes, CashType DEF AfterHoursTypeOK
<1>2. expected \in Nat /\ h \in Nat
  BY <1>1 DEF Session
<1>3. /\ sessions' = [sessions EXCEPT ![s] = x]
      /\ openSession' = [openSession EXCEPT ![sessions[s].staff] = 0]
      /\ sessions[s].status = "open"
      /\ handovers' = IF expected > 0 THEN Append(handovers, y) ELSE handovers
  BY DEF CloseAfterHoursSession, NewHandover, ClosedAs
<1>4. expected = sessions[s].float + (LiveCash(s) + ReversedCash(s)) - ReversedCash(s)
  BY <1>1 DEF Session
<1>5. y \in Handover
  BY <1>1, <1>2 DEF NewHandover, Handover
<1>10. ClosingValues(status, expected, collected, ReversedCash(s), number, waiting)
  BY <1>1, <1>2 DEF ClosingValues
<1> HIDE DEF expected, h, y, status, number, waiting, collected
<1>6. /\ x \in Session /\ x.staff = sessions[s].staff /\ x.auth = sessions[s].auth
      /\ x.float = sessions[s].float /\ x.late = sessions[s].late
      /\ x.expected = expected /\ x.collected = collected
      /\ x.reversed = ReversedCash(s)
      /\ x.status = status /\ x.handover = number /\ x.handoverStatus = waiting
  BY <1>1, <1>10, ClosedFields
<1> HIDE DEF x
<1>7. sessions' \in Seq(Session) /\ Changed(sessions', sessions, s, x)
  BY <1>3, <1>6, SessionChanges
<1>8. /\ handovers' \in Seq(Handover)
      /\ IF expected > 0 THEN Grown(handovers', handovers, y) ELSE handovers' = handovers
  BY <1>1, <1>3, <1>5, Growth
<1>9. x.expected = x.float + x.collected - x.reversed
  BY <1>4, <1>6 DEF collected
<1> QED
  BY <1>2, <1>3, <1>6, <1>7, <1>8, <1>9 DEF expected, h, y, status, number, waiting

\* The cash, the float and the handover of a session stay as they are.
SameCash(x, y) ==
    /\ x.staff = y.staff /\ x.auth = y.auth /\ x.float = y.float /\ x.handover = y.handover
    /\ x.expected = y.expected /\ x.collected = y.collected
    /\ x.reversed = y.reversed /\ x.late = y.late

\* A session is cancelled.
LEMMA Cancels ==
    ASSUME AfterHoursTypeOK, NEW s \in DOMAIN sessions, CancelAfterHoursSession(s)
    PROVE  /\ sessions[s].status = "open" /\ TakenIn(s) = {} /\ sessions[s].float = 0
           /\ openSession' = [openSession EXCEPT ![sessions[s].staff] = 0]
           /\ sessions' \in Seq(Session)
           /\ \E x \in Session : /\ Changed(sessions', sessions, s, x)
                                 /\ SameCash(x, sessions[s]) /\ x.status = "cancelled"
<1> DEFINE x == [sessions[s] EXCEPT !.status = "cancelled"]
<1>1. sessions[s] \in Session
  BY DocumentTypes
<1>2. x \in Session /\ SameCash(x, sessions[s]) /\ x.status = "cancelled"
  BY <1>1 DEF Session, SameCash
<1>3. sessions' = [sessions EXCEPT ![s] = x]
  BY DEF CancelAfterHoursSession
<1> HIDE DEF x
<1>4. sessions' \in Seq(Session) /\ Changed(sessions', sessions, s, x)
  BY <1>2, <1>3, SessionChanges
<1> QED
  BY <1>2, <1>4 DEF CancelAfterHoursSession, CancellableSession

\* A worker takes a payment, p of it in cash, into the session s that is open.
TakesInto(s, p) ==
    /\ s \in DOMAIN sessions /\ sessions[s].status = "open" /\ p \in Nat /\ s # 0
    /\ sessions' \in Seq(Session)
    /\ \E x \in Session :
          /\ Changed(sessions', sessions, s, x)
          /\ x.staff = sessions[s].staff /\ x.auth = sessions[s].auth
          /\ x.float = sessions[s].float /\ x.handover = sessions[s].handover
          /\ x.reversed = sessions[s].reversed /\ x.late = sessions[s].late
          /\ x.collected = sessions[s].collected + p
          /\ x.expected = sessions[s].expected + p
          /\ x.status = "open" /\ x.handoverStatus = sessions[s].handoverStatus

LEMMA Takes ==
    ASSUME AfterHoursTypeOK, RefsInv, KeysInv, NEW w \in Workers, NEW r, NEW i, NEW method,
           NEW n \in Amounts, WorkerRecordsPayment(w, r, i, method, n)
    PROVE  TakesInto(openSession[w], IF method = Cash THEN n ELSE 0)
<1> DEFINE s == openSession[w]
           p == IF method = Cash THEN n ELSE 0
           x == [sessions[s] EXCEPT !.collected = @ + p, !.expected = @ + p]
<1>1. s # 0
  BY DEF WorkerRecordsPayment
<1>2. s \in DOMAIN sessions
  BY <1>1, DocumentTypes DEF RefsInv
<1>3. sessions[s].status = "open"
  BY <1>2 DEF KeysInv
<1>4. p \in Nat
  BY BoundAssumption DEF Amount
<1>5. sessions[s] \in Session
  BY <1>2, DocumentTypes
<1>6. sessions' = [sessions EXCEPT ![s] = x]
  BY DEF WorkerRecordsPayment
<1> HIDE DEF s, p
<1>7. x \in Session
  <2>1. sessions[s].collected + p \in Nat /\ sessions[s].expected + p \in Int
    BY <1>4, <1>5 DEF Session
  <2> QED
    BY <1>5, <2>1 DEF Session
<1>8. /\ x.staff = sessions[s].staff /\ x.auth = sessions[s].auth
      /\ x.float = sessions[s].float /\ x.handover = sessions[s].handover
      /\ x.reversed = sessions[s].reversed /\ x.late = sessions[s].late
      /\ x.collected = sessions[s].collected + p
      /\ x.expected = sessions[s].expected + p
      /\ x.status = "open" /\ x.handoverStatus = sessions[s].handoverStatus
  BY <1>3, <1>5 DEF Session
<1> HIDE DEF x
<1>9. sessions' \in Seq(Session) /\ Changed(sessions', sessions, s, x)
  BY <1>2, <1>6, <1>7, SessionChanges
<1>10. TakesInto(s, p)
  BY <1>1, <1>2, <1>3, <1>4, <1>7, <1>8, <1>9 DEF TakesInto
<1> QED
  BY <1>10 DEF s, p

\* A payment of a session is reversed: the cash goes back, or the reversal is noted.
LEMMA Returns ==
    ASSUME BillInv, AfterHoursTypeOK, RefsInv, NEW k \in DOMAIN payments, ReverseAnyPayment(k),
           takenIn[k] # 0
    PROVE  LET s == takenIn[k]
               n == payments[k].amount
               p == IF IsCash(k) THEN n ELSE 0
               y == SessionReversed(sessions[s], n, p)
           IN  /\ s \in DOMAIN sessions /\ p \in Nat /\ n \in Nat
               /\ sessions' \in Seq(Session)
               /\ y \in Session /\ Changed(sessions', sessions, s, y)
               /\ y.status = sessions[s].status
               /\ y.handoverStatus = sessions[s].handoverStatus
               /\ y.staff = sessions[s].staff /\ y.auth = sessions[s].auth
               /\ y.float = sessions[s].float /\ y.handover = sessions[s].handover
               /\ y.collected = sessions[s].collected
               /\ IF sessions[s].status = "open"
                  THEN /\ y.expected = sessions[s].expected - p
                       /\ y.reversed = sessions[s].reversed + p /\ y.late = sessions[s].late
                  ELSE /\ y.expected = sessions[s].expected
                       /\ y.reversed = sessions[s].reversed /\ y.late = sessions[s].late + n
               /\ custody' = Append(custody, [session |-> s,
                                delta |-> IF sessions[s].status = "open" THEN -p ELSE 0])
<1> DEFINE s == takenIn[k]
           n == payments[k].amount
           p == IF IsCash(k) THEN n ELSE 0
           y == SessionReversed(sessions[s], n, p)
<1>1. /\ k \in DOMAIN takenIn
      /\ payments[k] \in Payment
  BY LenProperties, ElementOfSeq DEF BillInv, EntriesKnown, AfterHoursTypeOK
<1>2. s \in DOMAIN sessions
  BY <1>1, DocumentTypes DEF RefsInv
<1>3. n \in Nat /\ p \in Nat
  BY <1>1 DEF Payment, Amount
<1>4. sessions[s] \in Session
  BY <1>2, DocumentTypes
<1>5. /\ sessions' = [sessions EXCEPT ![s] = y]
      /\ custody' = Append(custody, [session |-> s,
                       delta |-> IF sessions[s].status = "open" THEN -p ELSE 0])
  BY DEF ReverseAnyPayment
<1> HIDE DEF s, n, p
<1>6. sessions[s].reversed + p \in Nat /\ sessions[s].expected - p \in Int /\ sessions[s].late + n \in Nat
  BY <1>3, <1>4 DEF Session
<1>7. /\ y \in Session
      /\ y.status = sessions[s].status
      /\ y.handoverStatus = sessions[s].handoverStatus
      /\ y.staff = sessions[s].staff /\ y.auth = sessions[s].auth
      /\ y.float = sessions[s].float /\ y.handover = sessions[s].handover
      /\ y.collected = sessions[s].collected
  BY <1>4, <1>6 DEF Session, SessionReversed
<1>8. IF sessions[s].status = "open"
      THEN /\ y.expected = sessions[s].expected - p
           /\ y.reversed = sessions[s].reversed + p /\ y.late = sessions[s].late
      ELSE /\ y.expected = sessions[s].expected
           /\ y.reversed = sessions[s].reversed /\ y.late = sessions[s].late + n
  BY <1>4 DEF Session, SessionReversed
<1> HIDE DEF y
<1>9. sessions' \in Seq(Session) /\ Changed(sessions', sessions, s, y)
  BY <1>2, <1>5, <1>7, SessionChanges
<1> QED
  BY <1>2, <1>3, <1>5, <1>7, <1>8, <1>9 DEF s, n, p, y


HandoverStates == {"pending", "submitted", "received", "discrepancy", "reconciled"}

\* A session is told how its handover stands, and keeps its cash.
HandsTo(s, status, standing) ==
    /\ s \in DOMAIN sessions
    /\ status \in {"handover_pending", "reconciled"} /\ standing \in HandoverStates
    /\ sessions' = [sessions EXCEPT ![s] = [sessions[s] EXCEPT !.handoverStatus = standing,
                                                              !.status = status]]
LEMMA Hands ==
    ASSUME AfterHoursTypeOK, NEW s, NEW status, NEW standing, HandsTo(s, status, standing)
    PROVE  /\ sessions' \in Seq(Session)
           /\ \E x \in Session : /\ Changed(sessions', sessions, s, x)
                                 /\ SameCash(x, sessions[s])
                                 /\ x.status = status /\ x.handoverStatus = standing
<1> DEFINE x == [sessions[s] EXCEPT !.handoverStatus = standing, !.status = status]
<1>1. sessions[s] \in Session /\ s \in DOMAIN sessions
  BY DocumentTypes DEF HandsTo
<1>2. /\ x \in Session /\ SameCash(x, sessions[s])
      /\ x.status = status /\ x.handoverStatus = standing
  BY <1>1 DEF Session, SameCash, HandoverStates, HandsTo
<1>3. sessions' = [sessions EXCEPT ![s] = x]
  BY DEF HandsTo
<1> HIDE DEF x
<1>4. sessions' \in Seq(Session) /\ Changed(sessions', sessions, s, x)
  BY <1>1, <1>2, <1>3, SessionChanges
<1> QED
  BY <1>2, <1>4

\* A handover is counted, or its status changes.
CountedAs(y, status, actual, gap) == [y EXCEPT !.status = status, !.actual = actual, !.gap = gap]
CountsAs(h, status, actual, gap) ==
    /\ h \in DOMAIN handovers /\ status \in HandoverStates /\ actual \in Nat /\ gap \in Nat
    /\ handovers' = [handovers EXCEPT ![h] = CountedAs(handovers[h], status, actual, gap)]

LEMMA HandoverChanges ==
    ASSUME AfterHoursTypeOK, NEW h, NEW status, NEW actual, NEW gap,
           CountsAs(h, status, actual, gap)
    PROVE  /\ handovers' \in Seq(Handover)
           /\ \E x \in Handover :
                 /\ Changed(handovers', handovers, h, x)
                 /\ x.session = handovers[h].session /\ x.expected = handovers[h].expected
                 /\ x.since = handovers[h].since /\ x.reminded = handovers[h].reminded
                 /\ x.status = status /\ x.actual = actual /\ x.gap = gap
<1> DEFINE x == CountedAs(handovers[h], status, actual, gap)
<1>1. handovers[h] \in Handover /\ handovers \in Seq(Handover) /\ h \in DOMAIN handovers
  BY DocumentTypes DEF AfterHoursTypeOK, CountsAs
<1>2. /\ x \in Handover
      /\ x.session = handovers[h].session /\ x.expected = handovers[h].expected
      /\ x.since = handovers[h].since /\ x.reminded = handovers[h].reminded
      /\ x.status = status /\ x.actual = actual /\ x.gap = gap
  BY <1>1 DEF Handover, CountedAs, HandoverStates, CountsAs
<1>3. handovers' = [handovers EXCEPT ![h] = x]
  BY DEF CountsAs
<1> HIDE DEF x
<1>4. handovers' \in Seq(Handover) /\ Changed(handovers', handovers, h, x)
  BY <1>1, <1>2, <1>3, Change, Zenon
<1> QED
  BY <1>2, <1>4

\* A discrepancy is looked into, or settled.
SettledAs(y, status, loss, entry) == [y EXCEPT !.status = status, !.loss = loss, !.entry = entry]
SettlesAs(d, status, loss, entry) ==
    /\ d \in DOMAIN gaps /\ status \in {"open", "under_review", "resolved", "waived"}
    /\ loss \in BOOLEAN /\ entry \in Nat
    /\ gaps' = [gaps EXCEPT ![d] = SettledAs(gaps[d], status, loss, entry)]

LEMMA GapChanges ==
    ASSUME AfterHoursTypeOK, NEW d, NEW status, NEW loss, NEW entry,
           SettlesAs(d, status, loss, entry)
    PROVE  /\ gaps' \in Seq(Discrepancy)
           /\ \E x \in Discrepancy :
                 /\ Changed(gaps', gaps, d, x)
                 /\ x.handover = gaps[d].handover /\ x.difference = gaps[d].difference
                 /\ x.status = status /\ x.entry = entry /\ x.loss = loss
<1> DEFINE x == SettledAs(gaps[d], status, loss, entry)
<1>1. gaps[d] \in Discrepancy /\ gaps \in Seq(Discrepancy) /\ d \in DOMAIN gaps
  BY DocumentTypes DEF AfterHoursTypeOK, SettlesAs
<1>2. /\ x \in Discrepancy
      /\ x.handover = gaps[d].handover /\ x.difference = gaps[d].difference
      /\ x.status = status /\ x.entry = entry
  BY <1>1 DEF Discrepancy, SettledAs, SettlesAs
<1>3. x.loss = loss
  BY <1>1, Zenon DEF Discrepancy, SettledAs
<1>4. gaps' = [gaps EXCEPT ![d] = x]
  BY DEF SettlesAs
<1> HIDE DEF x
<1>5. gaps' \in Seq(Discrepancy) /\ Changed(gaps', gaps, d, x)
  BY <1>1, <1>2, <1>4, Change, Zenon
<1> QED
  BY <1>2, <1>3, <1>5

\* A handover belongs to a session, and the session to it.
LEMMA HandoverKnown ==
    ASSUME AfterHoursTypeOK, StoryInv, NEW h \in DOMAIN handovers
    PROVE  LET s == handovers[h].session
           IN  /\ s \in DOMAIN sessions /\ sessions[s].handover = h /\ h \in Nat /\ h # 0
               /\ sessions[s] \in Session /\ handovers[h] \in Handover
               /\ sessions[s].status \in {"handover_pending", "reconciled"}
               /\ handovers[h].status \in HandoverStates
BY DocumentTypes DEF StoryInv, HandoverFits, Handover, HandoverStates

\* Session s and handover h after a step that says how the handover stands.
Stands(s, h, x, y, status, standing) ==
    /\ Changed(sessions', sessions, s, x) /\ SameCash(x, sessions[s])
    /\ x.status = status /\ x.handoverStatus = standing
    /\ Changed(handovers', handovers, h, y)
    /\ y.session = s /\ y.expected = handovers[h].expected
    /\ y.since = handovers[h].since /\ y.reminded = handovers[h].reminded
    /\ y.status = standing

\* A handover is submitted.
LEMMA Submits ==
    ASSUME AfterHoursTypeOK, StoryInv, NEW h \in DOMAIN handovers, SubmitCashHandover(h)
    PROVE  /\ sessions' \in Seq(Session) /\ handovers' \in Seq(Handover)
           /\ handovers[h].status = "pending"
           /\ \E x \in Session, y \in Handover :
                 /\ Stands(handovers[h].session, h, x, y, "handover_pending", "submitted")
                 /\ y.actual = handovers[h].actual /\ y.gap = handovers[h].gap
<1> DEFINE s == handovers[h].session
           y == handovers[h]
<1>1. /\ s \in DOMAIN sessions /\ sessions[s] \in Session /\ y \in Handover
      /\ handovers[h].status = "pending"
  BY HandoverKnown DEF SubmitCashHandover
<1>2. sessions[s].status = "handover_pending"
  BY <1>1 DEF StoryInv, HandoverFits
<1>3. sessions' = [sessions EXCEPT ![s] = [sessions[s] EXCEPT !.handoverStatus = "submitted",
                                                              !.status = "handover_pending"]]
  <2>1. [sessions[s] EXCEPT !.handoverStatus = "submitted"]
          = [sessions[s] EXCEPT !.handoverStatus = "submitted", !.status = "handover_pending"]
    BY <1>1, <1>2 DEF Session
  <2>2. sessions' = [sessions EXCEPT ![s] = [sessions[s] EXCEPT !.handoverStatus = "submitted"]]
    BY <1>1 DEF SubmitCashHandover, WithHandover
  <2> QED
    BY <2>1, <2>2
<1>4. handovers' = [handovers EXCEPT ![h] = CountedAs(y, "submitted", y.actual, y.gap)]
  <2>1. [y EXCEPT !.status = "submitted"] = CountedAs(y, "submitted", y.actual, y.gap)
    BY <1>1 DEF Handover, CountedAs
  <2>2. handovers' = [handovers EXCEPT ![h] = [y EXCEPT !.status = "submitted"]]
    BY DEF SubmitCashHandover
  <2> QED
    BY <2>1, <2>2
<1>5. /\ HandsTo(s, "handover_pending", "submitted")
      /\ CountsAs(h, "submitted", y.actual, y.gap)
  BY <1>1, <1>3, <1>4 DEF Handover, HandoverStates, HandsTo, CountsAs
<1> HIDE DEF s
<1>6. PICK x \in Session : /\ Changed(sessions', sessions, s, x) /\ SameCash(x, sessions[s])
                           /\ x.status = "handover_pending" /\ x.handoverStatus = "submitted"
                           /\ sessions' \in Seq(Session)
  BY <1>5, Hands
<1>7. PICK z \in Handover :
          /\ Changed(handovers', handovers, h, z) /\ handovers' \in Seq(Handover)
          /\ z.session = y.session /\ z.expected = y.expected
          /\ z.since = y.since /\ z.reminded = y.reminded
          /\ z.status = "submitted" /\ z.actual = y.actual /\ z.gap = y.gap
  BY <1>5, HandoverChanges
<1> QED
  BY <1>1, <1>6, <1>7 DEF Stands, s

\* A handover is counted.
LEMMA Receives ==
    ASSUME AfterHoursTypeOK, StoryInv, NEW h \in DOMAIN handovers, NEW actual \in Counted,
           ReceiveCashHandover(h, actual)
    PROVE  LET n == actual - handovers[h].expected
               standing == IF n = 0 THEN "received" ELSE "discrepancy"
               d == IF n = 0 THEN 0 ELSE Len(gaps) + 1
           IN  /\ sessions' \in Seq(Session) /\ handovers' \in Seq(Handover)
               /\ gaps' \in Seq(Discrepancy) /\ Uncounted(h) /\ n \in Int
               /\ \E x \in Session, y \in Handover :
                     /\ Stands(handovers[h].session, h, x, y,
                               IF n = 0 THEN "reconciled" ELSE "handover_pending", standing)
                     /\ y.actual = actual /\ y.gap = d
               /\ IF n = 0 THEN gaps' = gaps ELSE Grown(gaps', gaps, NewGap(h, n))
<1> DEFINE s == handovers[h].session
           y == handovers[h]
           n == actual - handovers[h].expected
           standing == IF n = 0 THEN "received" ELSE "discrepancy"
           status == IF n = 0 THEN "reconciled" ELSE "handover_pending"
           d == IF n = 0 THEN 0 ELSE Len(gaps) + 1
           g == NewGap(h, n)
<1>1. /\ s \in DOMAIN sessions /\ sessions[s] \in Session /\ y \in Handover
      /\ h \in Nat /\ Uncounted(h) /\ gaps \in Seq(Discrepancy) /\ Len(gaps) \in Nat
  BY HandoverKnown, DocumentTypes DEF ReceiveCashHandover, AfterHoursTypeOK
<1>2. actual \in Nat /\ n \in Int /\ d \in Nat
  BY <1>1, AfterHoursAssumption DEF Handover
<1>4. sessions' = [sessions EXCEPT ![s] = [sessions[s] EXCEPT !.handoverStatus = standing,
                                                              !.status = status]]
  BY <1>1 DEF ReceiveCashHandover, WithHandover
<1>5. handovers' = [handovers EXCEPT ![h] = CountedAs(y, standing, actual, d)]
  BY <1>1 DEF ReceiveCashHandover, CountedAs
<1>3. HandsTo(s, status, standing) /\ CountsAs(h, standing, actual, d)
  BY <1>1, <1>2, <1>4, <1>5 DEF HandoverStates, HandsTo, CountsAs
<1>6. gaps' = IF n = 0 THEN gaps ELSE Append(gaps, g)
  BY DEF ReceiveCashHandover, NewGap
<1>7. g \in Discrepancy
  BY <1>1, <1>2 DEF NewGap, Discrepancy
<1> HIDE DEF s, n, standing, status, d, g
<1>8. PICK x \in Session : /\ Changed(sessions', sessions, s, x) /\ SameCash(x, sessions[s])
                           /\ x.status = status /\ x.handoverStatus = standing
                           /\ sessions' \in Seq(Session)
  BY <1>3, Hands
<1>9. PICK z \in Handover :
          /\ Changed(handovers', handovers, h, z) /\ handovers' \in Seq(Handover)
          /\ z.session = y.session /\ z.expected = y.expected
          /\ z.since = y.since /\ z.reminded = y.reminded
          /\ z.status = standing /\ z.actual = actual /\ z.gap = d
  BY <1>3, HandoverChanges
<1>10. /\ gaps' \in Seq(Discrepancy)
       /\ IF n = 0 THEN gaps' = gaps ELSE Grown(gaps', gaps, g)
  BY <1>1, <1>6, <1>7, Growth
<1>11. Stands(s, h, x, z, status, standing)
  BY <1>8, <1>9 DEF Stands, s
<1> QED
  BY <1>1, <1>2, <1>8, <1>9, <1>10, <1>11 DEF s, n, standing, status, d, g

\* A discrepancy is looked into.
LEMMA Reviews ==
    ASSUME AfterHoursTypeOK, NEW d \in DOMAIN gaps, ReviewCashDiscrepancy(d)
    PROVE  /\ gaps' \in Seq(Discrepancy) /\ gaps[d].status = "open"
           /\ \E x \in Discrepancy :
                 /\ Changed(gaps', gaps, d, x)
                 /\ x.handover = gaps[d].handover /\ x.difference = gaps[d].difference
                 /\ x.status = "under_review" /\ x.entry = gaps[d].entry /\ x.loss = gaps[d].loss
<1> DEFINE y == gaps[d]
<1>1. y \in Discrepancy
  BY DocumentTypes
<1>2. y.entry \in Nat /\ y.loss \in BOOLEAN
  BY <1>1 DEF Discrepancy
<1>3. gaps' = [gaps EXCEPT ![d] = SettledAs(y, "under_review", y.loss, y.entry)]
  <2>1. [y EXCEPT !.status = "under_review"] = SettledAs(y, "under_review", y.loss, y.entry)
    BY <1>1 DEF Discrepancy, SettledAs
  <2>2. gaps' = [gaps EXCEPT ![d] = [y EXCEPT !.status = "under_review"]]
    BY DEF ReviewCashDiscrepancy
  <2> QED
    BY <2>1, <2>2
<1>4. gaps[d].status = "open" /\ SettlesAs(d, "under_review", y.loss, y.entry)
  BY <1>2, <1>3 DEF ReviewCashDiscrepancy, SettlesAs
<1>5. /\ gaps' \in Seq(Discrepancy)
      /\ \E x \in Discrepancy :
            /\ Changed(gaps', gaps, d, x)
            /\ x.handover = gaps[d].handover /\ x.difference = gaps[d].difference
            /\ x.status = "under_review" /\ x.entry = y.entry /\ x.loss = y.loss
  BY <1>4, GapChanges
<1> QED
  BY <1>4, <1>5, Zenon

\* A discrepancy is settled, and its handover with it.
LEMMA Resolves ==
    ASSUME AfterHoursTypeOK, StoryInv, FinanceTypeOK, NEW d \in DOMAIN gaps,
           NEW outcome \in {"resolved", "waived"}, NEW recover \in BOOLEAN, NEW adjust \in BOOLEAN,
           ResolveCashDiscrepancy(d, outcome, recover, adjust)
    PROVE  LET h == gaps[d].handover
           IN  /\ sessions' \in Seq(Session) /\ handovers' \in Seq(Handover)
               /\ gaps' \in Seq(Discrepancy) /\ h \in DOMAIN handovers
               /\ gaps[d].status \in {"open", "under_review"}
               /\ \E x \in Session, y \in Handover :
                     /\ Stands(handovers[h].session, h, x, y, "reconciled", "reconciled")
                     /\ y.actual = handovers[h].actual /\ y.gap = handovers[h].gap
               /\ \E x \in Discrepancy :
                     /\ Changed(gaps', gaps, d, x)
                     /\ x.handover = h /\ x.difference = gaps[d].difference
                     /\ x.status = outcome /\ x.loss = recover
                     /\ x.entry = IF adjust THEN Len(ledger) + 1 ELSE 0
               /\ recover => outcome = "resolved" /\ gaps[d].difference < 0
               /\ adjust => Adjusts(d)
<1> DEFINE h == gaps[d].handover
           s == handovers[h].session
           y == handovers[h]
           n == IF adjust THEN Len(ledger) + 1 ELSE 0
<1>1. h \in DOMAIN handovers
  BY DEF StoryInv, GapFits
<1>2. s \in DOMAIN sessions /\ sessions[s] \in Session /\ y \in Handover
  BY <1>1, HandoverKnown
<1>3. n \in Nat
  BY LenProperties DEF FinanceTypeOK
<1>4. sessions' = [sessions EXCEPT ![s] = [sessions[s] EXCEPT !.handoverStatus = "reconciled",
                                                              !.status = "reconciled"]]
  BY <1>2 DEF ResolveCashDiscrepancy, WithHandover
<1>5. handovers' = [handovers EXCEPT ![h] = CountedAs(y, "reconciled", y.actual, y.gap)]
  <2>1. [y EXCEPT !.status = "reconciled"] = CountedAs(y, "reconciled", y.actual, y.gap)
    BY <1>2 DEF Handover, CountedAs
  <2>2. handovers' = [handovers EXCEPT ![h] = [y EXCEPT !.status = "reconciled"]]
    BY DEF ResolveCashDiscrepancy
  <2> QED
    BY <2>1, <2>2
<1>6. gaps' = [gaps EXCEPT ![d] = SettledAs(gaps[d], outcome, recover, n)]
  BY DEF ResolveCashDiscrepancy, SettledAs, NextNumber
<1>7. /\ gaps[d].status \in {"open", "under_review"}
      /\ recover => outcome = "resolved" /\ gaps[d].difference < 0
      /\ adjust => Adjusts(d)
  BY DEF ResolveCashDiscrepancy, Adjusts, billingVars
<1>8. /\ HandsTo(s, "reconciled", "reconciled") /\ CountsAs(h, "reconciled", y.actual, y.gap)
      /\ SettlesAs(d, outcome, recover, n)
  BY <1>1, <1>2, <1>3, <1>4, <1>5, <1>6 DEF Handover, HandoverStates, HandsTo, CountsAs, SettlesAs
<1> HIDE DEF h, s, y, n
<1>9. PICK x \in Session : /\ Changed(sessions', sessions, s, x) /\ SameCash(x, sessions[s])
                           /\ x.status = "reconciled" /\ x.handoverStatus = "reconciled"
                           /\ sessions' \in Seq(Session)
  BY <1>8, Hands
<1>10. y = handovers[h]
  BY DEF y
<1>11. PICK z \in Handover :
          /\ Changed(handovers', handovers, h, z) /\ handovers' \in Seq(Handover)
          /\ z.session = handovers[h].session /\ z.expected = handovers[h].expected
          /\ z.since = handovers[h].since /\ z.reminded = handovers[h].reminded
          /\ z.status = "reconciled" /\ z.actual = y.actual /\ z.gap = y.gap
  BY <1>8, <1>10, HandoverChanges
<1>12. /\ gaps' \in Seq(Discrepancy)
       /\ \E g \in Discrepancy :
                 /\ Changed(gaps', gaps, d, g)
                 /\ g.handover = gaps[d].handover /\ g.difference = gaps[d].difference
                 /\ g.status = outcome /\ g.entry = n /\ g.loss = recover
  BY <1>8, GapChanges
<1>13. Stands(s, h, x, z, "reconciled", "reconciled")
  BY <1>9, <1>11 DEF Stands, s
<1>14. /\ s = handovers[gaps[d].handover].session /\ h = gaps[d].handover
       /\ n = IF adjust THEN Len(ledger) + 1 ELSE 0
  BY DEF s, h, n
<1> QED
  BY <1>1, <1>7, <1>9, <1>10, <1>11, <1>12, <1>13, <1>14, Zenon

\* A reminder is claimed, or the handover was counted or claimed meanwhile.
LEMMA Claims ==
    ASSUME AfterHoursTypeOK, NEW p, NEW h \in DOMAIN handovers, SweepClaims(p, h)
    PROVE  /\ handovers' \in Seq(Handover) /\ DOMAIN handovers' = DOMAIN handovers
           /\ \A i \in DOMAIN handovers :
                 /\ handovers'[i].session = handovers[i].session
                 /\ handovers'[i].expected = handovers[i].expected
                 /\ handovers'[i].actual = handovers[i].actual
                 /\ handovers'[i].status = handovers[i].status
                 /\ handovers'[i].gap = handovers[i].gap
                 /\ handovers'[i].reminded = (handovers[i].reminded \/ (i = h /\ Claimable(h)))
<1>1. \A i \in DOMAIN handovers : handovers[i] \in Handover
  BY DocumentTypes
<1>2. handovers \in Seq(Handover)
  BY DEF AfterHoursTypeOK
<1>3. CASE Claimable(h)
  <2> DEFINE x == [handovers[h] EXCEPT !.reminded = TRUE]
  <2>1. /\ x \in Handover /\ x.session = handovers[h].session
        /\ x.expected = handovers[h].expected /\ x.actual = handovers[h].actual
        /\ x.status = handovers[h].status /\ x.gap = handovers[h].gap /\ x.reminded = TRUE
    BY <1>1 DEF Handover
  <2>2. handovers' = [handovers EXCEPT ![h] = x]
    BY <1>3 DEF SweepClaims
  <2> HIDE DEF x
  <2>3. handovers' \in Seq(Handover) /\ Changed(handovers', handovers, h, x)
    BY <1>2, <2>1, <2>2, Change, Zenon
  <2>4. ASSUME NEW i \in DOMAIN handovers
        PROVE  handovers'[i].reminded = (handovers[i].reminded \/ (i = h /\ Claimable(h)))
    <3>1. CASE i = h
      BY <1>3, <2>1, <2>3, <3>1, Zenon DEF Changed
    <3>2. CASE i # h
      <4>1. handovers'[i] = handovers[i] /\ handovers[i].reminded \in BOOLEAN
        BY <1>1, <2>3, <3>2 DEF Changed, Handover
      <4> QED
        BY <3>2, <4>1, Zenon
    <3> QED
      BY <3>1, <3>2
  <2> QED
    BY <2>1, <2>3, <2>4 DEF Changed
<1>4. CASE ~Claimable(h)
  <2>1. handovers' = handovers
    BY <1>4 DEF SweepClaims
  <2>2. ASSUME NEW i \in DOMAIN handovers
        PROVE  handovers'[i].reminded = (handovers[i].reminded \/ (i = h /\ Claimable(h)))
    <3>1. handovers[i].reminded \in BOOLEAN
      BY <1>1 DEF Handover
    <3> QED
      BY <1>4, <2>1, <3>1, Zenon
  <2> QED
    BY <1>2, <2>1, <2>2
<1> QED
  BY <1>3, <1>4

-----------------------------------------------------------------------------
(* Payments, as the sessions see them *)

\* A payment is taken into session t (0: no session), in cash or not.
PaidInto(t, n, inCash) ==
    /\ \E i \in Nat : Grown(payments', payments, [invoice |-> i, amount |-> n,
                                                  entry |-> Len(ledger) + 1, live |-> TRUE])
    /\ takenIn' = Append(takenIn, t)
    /\ ledger'[Len(ledger) + 1].to = Cash <=> inCash

\* What a customer pays is an entry of the ledger.
LEMMA CustomerEntry ==
    ASSUME NEW n \in Amount, NEW a \in AccountIds
    PROVE  /\ NewEntry("customer_payment", n, None, a) \in Entry
           /\ NewEntry("customer_payment", n, None, a).to = a
<1>1. /\ "customer_payment" \in PostingTypes
      /\ None \in AccountIds \cup {None} /\ a \in AccountIds \cup {None}
  BY DEF PostingTypes
<1>2. NewEntry("customer_payment", n, None, a) \in Entry
  BY <1>1, NewEntryType
<1>3. NewEntry("customer_payment", n, None, a).to = a
  BY DEF NewEntry
<1> QED
  BY <1>2, <1>3

\* The method decides which account the money goes to.
LEMMA PaymentTaken ==
    ASSUME BillInv, NEW t, NEW r, NEW i \in DOMAIN invoices, NEW method \in Methods,
           NEW n \in Amounts, RecordPayment(r, i, method, None, n), takenIn' = Append(takenIn, t)
    PROVE  PaidInto(t, n, method = Cash) /\ n \in Nat
<1> DEFINE p == [invoice |-> i, amount |-> n, entry |-> Len(ledger) + 1, live |-> TRUE]
<1>1. /\ ledger \in Seq(Entry) /\ Len(ledger) \in Nat /\ payments \in Seq(Payment)
      /\ accounts \in [AccountIds -> Account] /\ AwaitingOK(accounts) /\ FinanceTypeOK
  BY LenProperties DEF BillInv, MoneyInv, EntriesKnown, FinanceTypeOK
<1>2. n \in Amount /\ n \in Nat /\ i \in Nat
  BY BoundAssumption, AppendAny DEF Amount, BillInv, InvoicesKnown
<1>3. payments' = Append(payments, p)
  BY DEF RecordPayment, NextNumber
<1>4. p \in Payment
  BY <1>1, <1>2 DEF Payment
<1> HIDE DEF p
<1>5. Grown(payments', payments, p)
  BY <1>1, <1>3, <1>4, Growth
<1>6. PICK a \in AccountIds :
         /\ PaymentGoesTo(method, None, a) /\ accounts[a].type = DefaultType(method)
         /\ Post(NewEntry("customer_payment", n, None, a))
  BY DEF RecordPayment, PostCustomerPayment
<1> DEFINE e == NewEntry("customer_payment", n, None, a)
<1>7. e \in Entry /\ e.to = a
  BY <1>2, CustomerEntry
<1> HIDE DEF e
<1>8. ledger'[Len(ledger) + 1].to = a
  <2>1. Commit(accounts, ledger, e)
    BY <1>6 DEF Post, e
  <2>2. ledger'[Len(ledger) + 1] = [e EXCEPT !.day = day]
    BY <1>1, <1>7, <2>1, LedgerAfterCommit
  <2> QED
    BY <1>7, <2>2, Dated
<1>9. a = Cash <=> method = Cash
  <2>1. accounts[a].type = "cash" <=> a = Cash
    BY <1>1 DEF AwaitingOK
  <2>2. CASE method = Bank1
    BY <1>6, <2>1, <2>2, AccountAssumption DEF DefaultType
  <2>3. CASE method # Bank1
    BY <1>6, <2>3 DEF PaymentGoesTo
  <2> QED
    BY <2>2, <2>3
<1>10. \E x \in Nat : Grown(payments', payments, [invoice |-> x, amount |-> n,
                                                 entry |-> Len(ledger) + 1, live |-> TRUE])
  BY <1>2, <1>5 DEF p
<1> QED
  BY <1>2, <1>8, <1>9, <1>10 DEF PaidInto

\* A live payment is taken back.
PaymentLost(k) ==
    /\ payments[k].live /\ payments[k] \in Payment
    /\ Changed(payments', payments, k, [payments[k] EXCEPT !.live = FALSE])
    /\ UNCHANGED takenIn

LEMMA PaymentReversed ==
    ASSUME BillInv, NEW k \in DOMAIN payments, ReverseAnyPayment(k)
    PROVE  PaymentLost(k)
<1> DEFINE x == [payments[k] EXCEPT !.live = FALSE]
<1>1. payments \in Seq(Payment) /\ payments[k] \in Payment
  BY ElementOfSeq DEF BillInv, EntriesKnown
<1>2. x \in Payment
  BY <1>1 DEF Payment
<1>3. payments' = [payments EXCEPT ![k] = x]
  BY DEF ReverseAnyPayment, ReversePayment
<1> HIDE DEF x
<1>4. Changed(payments', payments, k, x)
  BY <1>1, <1>2, <1>3, Change, Zenon
<1> QED
  BY <1>1, <1>4 DEF PaymentLost, ReverseAnyPayment, ReversePayment, x

-----------------------------------------------------------------------------
(* Types *)

\* Every document is there, and of its shape.
LEMMA HoursTypeKept == HoursInv /\ [AfterHoursNext]_allVars => AfterHoursTypeOK'
<1> SUFFICES ASSUME HoursInv, [AfterHoursNext]_allVars PROVE AfterHoursTypeOK'
  OBVIOUS
<1>1. /\ BillInv /\ FinanceTypeOK /\ AfterHoursTypeOK /\ RefsInv /\ KeysInv /\ StoryInv
  BY DEF HoursInv, BillInv, MoneyInv
<1>2. /\ auths \in Seq(Authorization) /\ granted \in [Workers -> Nat]
      /\ sessions \in Seq(Session) /\ openSession \in [Workers -> Nat]
      /\ takenIn \in Seq(Nat) /\ Len(takenIn) = Len(payments) /\ Len(takenIn) \in Nat
      /\ custody \in Seq([session: Nat, delta: Int])
      /\ handovers \in Seq(Handover) /\ gaps \in Seq(Discrepancy) /\ now \in Nat
      /\ Len(auths) \in Nat
  BY <1>1, LenProperties DEF AfterHoursTypeOK
<1>3. ASSUME NEW w \in Workers, NEW window \in Windows, NEW float \in Floats,
             AuthorizeAfterHours(w, window, float)
      PROVE  AfterHoursTypeOK'
  <2>1. auths' \in Seq(Authorization)
    BY <1>1, <1>3, Authorizes
  <2>2. granted' \in [Workers -> Nat]
    BY <1>2, <1>3 DEF AuthorizeAfterHours
  <2> QED
    BY <1>2, <1>3, <2>1, <2>2 DEF AuthorizeAfterHours, AfterHoursTypeOK, sweepVars, billingVars
<1>4. ASSUME NEW a \in DOMAIN auths, RevokeAfterHours(a) PROVE AfterHoursTypeOK'
  <2>1. auths[a] \in Authorization
    BY <1>1, DocumentTypes
  <2>2. auths' \in Seq(Authorization)
    <3>1. [auths[a] EXCEPT !.status = "revoked"] \in Authorization
      BY <2>1 DEF Authorization
    <3> QED
      BY <1>2, <1>4, <3>1, ReplaceType DEF RevokeAfterHours
  <2>3. granted' \in [Workers -> Nat]
    BY <1>2, <1>4, <2>1 DEF RevokeAfterHours, Authorization
  <2> QED
    BY <1>2, <1>4, <2>2, <2>3 DEF RevokeAfterHours, AfterHoursTypeOK, sweepVars, billingVars
<1>5. ASSUME NEW w \in Workers, NEW a \in DOMAIN auths, OpenAfterHoursSession(w, a)
      PROVE  AfterHoursTypeOK'
  <2> DEFINE n == FloatFor(a)
             s == Len(sessions) + 1
  <2>1. /\ n \in Nat /\ s \in Nat /\ sessions' \in Seq(Session) /\ auths' \in Seq(Authorization)
        /\ openSession' = [openSession EXCEPT ![w] = s]
        /\ custody' = IF n > 0 THEN Append(custody, [session |-> s, delta |-> n]) ELSE custody
    BY <1>1, <1>5, Opens
  <2> HIDE DEF n, s
  <2>2. openSession' \in [Workers -> Nat]
    BY <1>2, <2>1
  <2>3. custody' \in Seq([session: Nat, delta: Int])
    <3>1. [session |-> s, delta |-> n] \in [session: Nat, delta: Int]
      BY <2>1
    <3> QED
      BY <1>2, <2>1, <3>1, AppendProperties
  <2> QED
    BY <1>2, <1>5, <2>1, <2>2, <2>3
       DEF OpenAfterHoursSession, AfterHoursTypeOK, sweepVars, billingVars
<1>6. ASSUME NEW s \in DOMAIN sessions, CloseAfterHoursSession(s) PROVE AfterHoursTypeOK'
  <2>1. /\ sessions' \in Seq(Session) /\ handovers' \in Seq(Handover)
        /\ openSession' = [openSession EXCEPT ![sessions[s].staff] = 0]
    BY <1>1, <1>6, Closes
  <2>2. openSession' \in [Workers -> Nat]
    BY <1>2, <2>1
  <2> QED
    BY <1>2, <1>6, <2>1, <2>2
       DEF CloseAfterHoursSession, AfterHoursTypeOK, sweepVars, billingVars
<1>7. ASSUME NEW s \in DOMAIN sessions, CancelAfterHoursSession(s) PROVE AfterHoursTypeOK'
  <2>1. /\ sessions' \in Seq(Session)
        /\ openSession' = [openSession EXCEPT ![sessions[s].staff] = 0]
    BY <1>1, <1>7, Cancels
  <2>2. openSession' \in [Workers -> Nat]
    BY <1>2, <2>1
  <2> QED
    BY <1>2, <1>7, <2>1, <2>2
       DEF CancelAfterHoursSession, AfterHoursTypeOK, sweepVars, billingVars
<1>8. ASSUME NEW j \in Intakes, InvoiceJob(j) PROVE AfterHoursTypeOK'
  BY <1>2, <1>8 DEF InvoiceJob, CreateInvoice, AfterHoursTypeOK, businessVars, sweepVars
<1>9. ASSUME NEW t \in Nat, NEW n, NEW inCash, PaidInto(t, n, inCash)
      PROVE  takenIn' \in Seq(Nat) /\ Len(takenIn') = Len(payments')
  BY <1>2, <1>9, AppendProperties DEF PaidInto, Grown
<1>10. ASSUME NEW r \in NextRequest, NEW i \in DOMAIN invoices, NEW method \in Methods,
              NEW n \in Amounts, CashierRecordsPayment(r, i, method, n)
       PROVE  AfterHoursTypeOK'
  <2>1. PaidInto(0, n, method = Cash)
    BY <1>1, <1>10, PaymentTaken DEF CashierRecordsPayment
  <2>2. takenIn' \in Seq(Nat) /\ Len(takenIn') = Len(payments')
    BY <1>9, <2>1
  <2> QED
    BY <1>2, <1>10, <2>2 DEF CashierRecordsPayment, AfterHoursTypeOK, sweepVars
<1>11. ASSUME NEW r \in NextRequest, NEW i \in DOMAIN invoices, NEW method \in Methods,
              NEW n \in Amounts, NEW w \in Workers, WorkerRecordsPayment(w, r, i, method, n)
       PROVE  AfterHoursTypeOK'
  <2> DEFINE s == openSession[w]
             p == IF method = Cash THEN n ELSE 0
  <2>1. PaidInto(s, n, method = Cash) /\ n \in Nat
    BY <1>1, <1>11, PaymentTaken DEF WorkerRecordsPayment
  <2>2. takenIn' \in Seq(Nat) /\ Len(takenIn') = Len(payments')
    BY <1>2, <1>9, <2>1
  <2>3. sessions' \in Seq(Session)
    BY <1>1, <1>11, Takes DEF TakesInto
  <2>4. custody' \in Seq([session: Nat, delta: Int])
    BY <1>2, <1>11, <2>1, AppendProperties DEF WorkerRecordsPayment
  <2> QED
    BY <1>2, <1>11, <2>2, <2>3, <2>4 DEF WorkerRecordsPayment, AfterHoursTypeOK, sweepVars
<1>12. ASSUME NEW k \in DOMAIN payments, ReverseAnyPayment(k) PROVE AfterHoursTypeOK'
  <2>1. Len(payments') = Len(payments) /\ takenIn' = takenIn
    BY <1>1, <1>12, PaymentReversed DEF PaymentLost, Changed
  <2>2. sessions' \in Seq(Session) /\ custody' \in Seq([session: Nat, delta: Int])
    <3>1. CASE takenIn[k] = 0
      BY <1>2, <1>12, <3>1 DEF ReverseAnyPayment
    <3>2. CASE takenIn[k] # 0
      <4> DEFINE s == takenIn[k]
                 p == IF IsCash(k) THEN payments[k].amount ELSE 0
                 d == IF sessions[s].status = "open" THEN -p ELSE 0
      <4>1. /\ s \in DOMAIN sessions /\ p \in Nat /\ sessions' \in Seq(Session)
            /\ custody' = Append(custody, [session |-> s, delta |-> d])
        BY <1>1, <1>12, <3>2, Returns
      <4>2. s \in Nat
        BY <1>1, <4>1, DocumentTypes
      <4> HIDE DEF s, p
      <4>3. [session |-> s, delta |-> d] \in [session: Nat, delta: Int]
        BY <4>1, <4>2
      <4> HIDE DEF d
      <4> QED
        BY <1>2, <4>1, <4>3, AppendProperties
    <3> QED
      BY <3>1, <3>2
  <2> QED
    BY <1>2, <1>12, <2>1, <2>2 DEF ReverseAnyPayment, AfterHoursTypeOK, sweepVars
<1>13. ASSUME NEW h \in DOMAIN handovers, SubmitCashHandover(h) PROVE AfterHoursTypeOK'
  <2>1. sessions' \in Seq(Session) /\ handovers' \in Seq(Handover)
    BY <1>1, <1>13, Submits
  <2> QED
    BY <1>2, <1>13, <2>1 DEF SubmitCashHandover, AfterHoursTypeOK, sweepVars, billingVars
<1>14. ASSUME NEW h \in DOMAIN handovers, NEW actual \in Counted, ReceiveCashHandover(h, actual)
       PROVE  AfterHoursTypeOK'
  <2>1. sessions' \in Seq(Session) /\ handovers' \in Seq(Handover) /\ gaps' \in Seq(Discrepancy)
    BY <1>1, <1>14, Receives
  <2> QED
    BY <1>2, <1>14, <2>1 DEF ReceiveCashHandover, AfterHoursTypeOK, sweepVars, billingVars
<1>15. ASSUME NEW d \in DOMAIN gaps, ReviewCashDiscrepancy(d) PROVE AfterHoursTypeOK'
  <2>1. gaps' \in Seq(Discrepancy)
    BY <1>1, <1>15, Reviews
  <2> QED
    BY <1>2, <1>15, <2>1 DEF ReviewCashDiscrepancy, AfterHoursTypeOK, sweepVars, billingVars
<1>16. ASSUME NEW d \in DOMAIN gaps, NEW outcome \in {"resolved", "waived"},
              NEW recover \in BOOLEAN, NEW adjust \in BOOLEAN,
              ResolveCashDiscrepancy(d, outcome, recover, adjust)
       PROVE  AfterHoursTypeOK'
  <2>1. sessions' \in Seq(Session) /\ handovers' \in Seq(Handover) /\ gaps' \in Seq(Discrepancy)
    BY <1>1, <1>16, Resolves
  <2> QED
    BY <1>2, <1>16, <2>1 DEF ResolveCashDiscrepancy, AfterHoursTypeOK, sweepVars, billingVars
<1>17. CASE Tick
  BY <1>2, <1>17 DEF Tick, AfterHoursTypeOK, businessVars, billingVars
<1>18. ASSUME NEW a \in DOMAIN auths, ExpireAuthorization(a) PROVE AfterHoursTypeOK'
  <2>1. auths[a] \in Authorization
    BY <1>1, DocumentTypes
  <2>2. auths' \in Seq(Authorization)
    <3>1. [auths[a] EXCEPT !.status = "expired"] \in Authorization
      BY <2>1 DEF Authorization
    <3> QED
      BY <1>2, <1>18, <3>1, ReplaceType DEF ExpireAuthorization
  <2> QED
    BY <1>2, <1>18, <2>2 DEF ExpireAuthorization, AfterHoursTypeOK, sweepVars, billingVars
<1>19. ASSUME NEW p, NEW a \in DOMAIN auths, SweepWarns(p, a) PROVE AfterHoursTypeOK'
  <2>1. auths[a] \in Authorization
    BY <1>1, DocumentTypes
  <2>2. auths' \in Seq(Authorization)
    <3>1. [auths[a] EXCEPT !.warned = TRUE] \in Authorization
      BY <2>1 DEF Authorization
    <3> QED
      BY <1>2, <1>19, <3>1, ReplaceType DEF SweepWarns
  <2> QED
    BY <1>2, <1>19, <2>2 DEF SweepWarns, AfterHoursTypeOK, billingVars
<1>20. ASSUME NEW p, NEW h \in DOMAIN handovers, SweepClaims(p, h) PROVE AfterHoursTypeOK'
  <2>1. handovers' \in Seq(Handover)
    BY <1>1, <1>20, Claims
  <2> QED
    BY <1>2, <1>20, <2>1 DEF SweepClaims, AfterHoursTypeOK, billingVars
<1>21. ASSUME NEW p, SweepReadsEnding(p) \/ SweepReadsOpen(p) \/ SweepReminds(p) \/ SweepDies(p)
       PROVE  AfterHoursTypeOK'
  BY <1>2, <1>21 DEF SweepReadsEnding, SweepReadsOpen, SweepReminds, SweepDies,
                     AfterHoursTypeOK, businessVars, billingVars
<1>22. CASE UNCHANGED allVars
  BY <1>2, <1>22 DEF allVars, AfterHoursTypeOK, afterHoursVars, billingVars
<1>23. CASE Authorizing \/ Working
  BY <1>23, <1>3, <1>4, <1>5, <1>6, <1>7 DEF Authorizing, Working
<1>24. CASE Collecting
  BY <1>24, <1>8, <1>10, <1>11, <1>12 DEF Collecting
<1>25. CASE HandingOver
  BY <1>25, <1>13, <1>14, <1>15, <1>16 DEF HandingOver
<1>26. CASE Housekeeping
  BY <1>26, <1>18, <1>19, <1>20, <1>21 DEF Housekeeping, SweepStep, Sweep
<1> QED
  BY <1>17, <1>22, <1>23, <1>24, <1>25, <1>26 DEF AfterHoursNext

-----------------------------------------------------------------------------
(* What a step does to sessions, floats and cash *)

\* Authorisations keep their floats, and a new one has not given it out.
AuthsStand ==
    /\ DOMAIN auths \subseteq DOMAIN auths'
    /\ \A a \in DOMAIN auths : /\ auths'[a].float = auths[a].float
                               /\ auths'[a].floatSession = auths[a].floatSession
    /\ \A a \in DOMAIN auths' \ DOMAIN auths : auths'[a].floatSession = 0

\* No session and no cash is touched.
SessionsRest ==
    AuthsStand /\ UNCHANGED <<sessions, openSession, takenIn, custody, payments>>

\* A cashier is paid, and no session has to do with it.
CashierPaid ==
    /\ \E n \in Nat, inCash \in BOOLEAN : PaidInto(0, n, inCash)
    /\ UNCHANGED <<sessions, openSession, custody, auths>>

\* A worker is paid into the session that is open.
WorkerPaid ==
    \E w \in Workers, n \in Amounts, method \in Methods :
        /\ \E r \in NextRequest, i \in DOMAIN invoices : WorkerRecordsPayment(w, r, i, method, n)
        /\ PaidInto(openSession[w], n, method = Cash)

\* A session that is over is told how its handover stands.
HandsOver ==
    /\ \E s \in DOMAIN sessions, x \in Session :
          /\ Changed(sessions', sessions, s, x) /\ SameCash(x, sessions[s])
          /\ sessions[s].status \in {"handover_pending", "reconciled"}
          /\ x.status \in {"handover_pending", "reconciled"}
    /\ UNCHANGED <<auths, openSession, takenIn, custody, payments>>

HoursShapes ==
    \/ SessionsRest \/ CashierPaid \/ WorkerPaid \/ HandsOver
    \/ \E w \in Workers, a \in DOMAIN auths : OpenAfterHoursSession(w, a)
    \/ \E s \in DOMAIN sessions : CloseAfterHoursSession(s) \/ CancelAfterHoursSession(s)
    \/ \E k \in DOMAIN payments : ReverseAnyPayment(k)

LEMMA AuthsUntouched == UNCHANGED auths => AuthsStand
BY DEF AuthsStand

\* Every step has one of these shapes.
LEMMA HoursShape == HoursInv /\ [AfterHoursNext]_allVars => HoursShapes
<1> SUFFICES ASSUME HoursInv, [AfterHoursNext]_allVars PROVE HoursShapes
  OBVIOUS
<1>1. BillInv /\ FinanceTypeOK /\ AfterHoursTypeOK /\ StoryInv
  BY DEF HoursInv, BillInv, MoneyInv
<1>2. \A a \in DOMAIN auths : auths[a] \in Authorization
  BY <1>1, DocumentTypes
<1>3. ASSUME NEW w \in Workers, NEW window \in Windows, NEW float \in Floats,
             AuthorizeAfterHours(w, window, float)
      PROVE  SessionsRest
  <2>1. Grown(auths', auths, NewAuthorization(w, window, float))
    BY <1>1, <1>3, Authorizes
  <2>2. AuthsStand
    BY <2>1 DEF AuthsStand, Grown, NewAuthorization
  <2> QED
    BY <1>3, <2>2 DEF SessionsRest, AuthorizeAfterHours, billingVars
<1>4. ASSUME NEW a \in DOMAIN auths, NEW x, auths' = [auths EXCEPT ![a] = x],
             x.float = auths[a].float, x.floatSession = auths[a].floatSession
      PROVE  AuthsStand
  BY <1>4 DEF AuthsStand
<1>5. ASSUME NEW a \in DOMAIN auths, RevokeAfterHours(a) PROVE SessionsRest
  <2> DEFINE x == [auths[a] EXCEPT !.status = "revoked"]
  <2>1. x.float = auths[a].float /\ x.floatSession = auths[a].floatSession
    BY <1>2 DEF Authorization
  <2>2. auths' = [auths EXCEPT ![a] = x]
    BY <1>5 DEF RevokeAfterHours
  <2> HIDE DEF x
  <2>3. AuthsStand
    BY <1>4, <2>1, <2>2
  <2> QED
    BY <1>5, <2>3 DEF SessionsRest, RevokeAfterHours, billingVars
<1>6. ASSUME NEW a \in DOMAIN auths, ExpireAuthorization(a) PROVE SessionsRest
  <2> DEFINE x == [auths[a] EXCEPT !.status = "expired"]
  <2>1. x.float = auths[a].float /\ x.floatSession = auths[a].floatSession
    BY <1>2 DEF Authorization
  <2>2. auths' = [auths EXCEPT ![a] = x]
    BY <1>6 DEF ExpireAuthorization
  <2> HIDE DEF x
  <2>3. AuthsStand
    BY <1>4, <2>1, <2>2
  <2> QED
    BY <1>6, <2>3 DEF SessionsRest, ExpireAuthorization, billingVars
<1>7. ASSUME NEW p, NEW a \in DOMAIN auths, SweepWarns(p, a) PROVE SessionsRest
  <2> DEFINE x == [auths[a] EXCEPT !.warned = TRUE]
  <2>1. x.float = auths[a].float /\ x.floatSession = auths[a].floatSession
    BY <1>2 DEF Authorization
  <2>2. auths' = [auths EXCEPT ![a] = x]
    BY <1>7 DEF SweepWarns
  <2> HIDE DEF x
  <2>3. AuthsStand
    BY <1>4, <2>1, <2>2
  <2> QED
    BY <1>7, <2>3 DEF SessionsRest, SweepWarns, billingVars
<1>8. ASSUME NEW p, NEW h, SweepClaims(p, h) PROVE SessionsRest
  BY <1>8, AuthsUntouched DEF SweepClaims, SessionsRest, billingVars
<1>9. ASSUME NEW p, SweepReadsEnding(p) \/ SweepReadsOpen(p) \/ SweepReminds(p) \/ SweepDies(p)
      PROVE  SessionsRest
  BY <1>9, AuthsUntouched DEF SweepReadsEnding, SweepReadsOpen, SweepReminds, SweepDies,
                              SessionsRest, businessVars, billingVars
<1>10. ASSUME Tick PROVE SessionsRest
  BY <1>10, AuthsUntouched DEF Tick, SessionsRest, businessVars, billingVars
<1>11. ASSUME UNCHANGED allVars PROVE SessionsRest
  BY <1>11, AuthsUntouched DEF allVars, SessionsRest, afterHoursVars, billingVars
<1>12. ASSUME NEW d, ReviewCashDiscrepancy(d) PROVE SessionsRest
  BY <1>12, AuthsUntouched DEF ReviewCashDiscrepancy, SessionsRest, billingVars
<1>13. ASSUME NEW j, InvoiceJob(j) PROVE SessionsRest
  BY <1>13, AuthsUntouched DEF InvoiceJob, CreateInvoice, SessionsRest, businessVars
<1>14. ASSUME NEW r \in NextRequest, NEW i \in DOMAIN invoices, NEW method \in Methods,
              NEW n \in Amounts, CashierRecordsPayment(r, i, method, n)
       PROVE  CashierPaid
  <2>1. PaidInto(0, n, method = Cash) /\ n \in Nat
    BY <1>1, <1>14, PaymentTaken DEF CashierRecordsPayment
  <2>2. (method = Cash) \in BOOLEAN
    OBVIOUS
  <2>3. \E inCash \in BOOLEAN : PaidInto(0, n, inCash)
    BY <2>1, <2>2, Zenon
  <2> QED
    BY <1>14, <2>1, <2>3 DEF CashierPaid, CashierRecordsPayment
<1>15. ASSUME NEW r \in NextRequest, NEW i \in DOMAIN invoices, NEW method \in Methods,
              NEW n \in Amounts, NEW w \in Workers, WorkerRecordsPayment(w, r, i, method, n)
       PROVE  WorkerPaid
  <2>1. PaidInto(openSession[w], n, method = Cash)
    BY <1>1, <1>15, PaymentTaken DEF WorkerRecordsPayment
  <2> QED
    BY <1>15, <2>1, Zenon DEF WorkerPaid
<1>16. ASSUME NEW h \in DOMAIN handovers, NEW x \in Session, NEW y, NEW status, NEW standing,
              Stands(handovers[h].session, h, x, y, status, standing),
              status \in {"handover_pending", "reconciled"},
              UNCHANGED <<auths, openSession, takenIn, custody, payments>>
       PROVE  HandsOver
  <2>1. /\ handovers[h].session \in DOMAIN sessions
        /\ sessions[handovers[h].session].status \in {"handover_pending", "reconciled"}
    BY <1>1, HandoverKnown
  <2> QED
    BY <1>16, <2>1 DEF HandsOver, Stands
<1>17. ASSUME NEW h \in DOMAIN handovers, SubmitCashHandover(h) PROVE HandsOver
  <2>1. \E x \in Session, y \in Handover :
           Stands(handovers[h].session, h, x, y, "handover_pending", "submitted")
    BY <1>1, <1>17, Submits
  <2>2. UNCHANGED <<auths, openSession, takenIn, custody, payments>>
    BY <1>17 DEF SubmitCashHandover, billingVars
  <2> QED
    BY <1>16, <2>1, <2>2
<1>18. ASSUME NEW h \in DOMAIN handovers, NEW actual \in Counted, ReceiveCashHandover(h, actual)
       PROVE  HandsOver
  <2> DEFINE n == actual - handovers[h].expected
             status == IF n = 0 THEN "reconciled" ELSE "handover_pending"
             standing == IF n = 0 THEN "received" ELSE "discrepancy"
  <2>1. \E x \in Session, y \in Handover :
           Stands(handovers[h].session, h, x, y, status, standing)
    BY <1>1, <1>18, Receives
  <2>2. UNCHANGED <<auths, openSession, takenIn, custody, payments>>
    BY <1>18 DEF ReceiveCashHandover, billingVars
  <2>3. status \in {"handover_pending", "reconciled"}
    OBVIOUS
  <2> HIDE DEF status, standing
  <2> QED
    BY <1>16, <2>1, <2>2, <2>3
<1>19. ASSUME NEW d \in DOMAIN gaps, NEW outcome \in {"resolved", "waived"},
              NEW recover \in BOOLEAN, NEW adjust \in BOOLEAN,
              ResolveCashDiscrepancy(d, outcome, recover, adjust)
       PROVE  HandsOver
  <2>1. /\ gaps[d].handover \in DOMAIN handovers
        /\ \E x \in Session, y \in Handover :
              Stands(handovers[gaps[d].handover].session, gaps[d].handover, x, y,
                     "reconciled", "reconciled")
    BY <1>1, <1>19, Resolves
  <2>2. UNCHANGED <<auths, openSession, takenIn, custody, payments>>
    BY <1>19 DEF ResolveCashDiscrepancy, billingVars
  <2> QED
    BY <1>16, <2>1, <2>2
<1>20. SessionsRest \/ CashierPaid \/ WorkerPaid \/ HandsOver => HoursShapes
  BY DEF HoursShapes
<1>21. CASE Authorizing
  BY <1>21, <1>3, <1>5, <1>20 DEF Authorizing
<1>22. CASE Working
  BY <1>22 DEF Working, HoursShapes
<1>23. ASSUME NEW k \in DOMAIN payments, ReverseAnyPayment(k) PROVE HoursShapes
  BY <1>23 DEF HoursShapes
<1>24. CASE Collecting
  BY <1>24, <1>13, <1>14, <1>15, <1>20, <1>23 DEF Collecting
<1>25. CASE HandingOver
  BY <1>25, <1>12, <1>17, <1>18, <1>19, <1>20 DEF HandingOver
<1>26. CASE Housekeeping
  BY <1>26, <1>6, <1>7, <1>8, <1>9, <1>20 DEF Housekeeping, SweepStep, Sweep
<1> QED
  BY <1>10, <1>11, <1>20, <1>21, <1>22, <1>24, <1>25, <1>26 DEF AfterHoursNext

\* Whose session it is, with which float, whether it is open, and that nothing is
\* left in it once it is over: most steps leave that alone.
StillThat(x, y) ==
    /\ x.staff = y.staff /\ x.auth = y.auth /\ x.float = y.float
    /\ x.status = "open" <=> y.status = "open"
    /\ Empty(y) => Empty(x)
SessionsStand ==
    /\ openSession' = openSession
    /\ Len(sessions') = Len(sessions) /\ DOMAIN sessions' = DOMAIN sessions
    /\ \A s \in DOMAIN sessions : StillThat(sessions'[s], sessions[s])

StandingShapes ==
    \/ SessionsRest \/ CashierPaid \/ WorkerPaid \/ HandsOver
    \/ \E k \in DOMAIN payments : ReverseAnyPayment(k)

LEMMA SessionsStanding == HoursInv /\ StandingShapes => SessionsStand /\ AuthsStand
<1> SUFFICES ASSUME HoursInv, StandingShapes PROVE SessionsStand /\ AuthsStand
  OBVIOUS
<1>1. /\ BillInv /\ AfterHoursTypeOK /\ RefsInv /\ KeysInv
  BY DEF HoursInv
<1>2. ASSUME UNCHANGED <<sessions, openSession>> PROVE SessionsStand
  BY <1>2 DEF SessionsStand, StillThat
<1>3. ASSUME NEW s, NEW x, Changed(sessions', sessions, s, x), StillThat(x, sessions[s]),
             openSession' = openSession
      PROVE  SessionsStand
  BY <1>3 DEF SessionsStand, StillThat, Changed
<1>4. CASE SessionsRest
  BY <1>2, <1>4 DEF SessionsRest
<1>5. CASE CashierPaid
  BY <1>2, <1>5, AuthsUntouched DEF CashierPaid
<1>6. CASE WorkerPaid
  <2>1. PICK w \in Workers, n \in Amounts, method \in Methods,
                r \in NextRequest, i \in DOMAIN invoices :
           WorkerRecordsPayment(w, r, i, method, n)
    BY <1>6 DEF WorkerPaid
  <2> DEFINE s == openSession[w]
             p == IF method = Cash THEN n ELSE 0
  <2>2. TakesInto(s, p)
    BY <1>1, <2>1, Takes
  <2> HIDE DEF s, p
  <2>3. \E x : Changed(sessions', sessions, s, x) /\ StillThat(x, sessions[s])
    BY <2>2 DEF TakesInto, StillThat, Empty
  <2>6. UNCHANGED <<openSession, auths>>
    BY <2>1 DEF WorkerRecordsPayment
  <2> QED
    BY <1>3, <2>3, <2>6, AuthsUntouched
<1>7. CASE HandsOver
  <2>1. PICK s \in DOMAIN sessions, x \in Session :
          /\ Changed(sessions', sessions, s, x) /\ SameCash(x, sessions[s])
          /\ sessions[s].status \in {"handover_pending", "reconciled"}
          /\ x.status \in {"handover_pending", "reconciled"}
    BY <1>7 DEF HandsOver
  <2>2. StillThat(x, sessions[s])
    BY <2>1 DEF StillThat, SameCash, Empty
  <2> QED
    BY <1>3, <1>7, <2>1, <2>2, AuthsUntouched DEF HandsOver
<1>8. ASSUME NEW k \in DOMAIN payments, ReverseAnyPayment(k) PROVE SessionsStand /\ AuthsStand
  <2>1. UNCHANGED <<openSession, auths>>
    BY <1>8 DEF ReverseAnyPayment
  <2>2. CASE takenIn[k] = 0
    <3>1. sessions' = sessions
      BY <1>8, <2>2 DEF ReverseAnyPayment
    <3> QED
      BY <1>2, <2>1, <3>1, AuthsUntouched
  <2>3. CASE takenIn[k] # 0
    <3> DEFINE s == takenIn[k]
               n == payments[k].amount
               p == IF IsCash(k) THEN n ELSE 0
               y == SessionReversed(sessions[s], n, p)
    <3>1. /\ s \in DOMAIN sessions /\ y \in Session /\ Changed(sessions', sessions, s, y)
          /\ y.status = sessions[s].status
          /\ y.staff = sessions[s].staff /\ y.auth = sessions[s].auth
          /\ y.float = sessions[s].float
          /\ sessions[s].status # "open" => y.expected = sessions[s].expected
      BY <1>1, <1>8, <2>3, Returns
    <3> HIDE DEF s, n, p, y
    <3>2. StillThat(y, sessions[s])
      BY <3>1 DEF StillThat, Empty
    <3> QED
      BY <1>3, <2>1, <3>1, <3>2, AuthsUntouched
  <2> QED
    BY <2>2, <2>3
<1> QED
  BY <1>4, <1>5, <1>6, <1>7, <1>8 DEF StandingShapes

\* A session is opened: it is the only one its person has open, with the float if
\* the authorisation still has it to give.
LEMMA Opening ==
    ASSUME HoursInv, NEW w \in Workers, NEW a \in DOMAIN auths, OpenAfterHoursSession(w, a)
    PROVE  KeysInv' /\ FloatsInv' /\ EmptyInv' /\ RefsInv'
<1> DEFINE n == FloatFor(a)
           t == Len(sessions) + 1
           x == NewSession(w, a, n)
<1>1. AfterHoursTypeOK /\ RefsInv /\ KeysInv /\ FloatsInv /\ EmptyInv
  BY DEF HoursInv
<1>2. /\ n \in Nat /\ t \in Nat
      /\ Grown(sessions', sessions, x)
      /\ openSession[w] = 0 /\ openSession' = [openSession EXCEPT ![w] = t]
      /\ DOMAIN auths' = DOMAIN auths
      /\ \A b \in DOMAIN auths :
            /\ auths'[b].float = auths[b].float
            /\ auths'[b].floatSession = IF b = a /\ n > 0 THEN t ELSE auths[b].floatSession
      /\ custody' = IF n > 0 THEN Append(custody, [session |-> t, delta |-> n]) ELSE custody
  BY <1>1, Opens
<1>3. /\ x.staff = w /\ x.auth = a /\ x.status = "open" /\ x.float = n
  BY DEF NewSession
<1>4. /\ DOMAIN sessions = 1..Len(sessions) /\ Len(sessions) \in Nat
      /\ openSession \in [Workers -> Nat]
      /\ custody \in Seq([session: Nat, delta: Int])
      /\ auths[a] \in Authorization
  BY <1>1, DocumentTypes DEF AfterHoursTypeOK
<1>5. n = IF auths[a].floatSession = 0 THEN auths[a].float ELSE 0
  BY DEF FloatFor
<1> HIDE DEF n, x
<1>6. /\ DOMAIN sessions' = DOMAIN sessions \cup {t} /\ t \notin DOMAIN sessions /\ t # 0
      /\ \A s \in DOMAIN sessions : sessions'[s] = sessions[s]
      /\ sessions'[t] = x /\ Len(sessions') = t
  BY <1>2, <1>4 DEF Grown
<1> HIDE DEF t
<1>7. KeysInv'
  <2> SUFFICES ASSUME NEW v \in Workers, NEW s \in DOMAIN sessions'
               PROVE  openSession'[v] = s <=> sessions'[s].staff = v /\ sessions'[s].status = "open"
    BY DEF KeysInv
  <2>1. openSession'[v] = IF v = w THEN t ELSE openSession[v]
    BY <1>2, <1>4
  <2>2. CASE s = t
    <3>1. v # w => openSession[v] # t
      BY <1>1, <1>2, <1>4, <1>6 DEF RefsInv
    <3> QED
      BY <1>3, <1>6, <2>1, <2>2, <3>1
  <2>3. CASE s # t
    <3>1. s \in DOMAIN sessions /\ sessions'[s] = sessions[s] /\ s # 0
      BY <1>4, <1>6, <2>3
    <3>2. openSession[v] = s <=> sessions[s].staff = v /\ sessions[s].status = "open"
      BY <1>1, <3>1 DEF KeysInv
    <3> QED
      BY <1>2, <2>1, <2>3, <3>1, <3>2
  <2> QED
    BY <2>2, <2>3
<1>8. FloatsInv'
  <2> SUFFICES ASSUME NEW b \in DOMAIN auths PROVE FloatOut(b)'
    BY <1>2 DEF FloatsInv
  <2> DEFINE f == auths[b].floatSession
             g == auths'[b].floatSession
  <2>1. /\ f # 0 => /\ f \in DOMAIN sessions
                    /\ sessions[f].auth = b /\ sessions[f].float = auths[b].float
        /\ \A s \in DOMAIN sessions \ {f} : sessions[s].auth = b =>
              sessions[s].float = 0 /\ (f = 0 => auths[b].float = 0)
    BY <1>1 DEF FloatsInv, FloatOut
  <2>2. g = (IF b = a /\ n > 0 THEN t ELSE f) /\ auths'[b].float = auths[b].float
    BY <1>2
  <2>3. auths[b].float \in Nat
    BY <1>1, DocumentTypes DEF Authorization
  <2> HIDE DEF f, g
  <2>4. g # 0 => /\ g \in DOMAIN sessions'
                 /\ sessions'[g].auth = b /\ sessions'[g].float = auths'[b].float
    <3>1. CASE b = a /\ n > 0
      BY <1>3, <1>5, <1>6, <2>2, <3>1
    <3>2. CASE ~(b = a /\ n > 0)
      BY <1>6, <2>1, <2>2, <3>2
    <3> QED
      BY <3>1, <3>2
  <2>5. ASSUME NEW s \in DOMAIN sessions' \ {g}, sessions'[s].auth = b
        PROVE  sessions'[s].float = 0 /\ (g = 0 => auths'[b].float = 0)
    <3>1. CASE s = t
      <4>1. b = a /\ sessions'[s].float = n
        BY <1>3, <1>6, <2>5, <3>1
      <4>2. n = 0
        BY <1>2, <2>2, <3>1, <4>1
      <4>3. f = auths[a].floatSession
        BY <4>1 DEF f
      <4> QED
        BY <1>5, <2>2, <4>1, <4>2, <4>3
    <3>2. CASE s # t
      <4>1. s \in DOMAIN sessions /\ sessions[s].auth = b /\ sessions'[s] = sessions[s]
        BY <1>6, <2>5, <3>2
      <4>2. CASE b = a /\ n > 0
        <5>1. f = 0 /\ auths[b].float = n
          BY <1>2, <1>5, <4>2 DEF f
        <5>2. s # f
          BY <1>4, <4>1, <5>1
        <5> QED
          BY <2>1, <4>1, <4>2, <5>1, <5>2
      <4>3. CASE ~(b = a /\ n > 0)
        BY <2>1, <2>2, <4>1, <4>3
      <4> QED
        BY <4>2, <4>3
    <3> QED
      BY <3>1, <3>2
  <2> QED
    BY <2>4, <2>5 DEF FloatOut, g
<1>9. EmptyInv'
  BY <1>1, <1>3, <1>6 DEF EmptyInv, Empty
<1>10. RefsInv'
  <2>1. \A s \in DOMAIN sessions' : sessions'[s].auth \in DOMAIN auths'
    BY <1>1, <1>2, <1>3, <1>6 DEF RefsInv
  <2>2. takenIn' = takenIn
    BY DEF OpenAfterHoursSession
  <2>3. \A k \in DOMAIN takenIn' : takenIn'[k] \in 0..Len(sessions')
    <3>1. t = Len(sessions) + 1
      BY DEF t
    <3> QED
      BY <1>1, <1>4, <1>6, <2>2, <3>1 DEF RefsInv
  <2>4. \A v \in Workers : openSession'[v] \in 0..Len(sessions')
    <3>1. t = Len(sessions) + 1
      BY DEF t
    <3> QED
      BY <1>1, <1>2, <1>4, <1>6, <3>1 DEF RefsInv
  <2>5. \A e \in DOMAIN custody' : custody'[e].session \in DOMAIN sessions'
    <3>1. CASE n > 0
      <4> DEFINE line == [session |-> t, delta |-> n]
      <4>1. line \in [session: Nat, delta: Int] /\ line.session = t
        BY <1>2
      <4>2. custody' = Append(custody, line)
        BY <1>2, <3>1
      <4> HIDE DEF line
      <4>3. Grown(custody', custody, line)
        BY <1>4, <4>1, <4>2, Growth
      <4> QED
        BY <1>1, <1>6, <4>1, <4>3 DEF RefsInv, Grown
    <3>2. CASE ~(n > 0)
      BY <1>1, <1>2, <1>6, <3>2 DEF RefsInv
    <3> QED
      BY <3>1, <3>2
  <2> QED
    BY <2>1, <2>3, <2>4, <2>5 DEF RefsInv
<1> QED
  BY <1>7, <1>8, <1>9, <1>10

\* A session ends: its person can open another.
Ends(s, x) ==
    /\ s \in DOMAIN sessions /\ sessions[s].status = "open"
    /\ Changed(sessions', sessions, s, x)
    /\ x.staff = sessions[s].staff /\ x.auth = sessions[s].auth /\ x.float = sessions[s].float
    /\ x.status # "open" /\ Empty(x)
    /\ openSession' = [openSession EXCEPT ![sessions[s].staff] = 0]
    /\ UNCHANGED <<auths, takenIn, custody>>

\* One that is cancelled, or closed without cash, has nothing in it.
LEMMA Endings ==
    ASSUME HoursInv, NEW s \in DOMAIN sessions,
           CloseAfterHoursSession(s) \/ CancelAfterHoursSession(s)
    PROVE  \E x : Ends(s, x)
<1>1. BillInv /\ AfterHoursTypeOK /\ CustodyInv
  BY DEF HoursInv
<1>2. CASE CloseAfterHoursSession(s)
  <2> DEFINE expected == sessions[s].float + LiveCash(s)
  <2>1. /\ sessions[s].status = "open" /\ expected \in Nat
        /\ openSession' = [openSession EXCEPT ![sessions[s].staff] = 0]
        /\ \E x \in Session : /\ Changed(sessions', sessions, s, x)
                              /\ x.staff = sessions[s].staff /\ x.auth = sessions[s].auth
                              /\ x.float = sessions[s].float /\ x.expected = expected
                              /\ x.status = IF expected > 0 THEN "handover_pending" ELSE "closed"
    BY <1>1, <1>2, Closes
  <2>2. UNCHANGED <<auths, takenIn, custody>>
    BY <1>2 DEF CloseAfterHoursSession
  <2>3. expected = 0 => sessions[s].float = 0
    <3>1. sessions[s].float \in Nat /\ LiveCash(s) \in Nat
      BY <1>1, DocumentTypes, CashType DEF Session
    <3> QED
      BY <3>1
  <2> HIDE DEF expected
  <2> QED
    BY <2>1, <2>2, <2>3 DEF Ends, Empty
<1>3. CASE CancelAfterHoursSession(s)
  <2>1. /\ sessions[s].status = "open" /\ TakenIn(s) = {} /\ sessions[s].float = 0
        /\ openSession' = [openSession EXCEPT ![sessions[s].staff] = 0]
        /\ \E x \in Session : /\ Changed(sessions', sessions, s, x)
                              /\ SameCash(x, sessions[s]) /\ x.status = "cancelled"
    BY <1>1, <1>3, Cancels
  <2>2. sessions[s].expected = 0
    <3>1. sessions[s].expected = sessions[s].float + LiveCash(s)
      BY <1>1, <2>1 DEF CustodyInv, Balanced
    <3>2. CashOf(s) = {}
      BY <2>1 DEF CashOf
    <3>3. LiveCash(s) = 0
      BY <1>1, <3>2, CashType, AmountsEmpty
    <3> QED
      BY <2>1, <3>1, <3>3
  <2>3. UNCHANGED <<auths, takenIn, custody>>
    BY <1>3 DEF CancelAfterHoursSession
  <2> QED
    BY <2>1, <2>2, <2>3 DEF Ends, Empty, SameCash
<1> QED
  BY <1>2, <1>3

LEMMA Ending ==
    ASSUME HoursInv, NEW s, NEW x, Ends(s, x)
    PROVE  KeysInv' /\ FloatsInv' /\ EmptyInv' /\ RefsInv'
<1>1. AfterHoursTypeOK /\ RefsInv /\ KeysInv /\ FloatsInv /\ EmptyInv
  BY DEF HoursInv
<1>2. /\ DOMAIN sessions = 1..Len(sessions) /\ Len(sessions) \in Nat
      /\ openSession \in [Workers -> Nat] /\ s \in DOMAIN sessions
      /\ sessions[s].staff \in Workers
  BY <1>1, DocumentTypes DEF AfterHoursTypeOK, Ends, Session
<1>3. /\ DOMAIN sessions' = DOMAIN sessions /\ Len(sessions') = Len(sessions)
      /\ \A t \in DOMAIN sessions : t # s => sessions'[t] = sessions[t]
      /\ sessions'[s] = x /\ sessions[s].status = "open"
      /\ x.staff = sessions[s].staff /\ x.auth = sessions[s].auth /\ x.float = sessions[s].float
      /\ x.status # "open" /\ Empty(x)
      /\ openSession' = [openSession EXCEPT ![sessions[s].staff] = 0]
      /\ UNCHANGED <<auths, takenIn, custody>>
  BY DEF Ends, Changed
<1>4. KeysInv'
  <2> SUFFICES ASSUME NEW v \in Workers, NEW t \in DOMAIN sessions
               PROVE  openSession'[v] = t <=> sessions'[t].staff = v /\ sessions'[t].status = "open"
    BY <1>3 DEF KeysInv
  <2>1. openSession[v] = t <=> sessions[t].staff = v /\ sessions[t].status = "open"
    BY <1>1 DEF KeysInv
  <2>2. openSession[sessions[s].staff] = s
    BY <1>1, <1>2, <1>3 DEF KeysInv
  <2>3. openSession'[v] = IF v = sessions[s].staff THEN 0 ELSE openSession[v]
    BY <1>2, <1>3
  <2>4. t # 0
    BY <1>2
  <2>5. CASE t = s
    BY <1>3, <2>1, <2>3, <2>4, <2>5
  <2>6. CASE t # s
    BY <1>3, <2>1, <2>2, <2>3, <2>4, <2>6
  <2> QED
    BY <2>5, <2>6
<1>5. \A t \in DOMAIN sessions : /\ sessions'[t].float = sessions[t].float
                                 /\ sessions'[t].auth = sessions[t].auth
  BY <1>3
<1>6. FloatsInv'
  BY <1>1, <1>3, <1>5 DEF FloatsInv, FloatOut
<1>7. EmptyInv'
  <2>1. \A t \in DOMAIN sessions : Empty(sessions'[t])
    BY <1>1, <1>3 DEF EmptyInv
  <2> QED
    BY <1>3, <2>1 DEF EmptyInv
<1>8. RefsInv'
  BY <1>1, <1>2, <1>3, <1>5 DEF RefsInv
<1> QED
  BY <1>4, <1>6, <1>7, <1>8

\* Every other step leaves whose session it is, and what is in it when it is over.
LEMMA StandingKeeps ==
    ASSUME HoursInv, StandingShapes
    PROVE  KeysInv' /\ FloatsInv' /\ EmptyInv' /\ RefsInv'
<1>1. AfterHoursTypeOK /\ BillInv /\ RefsInv /\ KeysInv /\ FloatsInv /\ EmptyInv
  BY DEF HoursInv
<1>2. SessionsStand /\ AuthsStand
  BY SessionsStanding
<1>3. /\ DOMAIN sessions' = DOMAIN sessions /\ Len(sessions') = Len(sessions)
      /\ openSession' = openSession
      /\ \A s \in DOMAIN sessions :
            /\ sessions'[s].staff = sessions[s].staff /\ sessions'[s].auth = sessions[s].auth
            /\ sessions'[s].float = sessions[s].float
            /\ sessions'[s].status = "open" <=> sessions[s].status = "open"
            /\ Empty(sessions[s]) => Empty(sessions'[s])
  BY <1>2 DEF SessionsStand, StillThat
<1>4. KeysInv'
  BY <1>1, <1>3 DEF KeysInv
<1>5. FloatsInv'
  <2> SUFFICES ASSUME NEW a \in DOMAIN auths' PROVE FloatOut(a)'
    BY DEF FloatsInv
  <2>1. CASE a \in DOMAIN auths
    <3>1. FloatOut(a) /\ auths'[a].float = auths[a].float
          /\ auths'[a].floatSession = auths[a].floatSession
      BY <1>1, <1>2, <2>1 DEF FloatsInv, AuthsStand
    <3> QED
      BY <1>3, <3>1 DEF FloatOut
  <2>2. CASE a \notin DOMAIN auths
    <3>1. auths'[a].floatSession = 0 /\ \A s \in DOMAIN sessions' : sessions'[s].auth # a
      BY <1>1, <1>2, <1>3, <2>2 DEF AuthsStand, RefsInv
    <3> QED
      BY <3>1 DEF FloatOut
  <2> QED
    BY <2>1, <2>2
<1>6. EmptyInv'
  BY <1>1, <1>3 DEF EmptyInv
<1>7. /\ DOMAIN sessions = 1..Len(sessions) /\ Len(sessions) \in Nat
      /\ custody \in Seq([session: Nat, delta: Int]) /\ takenIn \in Seq(Nat)
  BY <1>1, DocumentTypes DEF AfterHoursTypeOK
<1>8. /\ \A s \in DOMAIN sessions' : sessions'[s].auth \in DOMAIN auths'
      /\ \A w \in Workers : openSession'[w] \in 0..Len(sessions')
  BY <1>1, <1>2, <1>3 DEF RefsInv, AuthsStand
<1>9. ASSUME NEW t \in 0..Len(sessions), takenIn' = Append(takenIn, t)
      PROVE  \A k \in DOMAIN takenIn' : takenIn'[k] \in 0..Len(sessions')
  <2>1. t \in Nat
    BY <1>7
  <2>2. Grown(takenIn', takenIn, t)
    BY <1>7, <1>9, <2>1, Growth
  <2> QED
    BY <1>1, <1>3, <2>2 DEF Grown, RefsInv
<1>10. ASSUME NEW t \in DOMAIN sessions, NEW d \in Int,
              custody' = Append(custody, [session |-> t, delta |-> d])
       PROVE  \A e \in DOMAIN custody' : custody'[e].session \in DOMAIN sessions'
  <2> DEFINE line == [session |-> t, delta |-> d]
  <2>1. line \in [session: Nat, delta: Int] /\ line.session = t /\ custody' = Append(custody, line)
    BY <1>7, <1>10
  <2> HIDE DEF line
  <2>2. Grown(custody', custody, line)
    BY <1>7, <2>1, Growth
  <2> QED
    BY <1>1, <1>3, <2>1, <2>2 DEF Grown, RefsInv
<1>11. takenIn' = takenIn => \A k \in DOMAIN takenIn' : takenIn'[k] \in 0..Len(sessions')
  BY <1>1, <1>3 DEF RefsInv
<1>12. custody' = custody => \A e \in DOMAIN custody' : custody'[e].session \in DOMAIN sessions'
  BY <1>1, <1>3 DEF RefsInv
<1>13. CASE SessionsRest \/ HandsOver
  BY <1>8, <1>11, <1>12, <1>13, <1>4, <1>5, <1>6 DEF SessionsRest, HandsOver, RefsInv
<1>14. CASE CashierPaid
  <2>1. takenIn' = Append(takenIn, 0) /\ custody' = custody
    BY <1>14 DEF CashierPaid, PaidInto
  <2>2. 0 \in 0..Len(sessions)
    BY <1>7
  <2>3. \A k \in DOMAIN takenIn' : takenIn'[k] \in 0..Len(sessions')
    BY <1>9, <2>1, <2>2
  <2> QED
    BY <1>8, <1>12, <2>1, <2>3, <1>4, <1>5, <1>6 DEF RefsInv
<1>15. CASE WorkerPaid
  <2>1. PICK w \in Workers, n \in Amounts, method \in Methods,
             r \in NextRequest, i \in DOMAIN invoices :
           WorkerRecordsPayment(w, r, i, method, n)
    BY <1>15 DEF WorkerPaid
  <2> DEFINE s == openSession[w]
             p == IF method = Cash THEN n ELSE 0
  <2>2. TakesInto(s, p)
    BY <1>1, <2>1, Takes
  <2>3. takenIn' = Append(takenIn, s) /\ custody' = Append(custody, [session |-> s, delta |-> p])
    BY <2>1 DEF WorkerRecordsPayment
  <2> HIDE DEF s, p
  <2>4. s \in DOMAIN sessions /\ s \in 0..Len(sessions) /\ p \in Int
    BY <1>7, <2>2 DEF TakesInto
  <2>5. \A k \in DOMAIN takenIn' : takenIn'[k] \in 0..Len(sessions')
    BY <1>9, <2>3, <2>4
  <2>6. \A e \in DOMAIN custody' : custody'[e].session \in DOMAIN sessions'
    BY <1>10, <2>3, <2>4
  <2> QED
    BY <1>8, <2>5, <2>6, <1>4, <1>5, <1>6 DEF RefsInv
<1>16. ASSUME NEW k \in DOMAIN payments, ReverseAnyPayment(k) PROVE RefsInv'
  <2>1. takenIn' = takenIn
    BY <1>16 DEF ReverseAnyPayment
  <2>2. CASE takenIn[k] = 0
    <3>1. custody' = custody
      BY <1>16, <2>2 DEF ReverseAnyPayment
    <3> QED
      BY <1>8, <1>11, <1>12, <2>1, <3>1 DEF RefsInv
  <2>3. CASE takenIn[k] # 0
    <3> DEFINE s == takenIn[k]
               p == IF IsCash(k) THEN payments[k].amount ELSE 0
               d == IF sessions[s].status = "open" THEN -p ELSE 0
    <3>1. s \in DOMAIN sessions /\ p \in Nat /\ custody' = Append(custody, [session |-> s, delta |-> d])
      BY <1>1, <1>16, <2>3, Returns
    <3> HIDE DEF s, p
    <3>2. d \in Int
      BY <3>1
    <3> HIDE DEF d
    <3>3. \A e \in DOMAIN custody' : custody'[e].session \in DOMAIN sessions'
      BY <1>10, <3>1, <3>2
    <3> QED
      BY <1>8, <1>11, <2>1, <3>3 DEF RefsInv
  <2> QED
    BY <2>2, <2>3
<1> QED
  BY <1>4, <1>5, <1>6, <1>13, <1>14, <1>15, <1>16 DEF StandingShapes

\* The keys, the floats and the empty sessions are as they should be after every step.
LEMMA KeysKept ==
    HoursInv /\ [AfterHoursNext]_allVars => KeysInv' /\ FloatsInv' /\ EmptyInv' /\ RefsInv'
<1> SUFFICES ASSUME HoursInv, [AfterHoursNext]_allVars
             PROVE  KeysInv' /\ FloatsInv' /\ EmptyInv' /\ RefsInv'
  OBVIOUS
<1>1. HoursShapes
  BY HoursShape
<1>2. ASSUME NEW s \in DOMAIN sessions, CloseAfterHoursSession(s) \/ CancelAfterHoursSession(s)
      PROVE  KeysInv' /\ FloatsInv' /\ EmptyInv' /\ RefsInv'
  BY <1>2, Endings, Ending
<1>3. CASE StandingShapes
  BY <1>3, StandingKeeps
<1> QED
  BY <1>1, <1>2, <1>3, Opening DEF HoursShapes, StandingShapes

-----------------------------------------------------------------------------
(* Sums of deltas and of floats *)

\* What lines of the custody book come to is a total.
LEMMA DeltasTotal ==
    ASSUME NEW S, IsFiniteSet(S), NEW l, NEW w, \A x \in S : w[x] = l[x].delta
    PROVE  DeltasOf(l, S) = Total(w, S)
<1> DEFINE P(g) ==
        g = [s \in SUBSET S |-> IF s = {} THEN 0
                                ELSE LET x == CHOOSE x \in s : TRUE IN l[x].delta + g[s \ {x}]]
           v == [x \in S |-> l[x].delta]
<1>1. DeltasOf(l, S) = (CHOOSE g : P(g))[S]
  BY DEF DeltasOf, SumOver, MapThenSumSet, MapThenFoldSet
<1>2. ASSUME NEW g PROVE P(g) <=> Iterates(v, S, g)
  <2>1. \A s \in SUBSET S : s # {} => AnyOf(s) \in s /\ v[AnyOf(s)] = l[AnyOf(s)].delta
    BY DEF AnyOf
  <2> HIDE DEF v
  <2> QED
    BY <2>1 DEF Iterates, AnyOf
<1>3. PICK h : Iterates(v, S, h) /\ Total(v, S) = h[S]
  BY TotalDef
<1> HIDE DEF P
<1>4. P(CHOOSE g : P(g))
  BY <1>2, <1>3
<1>5. Iterates(v, S, CHOOSE g : P(g))
  BY <1>2, <1>4
<1>6. DeltasOf(l, S) = Total(v, S)
  <2> DEFINE f == CHOOSE g : P(g)
  <2>1. \A x \in S : v[x] = v[x]
    OBVIOUS
  <2>2. Iterates(v, S, f)
    BY <1>5
  <2> HIDE DEF f, v
  <2>3. f[S] = h[S]
    BY <1>3, <2>2, IteratesSame
  <2> QED
    BY <1>1, <1>3, <2>3 DEF f
<1>7. \A x \in S : v[x] = w[x]
  OBVIOUS
<1> HIDE DEF v
<1>8. Total(v, S) = Total(w, S)
  BY <1>7, TotalSame
<1> QED
  BY <1>6, <1>8

\* So is what the floats of some sessions come to.
LEMMA FloatsTotal ==
    ASSUME NEW S, IsFiniteSet(S), NEW l, NEW w, \A x \in S : w[x] = l[x].float
    PROVE  FloatsOf(l, S) = Total(w, S)
<1> DEFINE P(g) ==
        g = [s \in SUBSET S |-> IF s = {} THEN 0
                                ELSE LET x == CHOOSE x \in s : TRUE IN l[x].float + g[s \ {x}]]
           v == [x \in S |-> l[x].float]
<1>1. FloatsOf(l, S) = (CHOOSE g : P(g))[S]
  BY DEF FloatsOf, SumOver, MapThenSumSet, MapThenFoldSet
<1>2. ASSUME NEW g PROVE P(g) <=> Iterates(v, S, g)
  <2>1. \A s \in SUBSET S : s # {} => AnyOf(s) \in s /\ v[AnyOf(s)] = l[AnyOf(s)].float
    BY DEF AnyOf
  <2> HIDE DEF v
  <2> QED
    BY <2>1 DEF Iterates, AnyOf
<1>3. PICK h : Iterates(v, S, h) /\ Total(v, S) = h[S]
  BY TotalDef
<1> HIDE DEF P
<1>4. P(CHOOSE g : P(g))
  BY <1>2, <1>3
<1>5. Iterates(v, S, CHOOSE g : P(g))
  BY <1>2, <1>4
<1>6. FloatsOf(l, S) = Total(v, S)
  <2> DEFINE f == CHOOSE g : P(g)
  <2>1. \A x \in S : v[x] = v[x]
    OBVIOUS
  <2>2. Iterates(v, S, f)
    BY <1>5
  <2> HIDE DEF f, v
  <2>3. f[S] = h[S]
    BY <1>3, <2>2, IteratesSame
  <2> QED
    BY <1>1, <1>3, <2>3 DEF f
<1>7. \A x \in S : v[x] = w[x]
  OBVIOUS
<1> HIDE DEF v
<1>8. Total(v, S) = Total(w, S)
  BY <1>7, TotalSame
<1> QED
  BY <1>6, <1>8

\* One line more adds its delta.
DeltasGrowing(l, m, S, z) ==
    /\ IsFiniteSet(S) /\ z \notin S
    /\ \A x \in S : l[x].delta \in Int /\ m[x].delta = l[x].delta
    /\ m[z].delta \in Int

LEMMA DeltasAdd ==
    ASSUME NEW S, NEW l, NEW m, NEW z, DeltasGrowing(l, m, S, z)
    PROVE  /\ DeltasOf(m, S) = DeltasOf(l, S) /\ DeltasOf(l, S) \in Int
           /\ DeltasOf(m, S \cup {z}) = DeltasOf(l, S) + m[z].delta
<1> DEFINE T == S \cup {z}
           w == [x \in T |-> m[x].delta]
<1>1. /\ IsFiniteSet(S) /\ z \notin S /\ w[z] = m[z].delta
      /\ \A x \in S : w[x] = l[x].delta
      /\ \A x \in S : w[x] = m[x].delta
      /\ \A x \in T : w[x] = m[x].delta
      /\ \A x \in S : w[x] \in Int
      /\ w[z] \in Int
  BY DEF DeltasGrowing
<1> HIDE DEF w
<1>2. IsFiniteSet(T) /\ Total(w, T) = Total(w, S) + w[z]
  <2>1. IsFiniteSet(S) /\ z \notin S
    BY <1>1
  <2>2. \A x \in S : w[x] \in Int
    BY <1>1
  <2>3. w[z] \in Int
    BY <1>1
  <2> QED
    BY <2>1, <2>2, <2>3, TotalAdds
<1> HIDE DEF T
<1>3. DeltasOf(l, S) = Total(w, S)
  BY <1>1, DeltasTotal
<1>4. DeltasOf(m, S) = Total(w, S)
  BY <1>1, DeltasTotal
<1>5. DeltasOf(m, T) = Total(w, T)
  BY <1>1, <1>2, DeltasTotal
<1>6. Total(w, S) \in Int
  BY <1>1, TotalType
<1> QED
  BY <1>1, <1>2, <1>3, <1>4, <1>5, <1>6 DEF T

\* No line comes to nothing.
LEMMA DeltasEmpty == ASSUME NEW l PROVE DeltasOf(l, {}) = 0
<1>1. DeltasOf(l, {}) = Total(l, {})
  BY FS_EmptySet, DeltasTotal
<1> QED
  BY <1>1, TotalEmpty

\* A total of nothings is nothing.
LEMMA TotalZero ==
    ASSUME NEW S, IsFiniteSet(S), NEW w, \A x \in S : w[x] = 0
    PROVE  Total(w, S) = 0
<1>1. PICK g : Iterates(w, S, g) /\ Total(w, S) = g[S]
  BY TotalDef
<1> DEFINE C == {s \in SUBSET S : g[s] # 0}
<1>2. ASSUME C # {} PROVE FALSE
  <2>1. PICK s \in C : \A t \in C : t \subseteq s => t = s
    <3>1. C \subseteq SUBSET S
      OBVIOUS
    <3> HIDE DEF C
    <3> QED
      BY <1>2, <3>1, SmallestSubset
  <2>2. s \in SUBSET S /\ g[s] # 0
    BY <2>1
  <2>3. g[s] = IF s = {} THEN 0 ELSE w[AnyOf(s)] + g[s \ {AnyOf(s)}]
    BY <1>1, <2>2 DEF Iterates
  <2>4. s # {}
    BY <2>2, <2>3
  <2>5. AnyOf(s) \in s
    BY <2>4 DEF AnyOf
  <2>6. s \ {AnyOf(s)} \notin C
    BY <2>1, <2>5
  <2>7. g[s \ {AnyOf(s)}] = 0
    BY <2>2, <2>6
  <2>8. w[AnyOf(s)] = 0
    BY <2>2, <2>5
  <2> QED
    BY <2>2, <2>3, <2>4, <2>7, <2>8
<1>3. S \in SUBSET S
  OBVIOUS
<1> QED
  BY <1>1, <1>2, <1>3

\* If only one session of some has a float, theirs come to that.
LEMMA OneFloat ==
    ASSUME NEW S, IsFiniteSet(S), NEW l, NEW f \in S, l[f].float \in Int,
           \A x \in S \ {f} : l[x].float = 0
    PROVE  FloatsOf(l, S) = l[f].float
<1> DEFINE w == [x \in S |-> l[x].float]
           T == S \ {f}
<1>1. /\ \A x \in S : w[x] = l[x].float
      /\ \A x \in T : w[x] = 0
      /\ \A x \in T : w[x] \in Int
      /\ w[f] = l[f].float /\ w[f] \in Int
  OBVIOUS
<1>2. f \notin T /\ T \cup {f} = S
  OBVIOUS
<1>3. IsFiniteSet(T)
  BY FS_Subset
<1> HIDE DEF w, T
<1>4. FloatsOf(l, S) = Total(w, S)
  BY <1>1, FloatsTotal
<1>5. Total(w, T \cup {f}) = Total(w, T) + w[f]
  BY <1>1, <1>2, <1>3, TotalAdds
<1>6. Total(w, T) = 0
  BY <1>1, <1>3, TotalZero
<1>7. Total(w, S) = Total(w, T) + w[f]
  BY <1>2, <1>5
<1> QED
  BY <1>1, <1>4, <1>6, <1>7

LEMMA NoFloat ==
    ASSUME NEW S, IsFiniteSet(S), NEW l, \A x \in S : l[x].float = 0
    PROVE  FloatsOf(l, S) = 0
<1> DEFINE w == [x \in S |-> l[x].float]
<1>1. (\A x \in S : w[x] = l[x].float) /\ \A x \in S : w[x] = 0
  OBVIOUS
<1> HIDE DEF w
<1>2. FloatsOf(l, S) = Total(w, S)
  BY <1>1, FloatsTotal
<1> QED
  BY <1>1, <1>2, TotalZero

-----------------------------------------------------------------------------
(* The cash of a session after a step *)

Entered(t, d) == custody' = Append(custody, [session |-> t, delta |-> d])

\* A line d in the name of session t changes what is booked for t, and for no other.
LEMMA Booked ==
    ASSUME AfterHoursTypeOK, NEW t \in Nat, NEW d \in Int, Entered(t, d), NEW s
    PROVE  DeltasOf(custody, LinesOf(s))' = DeltasOf(custody, LinesOf(s)) + IF s = t THEN d ELSE 0
<1> DEFINE line == [session |-> t, delta |-> d]
           n == Len(custody)
           S == LinesOf(s)
           z == n + 1
<1>1. custody \in Seq([session: Nat, delta: Int])
  BY DEF AfterHoursTypeOK
<1>2. line \in [session: Nat, delta: Int] /\ line.session = t /\ line.delta = d
  OBVIOUS
<1>3. custody' = Append(custody, line)
  BY DEF Entered
<1> HIDE DEF line
<1>4. Grown(custody', custody, line)
  BY <1>1, <1>2, <1>3, Growth
<1>5. /\ n \in Nat /\ DOMAIN custody = 1..n /\ DOMAIN custody' = 1..z
      /\ \A e \in 1..n : custody'[e] = custody[e]
      /\ custody'[z] = line
  BY <1>4 DEF Grown
<1>6. IsFiniteSet(S) /\ S \subseteq 1..n /\ z \notin S
  <2>1. IsFiniteSet(1..n)
    BY <1>5, FS_Interval
  <2>2. S \subseteq 1..n
    BY <1>5 DEF LinesOf
  <2>3. z \notin 1..n
    BY <1>5
  <2> QED
    BY <2>1, <2>2, <2>3, FS_Subset
<1>7. \A e \in S : custody[e].delta \in Int
  <2>1. \A e \in 1..n : custody[e] \in [session: Nat, delta: Int]
    BY <1>1, <1>5, ElementOfSeq
  <2> QED
    BY <1>6, <2>1
<1>8. DeltasGrowing(custody, custody', S, z)
  BY <1>2, <1>5, <1>6, <1>7 DEF DeltasGrowing
<1>9. LinesOf(s)' = IF s = t THEN S \cup {z} ELSE S
  BY <1>2, <1>5 DEF LinesOf
<1>10. /\ DeltasOf(custody', S) = DeltasOf(custody, S) /\ DeltasOf(custody, S) \in Int
       /\ DeltasOf(custody', S \cup {z}) = DeltasOf(custody, S) + d
  <2>1. custody'[z].delta = d
    BY <1>2, <1>5
  <2> HIDE DEF S, z
  <2>2. /\ DeltasOf(custody', S) = DeltasOf(custody, S) /\ DeltasOf(custody, S) \in Int
        /\ DeltasOf(custody', S \cup {z}) = DeltasOf(custody, S) + custody'[z].delta
    BY <1>8, DeltasAdd
  <2> QED
    BY <2>1, <2>2
<1>11. DeltasOf(custody, LinesOf(s))' = DeltasOf(custody', LinesOf(s)')
  BY DEF DeltasOf, LinesOf, SumOver, MapThenSumSet, MapThenFoldSet
<1> HIDE DEF S, z, n
<1>12. CASE s = t
  BY <1>9, <1>10, <1>11, <1>12 DEF S
<1>13. CASE s # t
  BY <1>9, <1>10, <1>11, <1>13 DEF S
<1> QED
  BY <1>12, <1>13

\* Payments, and where their money went, as far as the past is concerned.
LEMMA PaymentsFacts ==
    ASSUME HoursInv, [AfterHoursNext]_allVars
    PROVE  /\ Len(payments) \in Nat /\ DOMAIN payments = 1..Len(payments)
           /\ takenIn \in Seq(Nat) /\ Len(takenIn) = Len(payments)
           /\ \A k \in DOMAIN payments : /\ payments[k] \in Payment /\ payments[k].amount \in Nat
                                         /\ payments[k].entry \in DOMAIN ledger
                                         /\ ledger'[payments[k].entry].to = ledger[payments[k].entry].to
           /\ \A s : LiveCash(s)' = AmountsOf(payments', CashOf(s)')
<1>1. BillInv /\ AfterHoursTypeOK
  BY DEF HoursInv
<1>2. /\ Len(payments) \in Nat /\ DOMAIN payments = 1..Len(payments)
      /\ takenIn \in Seq(Nat) /\ Len(takenIn) = Len(payments)
      /\ \A k \in DOMAIN payments : payments[k] \in Payment /\ payments[k].entry \in DOMAIN ledger
  BY <1>1, LenProperties, ElementOfSeq DEF BillInv, EntriesKnown, AfterHoursTypeOK
<1>3. \A k \in DOMAIN payments : payments[k].amount \in Nat
  BY <1>2 DEF Payment, Amount
<1>4. \A k \in DOMAIN payments : ledger'[payments[k].entry].to = ledger[payments[k].entry].to
  BY <1>2, EntriesStand
<1>5. ASSUME NEW s PROVE LiveCash(s)' = AmountsOf(payments', CashOf(s)')
  BY DEF LiveCash, AmountsOf, CashOf, TakenIn, IsCash, SumOver, MapThenSumSet, MapThenFoldSet
<1> QED
  BY <1>2, <1>3, <1>4, <1>5

\* Nothing paid, nothing changed.
LEMMA CashRests ==
    ASSUME HoursInv, [AfterHoursNext]_allVars, UNCHANGED <<payments, takenIn>>, NEW s
    PROVE  LiveCash(s)' = LiveCash(s)
<1>1. /\ LiveCash(s)' = AmountsOf(payments', CashOf(s)')
      /\ LiveCash(s) = AmountsOf(payments, CashOf(s))
      /\ \A k \in DOMAIN payments : ledger'[payments[k].entry].to = ledger[payments[k].entry].to
  BY PaymentsFacts, CashType DEF HoursInv
<1>2. CashOf(s)' = CashOf(s)
  BY <1>1 DEF CashOf, TakenIn, IsCash
<1> QED
  BY <1>1, <1>2

\* A payment taken into session t changes the cash of t, and of no other.
LEMMA CashPaid ==
    ASSUME HoursInv, [AfterHoursNext]_allVars, NEW t \in Nat, NEW n \in Nat, NEW inCash,
           PaidInto(t, n, inCash), NEW s
    PROVE  LiveCash(s)' = LiveCash(s) + IF s = t /\ inCash THEN n ELSE 0
<1> DEFINE N == Len(payments)
           z == N + 1
           S == CashOf(s)
<1>1. /\ N \in Nat /\ DOMAIN payments = 1..N
      /\ takenIn \in Seq(Nat) /\ Len(takenIn) = N
      /\ \A k \in 1..N : /\ payments[k].amount \in Nat
                         /\ payments[k].entry \in DOMAIN ledger
                         /\ ledger'[payments[k].entry].to = ledger[payments[k].entry].to
      /\ LiveCash(s)' = AmountsOf(payments', CashOf(s)')
      /\ LiveCash(s) = AmountsOf(payments, S)
  BY PaymentsFacts, CashType DEF HoursInv
<1>2. PICK i \in Nat : Grown(payments', payments, [invoice |-> i, amount |-> n,
                                                   entry |-> Len(ledger) + 1, live |-> TRUE])
  BY DEF PaidInto
<1>3. /\ DOMAIN payments' = 1..z /\ \A k \in 1..N : payments'[k] = payments[k]
      /\ payments'[z].amount = n /\ payments'[z].entry = Len(ledger) + 1 /\ payments'[z].live
  BY <1>2 DEF Grown
<1>4. \A k \in 1..N : takenIn'[k] = takenIn[k]
  BY <1>1, AppendProperties DEF PaidInto
<1>5. takenIn'[z] = t
  BY <1>1, AppendProperties DEF PaidInto
<1>6. ledger'[Len(ledger) + 1].to = Cash <=> inCash
  BY DEF PaidInto
<1>7. S \in SUBSET (1..N) /\ z \notin 1..N
  BY <1>1 DEF CashOf, TakenIn
<1>8. CashOf(s)' = IF s = t /\ inCash THEN S \cup {z} ELSE S
  <2>1. \A k \in 1..N : k \in CashOf(s)' <=> k \in S
    BY <1>1, <1>3, <1>4 DEF CashOf, TakenIn, IsCash
  <2>2. z \in CashOf(s)' <=> s = t /\ inCash
    BY <1>3, <1>5, <1>6 DEF CashOf, TakenIn, IsCash
  <2>3. CashOf(s)' \subseteq 1..z
    BY <1>3 DEF CashOf, TakenIn
  <2>4. N \in Nat /\ z = N + 1
    BY <1>1
  <2> HIDE DEF S, N, z
  <2>5. 1..z = (1..N) \cup {z}
    BY <2>4
  <2>6. CashOf(s)' \subseteq S \cup {z} /\ S \subseteq CashOf(s)'
    BY <1>7, <2>1, <2>3, <2>5
  <2>7. z \notin S
    BY <1>7
  <2> QED
    BY <2>2, <2>6, <2>7
<1>9. /\ AmountsOf(payments', S) = AmountsOf(payments, S)
      /\ AmountsOf(payments', S \cup {z}) = AmountsOf(payments, S) + n
      /\ AmountsOf(payments, S) \in Nat
  <2>1. IsFiniteSet(S) /\ z \notin S /\ S \subseteq 1..N
    <3>0. N \in Int /\ 1 \in Int
      BY <1>1
    <3> HIDE DEF S, z, N
    <3>1. IsFiniteSet(1..N)
      BY <3>0, FS_Interval
    <3> QED
      BY <1>7, <3>1, FS_Subset
  <2>2. \A x \in S : payments[x].amount \in Nat /\ payments'[x].amount = payments[x].amount
    BY <1>1, <1>3, <2>1
  <2>3. payments'[z].amount \in Nat /\ payments'[z].amount = n
    BY <1>3
  <2> HIDE DEF S, N, z
  <2>4. Growing(payments, payments', S, z)
    BY <2>1, <2>2, <2>3 DEF Growing
  <2>5. AmountsOf(payments', S \cup {z}) = AmountsOf(payments, S) + n
    BY <2>3, <2>4, AmountsGrow
  <2>6. AmountsOf(payments, S) \in Nat
    BY <2>1, <2>2, AmountsType
  <2>7. AmountsOf(payments', S) = AmountsOf(payments, S)
    BY <2>1, <2>2, AmountsSame
  <2> QED
    BY <2>5, <2>6, <2>7
<1> HIDE DEF S, z
<1> QED
  BY <1>1, <1>8, <1>9

\* A payment reversed is no longer in the cash of its session.
LEMMA CashLost ==
    ASSUME HoursInv, [AfterHoursNext]_allVars, NEW k \in DOMAIN payments, PaymentLost(k), NEW s
    PROVE  LiveCash(s)' = LiveCash(s) - IF takenIn[k] = s /\ IsCash(k) THEN payments[k].amount ELSE 0
<1> DEFINE S == CashOf(s)
           T == CashOf(s) \ {k}
<1>1. /\ \A l \in DOMAIN payments : /\ payments[l].amount \in Nat /\ payments[l] \in Payment
                                    /\ ledger'[payments[l].entry].to = ledger[payments[l].entry].to
      /\ LiveCash(s)' = AmountsOf(payments', CashOf(s)')
      /\ LiveCash(s) = AmountsOf(payments, S)
      /\ IsFiniteSet(DOMAIN payments)
  <2>1. IsFiniteSet(DOMAIN payments)
    BY PaymentsFacts, FS_Interval
  <2> QED
    BY <2>1, PaymentsFacts, CashType DEF HoursInv
<1>2. /\ payments[k].live /\ DOMAIN payments' = DOMAIN payments
      /\ \A l \in DOMAIN payments : l # k => payments'[l] = payments[l]
      /\ payments'[k].live = FALSE /\ payments'[k].amount = payments[k].amount
      /\ payments'[k].entry = payments[k].entry
      /\ takenIn' = takenIn
  <2>1. payments'[k] = [payments[k] EXCEPT !.live = FALSE] /\ payments[k] \in Payment
    BY DEF PaymentLost, Changed
  <2>2. /\ [payments[k] EXCEPT !.live = FALSE].live = FALSE
        /\ [payments[k] EXCEPT !.live = FALSE].amount = payments[k].amount
        /\ [payments[k] EXCEPT !.live = FALSE].entry = payments[k].entry
    BY <2>1 DEF Payment
  <2> QED
    BY <2>1, <2>2 DEF PaymentLost, Changed
<1>3. CashOf(s)' = T
  <2>1. CashOf(s)' \subseteq DOMAIN payments /\ T \subseteq DOMAIN payments
    BY <1>2 DEF CashOf, TakenIn
  <2>2. k \notin CashOf(s)'
    BY <1>2 DEF CashOf
  <2>3. \A l \in DOMAIN payments : l # k => (l \in CashOf(s)' <=> l \in CashOf(s))
    BY <1>1, <1>2 DEF CashOf, TakenIn, IsCash
  <2> QED
    BY <2>1, <2>2, <2>3
<1>4. T \subseteq DOMAIN payments /\ IsFiniteSet(T) /\ k \notin T
  BY <1>1, FS_Subset DEF CashOf, TakenIn
<1>5. k \in S <=> takenIn[k] = s /\ IsCash(k)
  BY <1>2 DEF CashOf, TakenIn
<1>6. AmountsOf(payments', T) = AmountsOf(payments, T)
  <2>1. \A x \in T : payments'[x].amount = payments[x].amount
    BY <1>2, <1>4
  <2> HIDE DEF T
  <2> QED
    BY <1>4, <2>1, AmountsSame
<1>7. AmountsOf(payments, T) \in Nat
  <2>1. \A x \in T : payments[x].amount \in Nat
    BY <1>1, <1>4
  <2> HIDE DEF T
  <2> QED
    BY <1>4, <2>1, AmountsType
<1>8. AmountsOf(payments, T \cup {k}) = AmountsOf(payments, T) + payments[k].amount
  <2>1. Growing(payments, payments, T, k)
    BY <1>1, <1>4 DEF Growing
  <2> HIDE DEF T
  <2> QED
    BY <2>1, AmountsGrow
<1>9. S = IF takenIn[k] = s /\ IsCash(k) THEN T \cup {k} ELSE T
  BY <1>5
<1>10. payments[k].amount \in Nat
  BY <1>1
<1> HIDE DEF S, T
<1>11. CASE takenIn[k] = s /\ IsCash(k)
  BY <1>1, <1>3, <1>6, <1>7, <1>8, <1>9, <1>10, <1>11
<1>12. CASE ~(takenIn[k] = s /\ IsCash(k))
  BY <1>1, <1>3, <1>6, <1>7, <1>9, <1>12
<1> QED
  BY <1>11, <1>12

\* No line is written, and nothing is booked.
LEMMA NothingBooked ==
    ASSUME UNCHANGED custody, NEW s
    PROVE  DeltasOf(custody, LinesOf(s))' = DeltasOf(custody, LinesOf(s))
BY DEF DeltasOf, LinesOf, SumOver, MapThenSumSet, MapThenFoldSet

\* What three documents say of session s, in numbers.
CashNumbers(s) ==
    LET x == sessions[s]
    IN  /\ x.expected \in Int /\ x.float \in Nat /\ x.collected \in Nat /\ x.reversed \in Nat
        /\ x.late \in Nat /\ LiveCash(s) \in Nat
        /\ Balanced(x, DeltasOf(custody, LinesOf(s)), LiveCash(s))

LEMMA CountsKnown ==
    ASSUME HoursInv, NEW s \in DOMAIN sessions
    PROVE  CashNumbers(s) /\ sessions[s] \in Session /\ s \in Nat \ {0}
<1>1. BillInv /\ AfterHoursTypeOK /\ CustodyInv
  BY DEF HoursInv
<1>2. /\ sessions[s] \in Session /\ DOMAIN sessions = 1..Len(sessions) /\ Len(sessions) \in Nat
  BY <1>1, DocumentTypes
<1>3. LiveCash(s) \in Nat
  BY <1>1, CashType
<1>4. Balanced(sessions[s], DeltasOf(custody, LinesOf(s)), LiveCash(s))
  BY <1>1 DEF CustodyInv
<1>5. /\ sessions[s].expected \in Int /\ sessions[s].float \in Nat /\ sessions[s].collected \in Nat
      /\ sessions[s].reversed \in Nat /\ sessions[s].late \in Nat
  BY <1>2 DEF Session
<1> QED
  BY <1>2, <1>3, <1>4, <1>5 DEF CashNumbers

\* Session s is balanced after a step as it was before.
BalancedAfter(s) ==
    Balanced(sessions'[s], DeltasOf(custody, LinesOf(s))', LiveCash(s)')

\* Session x becomes y while b more is booked for it, and c more of it is cash: once
\* it is over the cash can only be less, and that much is noted.
Follows(y, x, b, c) ==
    /\ b \in Int /\ c \in Int
    /\ y.expected = x.expected + b /\ y.float = x.float
    /\ y.collected - y.reversed = x.collected - x.reversed + b
    /\ y.status = "open" => x.status = "open"
    /\ x.status = "open" => b = c /\ y.late = x.late
    /\ x.status # "open" => b = 0 /\ c <= 0 /\ y.late >= x.late - c

LEMMA Moving ==
    ASSUME NEW x \in Session, NEW y \in Session, NEW b, NEW c, NEW booked, NEW cash \in Int,
           Balanced(x, booked, cash), Follows(y, x, b, c)
    PROVE  Balanced(y, booked + b, cash + c)
<1>1. /\ x.expected \in Int /\ x.float \in Int /\ x.collected \in Int /\ x.reversed \in Int
      /\ x.late \in Int
      /\ y.expected \in Int /\ y.float \in Int /\ y.collected \in Int /\ y.reversed \in Int
      /\ y.late \in Int
  BY DEF Session
<1>2. booked = x.expected
  BY DEF Balanced
<1>3. CASE x.status = "open"
  BY <1>1, <1>2, <1>3 DEF Balanced, Follows
<1>4. CASE x.status # "open"
  BY <1>1, <1>2, <1>4 DEF Balanced, Follows
<1> QED
  BY <1>3, <1>4

\* So a session is balanced after a step, if it moves by what is booked and paid.
LEMMA MovedBalances ==
    ASSUME HoursInv, NEW s \in DOMAIN sessions, sessions'[s] \in Session, NEW b, NEW c,
           Follows(sessions'[s], sessions[s], b, c),
           DeltasOf(custody, LinesOf(s))' = DeltasOf(custody, LinesOf(s)) + b,
           LiveCash(s)' = LiveCash(s) + c
    PROVE  BalancedAfter(s)
<1>1. /\ sessions[s] \in Session /\ LiveCash(s) \in Int
      /\ Balanced(sessions[s], DeltasOf(custody, LinesOf(s)), LiveCash(s))
  BY CountsKnown DEF CashNumbers
<1>2. Balanced(sessions'[s], DeltasOf(custody, LinesOf(s)) + b, LiveCash(s) + c)
  BY <1>1, Moving
<1> QED
  BY <1>2 DEF BalancedAfter

\* A session that keeps its cash, its lines and its payments.
LEMMA CashStands ==
    ASSUME HoursInv, NEW s \in DOMAIN sessions, sessions'[s] \in Session,
           SameCash(sessions'[s], sessions[s]),
           sessions'[s].status = "open" => sessions[s].status = "open",
           DeltasOf(custody, LinesOf(s))' = DeltasOf(custody, LinesOf(s)),
           LiveCash(s)' = LiveCash(s)
    PROVE  BalancedAfter(s)
<1>1. /\ sessions[s] \in Session /\ LiveCash(s) \in Int
      /\ Balanced(sessions[s], DeltasOf(custody, LinesOf(s)), LiveCash(s))
  BY CountsKnown DEF CashNumbers
<1>2. Balanced(sessions'[s], DeltasOf(custody, LinesOf(s)), LiveCash(s))
  BY <1>1 DEF Balanced, SameCash
<1> QED
  BY <1>2 DEF BalancedAfter

\* Each session keeps its shape.
LEMMA SessionsTyped ==
    ASSUME HoursInv, [AfterHoursNext]_allVars
    PROVE  \A s \in DOMAIN sessions' : sessions'[s] \in Session
<1>1. sessions' \in Seq(Session)
  BY HoursTypeKept DEF AfterHoursTypeOK
<1> HIDE DEF Session
<1> QED
  BY <1>1, ElementOfSeq

LEMMA SameSame == ASSUME NEW x PROVE SameCash(x, x)
BY DEF SameCash

-----------------------------------------------------------------------------
(* Cash is told the same way three times *)

\* A worker takes cash: more is expected, booked and paid.
LEMMA TakingBalances ==
    ASSUME HoursInv, [AfterHoursNext]_allVars, WorkerPaid, NEW s \in DOMAIN sessions
    PROVE  BalancedAfter(s)
<1>1. BillInv /\ AfterHoursTypeOK /\ RefsInv /\ KeysInv
  BY DEF HoursInv
<1>2. PICK w \in Workers, n \in Amounts, method \in Methods :
           /\ \E r \in NextRequest, i \in DOMAIN invoices : WorkerRecordsPayment(w, r, i, method, n)
           /\ PaidInto(openSession[w], n, method = Cash)
  BY DEF WorkerPaid
<1>3. PICK r \in NextRequest, i \in DOMAIN invoices : WorkerRecordsPayment(w, r, i, method, n)
  BY <1>2
<1> DEFINE t == openSession[w]
           p == IF method = Cash THEN n ELSE 0
<1>4. TakesInto(t, p)
  BY <1>1, <1>3, Takes
<1>5. Entered(t, p)
  BY <1>3 DEF WorkerRecordsPayment, Entered
<1>6. PaidInto(t, n, method = Cash)
  BY <1>2
<1>7. n \in Nat
  BY BoundAssumption DEF Amount
<1>8. p = IF method = Cash THEN n ELSE 0
  OBVIOUS
<1> HIDE DEF t, p
<1>9. t \in DOMAIN sessions /\ sessions[t].status = "open" /\ p \in Nat
  BY <1>4 DEF TakesInto
<1>10. t \in Nat
  BY <1>9, CountsKnown
<1>11. DeltasOf(custody, LinesOf(s))' = DeltasOf(custody, LinesOf(s)) + IF s = t THEN p ELSE 0
  BY <1>1, <1>5, <1>9, <1>10, Booked
<1>12. LiveCash(s)' = LiveCash(s) + IF s = t /\ method = Cash THEN n ELSE 0
  <2>1. CASE method = Cash
    <3>1. PaidInto(t, n, TRUE)
      BY <1>6, <2>1 DEF PaidInto
    <3>2. LiveCash(s)' = LiveCash(s) + IF s = t /\ TRUE THEN n ELSE 0
      BY <1>7, <1>10, <3>1, CashPaid
    <3> QED
      BY <2>1, <3>2
  <2>2. CASE method # Cash
    <3>1. PaidInto(t, n, FALSE)
      BY <1>6, <2>2 DEF PaidInto
    <3>2. LiveCash(s)' = LiveCash(s) + IF s = t /\ FALSE THEN n ELSE 0
      BY <1>7, <1>10, <3>1, CashPaid
    <3> QED
      BY <2>2, <3>2
  <2> QED
    BY <2>1, <2>2
<1>13. CashNumbers(s)
  BY CountsKnown
<1>14. PICK x : /\ Changed(sessions', sessions, t, x)
                /\ x.float = sessions[t].float
                /\ x.reversed = sessions[t].reversed /\ x.late = sessions[t].late
                /\ x.collected = sessions[t].collected + p
                /\ x.expected = sessions[t].expected + p
  BY <1>4 DEF TakesInto
<1>15. sessions'[t] = x /\ \A k \in DOMAIN sessions : k # t => sessions'[k] = sessions[k]
  BY <1>14 DEF Changed
<1>18. sessions'[s] \in Session
  <2>1. DOMAIN sessions' = DOMAIN sessions
    BY <1>14 DEF Changed
  <2> QED
    BY <2>1, SessionsTyped
<1>16. CASE s = t
  <2>1. /\ LiveCash(s)' = LiveCash(s) + p
        /\ DeltasOf(custody, LinesOf(s))' = DeltasOf(custody, LinesOf(s)) + p
        /\ sessions'[s] = x
    BY <1>8, <1>11, <1>12, <1>15, <1>16
  <2>2. Follows(x, sessions[s], p, p)
    <3>1. sessions[s].collected \in Int /\ sessions[s].reversed \in Int
      BY <1>13 DEF CashNumbers
    <3> QED
      BY <1>9, <1>14, <1>16, <3>1 DEF Follows
  <2> QED
    BY <1>18, <2>1, <2>2, MovedBalances
<1>17. CASE s # t
  <2>1. LiveCash(s)' = LiveCash(s) /\ DeltasOf(custody, LinesOf(s))' = DeltasOf(custody, LinesOf(s))
    <3>1. LiveCash(s) \in Int /\ DeltasOf(custody, LinesOf(s)) \in Int
      BY <1>13 DEF CashNumbers, Balanced
    <3> QED
      BY <1>11, <1>12, <1>17, <3>1
  <2>2. sessions'[s] = sessions[s]
    BY <1>15, <1>17
  <2>3. SameCash(sessions'[s], sessions[s])
    BY <2>2, SameSame
  <2> QED
    BY <1>18, <2>1, <2>2, <2>3, CashStands
<1> QED
  BY <1>16, <1>17

\* A reversal takes the cash out of a session that is open; one that is over keeps
\* what is expected, and notes at least as much.
LEMMA ReturningBalances ==
    ASSUME HoursInv, [AfterHoursNext]_allVars, NEW k \in DOMAIN payments, ReverseAnyPayment(k),
           NEW s \in DOMAIN sessions
    PROVE  BalancedAfter(s)
<1>1. BillInv /\ AfterHoursTypeOK /\ RefsInv
  BY DEF HoursInv
<1>2. LiveCash(s)' = LiveCash(s) - IF takenIn[k] = s /\ IsCash(k) THEN payments[k].amount ELSE 0
  BY <1>1, PaymentReversed, CashLost
<1>3. CashNumbers(s) /\ s # 0
  BY CountsKnown
<1>4. CASE takenIn[k] = 0
  <2>1. UNCHANGED <<sessions, custody>>
    BY <1>4 DEF ReverseAnyPayment
  <2>2. LiveCash(s)' = LiveCash(s)
    BY <1>2, <1>3, <1>4 DEF CashNumbers
  <2>3. SameCash(sessions'[s], sessions[s])
    BY <2>1, SameSame
  <2>4. DeltasOf(custody, LinesOf(s))' = DeltasOf(custody, LinesOf(s))
    BY <2>1, NothingBooked
  <2> QED
    BY <2>1, <2>2, <2>3, <2>4, SessionsTyped, CashStands
<1>5. CASE takenIn[k] # 0
  <2> DEFINE t == takenIn[k]
             n == payments[k].amount
             p == IF IsCash(k) THEN n ELSE 0
             y == SessionReversed(sessions[t], n, p)
             d == IF sessions[t].status = "open" THEN -p ELSE 0
  <2>1. /\ t \in DOMAIN sessions /\ p \in Nat /\ n \in Nat
        /\ Changed(sessions', sessions, t, y)
        /\ y.status = sessions[t].status
        /\ y.float = sessions[t].float /\ y.collected = sessions[t].collected
        /\ IF sessions[t].status = "open"
           THEN /\ y.expected = sessions[t].expected - p
                /\ y.reversed = sessions[t].reversed + p /\ y.late = sessions[t].late
           ELSE /\ y.expected = sessions[t].expected
                /\ y.reversed = sessions[t].reversed /\ y.late = sessions[t].late + n
        /\ Entered(t, d)
    BY <1>1, <1>5, Returns DEF Entered
  <2>2. p <= n /\ d \in Int
    BY <2>1
  <2>3. LiveCash(s)' = LiveCash(s) - IF t = s THEN p ELSE 0
    BY <1>2
  <2>4. d = IF sessions[t].status = "open" THEN -p ELSE 0
    OBVIOUS
  <2> HIDE DEF t, n, p, y, d
  <2>5. t \in Nat
    BY <2>1, CountsKnown
  <2>6. DeltasOf(custody, LinesOf(s))' = DeltasOf(custody, LinesOf(s)) + IF s = t THEN d ELSE 0
    BY <1>1, <2>1, <2>2, <2>5, Booked
  <2>7. sessions'[t] = y /\ \A j \in DOMAIN sessions : j # t => sessions'[j] = sessions[j]
    BY <2>1 DEF Changed
  <2>10. sessions'[s] \in Session
    <3>1. DOMAIN sessions' = DOMAIN sessions
      BY <2>1 DEF Changed
    <3> QED
      BY <3>1, SessionsTyped
  <2>8. CASE s = t
    <3>1. /\ LiveCash(s)' = LiveCash(s) + (-p)
          /\ DeltasOf(custody, LinesOf(s))' = DeltasOf(custody, LinesOf(s)) + d
          /\ sessions'[s] = y
      <4>1. LiveCash(s) \in Int /\ p \in Int
        BY <1>3, <2>1 DEF CashNumbers
      <4> QED
        BY <2>3, <2>6, <2>7, <2>8, <4>1
    <3>2. Follows(y, sessions[s], d, -p)
      <4>1. /\ sessions[s].collected \in Int /\ sessions[s].reversed \in Int
            /\ sessions[s].expected \in Int /\ sessions[s].late \in Int
        BY <1>3 DEF CashNumbers
      <4>2. p \in Nat /\ n \in Nat /\ p <= n
        BY <2>1, <2>2
      <4>3. CASE sessions[s].status = "open"
        BY <2>1, <2>4, <2>8, <4>1, <4>2, <4>3 DEF Follows
      <4>4. CASE sessions[s].status # "open"
        BY <2>1, <2>4, <2>8, <4>1, <4>2, <4>4 DEF Follows
      <4> QED
        BY <4>3, <4>4
    <3> QED
      BY <2>10, <3>1, <3>2, MovedBalances
  <2>9. CASE s # t
    <3>1. LiveCash(s)' = LiveCash(s) /\ DeltasOf(custody, LinesOf(s))' = DeltasOf(custody, LinesOf(s))
      <4>1. LiveCash(s) \in Int /\ DeltasOf(custody, LinesOf(s)) \in Int
        BY <1>3 DEF CashNumbers, Balanced
      <4> QED
        BY <2>3, <2>6, <2>9, <4>1
    <3>2. sessions'[s] = sessions[s]
      BY <2>7, <2>9
    <3>3. SameCash(sessions'[s], sessions[s])
      BY <3>2, SameSame
    <3> QED
      BY <2>10, <3>1, <3>2, <3>3, CashStands
  <2> QED
    BY <2>8, <2>9
<1> QED
  BY <1>4, <1>5

\* What is booked for a session is a number, if any.
LEMMA LinesCount ==
    ASSUME AfterHoursTypeOK, NEW s
    PROVE  DeltasOf(custody, LinesOf(s)) \in Int
<1> DEFINE S == LinesOf(s)
<1>1. /\ DOMAIN custody = 1..Len(custody) /\ Len(custody) \in Nat
      /\ custody \in Seq([session: Nat, delta: Int])
  BY DocumentTypes DEF AfterHoursTypeOK
<1>2. IsFiniteSet(S) /\ S \subseteq 1..Len(custody)
  <2>1. IsFiniteSet(1..Len(custody))
    BY <1>1, FS_Interval
  <2>2. S \subseteq 1..Len(custody)
    BY <1>1 DEF LinesOf
  <2> QED
    BY <2>1, <2>2, FS_Subset
<1> DEFINE w == [e \in S |-> custody[e].delta]
<1>3. \A e \in S : w[e] = custody[e].delta
  OBVIOUS
<1>4. \A e \in S : w[e] \in Int
  <2>1. \A e \in 1..Len(custody) : custody[e] \in [session: Nat, delta: Int]
    BY <1>1, ElementOfSeq
  <2> QED
    BY <1>2, <2>1
<1> HIDE DEF w, S
<1>5. DeltasOf(custody, S) = Total(w, S)
  BY <1>2, <1>3, DeltasTotal
<1>6. Total(w, S) \in Int
  BY <1>2, <1>4, TotalType
<1> QED
  BY <1>5, <1>6 DEF S

\* A session is opened with its float, the first line of its book.
LEMMA OpeningBalances ==
    ASSUME HoursInv, [AfterHoursNext]_allVars, NEW w \in Workers, NEW a \in DOMAIN auths,
           OpenAfterHoursSession(w, a), NEW s \in DOMAIN sessions'
    PROVE  BalancedAfter(s)
<1>1. BillInv /\ AfterHoursTypeOK /\ RefsInv
  BY DEF HoursInv
<1> DEFINE n == FloatFor(a)
           t == Len(sessions) + 1
           x == NewSession(w, a, n)
<1>2. /\ n \in Nat /\ t \in Nat /\ x \in Session /\ Grown(sessions', sessions, x)
      /\ custody' = IF n > 0 THEN Append(custody, [session |-> t, delta |-> n]) ELSE custody
  BY <1>1, Opens
<1>3. x.expected = n /\ x.float = n /\ x.collected = 0 /\ x.reversed = 0 /\ x.late = 0
  BY DEF NewSession
<1> HIDE DEF n, x
<1>4. UNCHANGED <<payments, takenIn>>
  BY DEF OpenAfterHoursSession, billingVars
<1>5. LiveCash(s)' = LiveCash(s)
  BY <1>4, CashRests
<1>6. /\ DOMAIN sessions' = 1..t /\ DOMAIN sessions = 1..Len(sessions) /\ Len(sessions) \in Nat
      /\ \A k \in 1..Len(sessions) : sessions'[k] = sessions[k]
      /\ sessions'[t] = x
  BY <1>2 DEF Grown
<1>7. DeltasOf(custody, LinesOf(s))' = DeltasOf(custody, LinesOf(s)) + IF s = t THEN n ELSE 0
  <2>1. CASE n > 0
    <3>1. Entered(t, n)
      BY <1>2, <2>1 DEF Entered
    <3> HIDE DEF t
    <3> QED
      BY <1>1, <1>2, <3>1, Booked
  <2>2. CASE ~(n > 0)
    <3>1. UNCHANGED custody
      BY <1>2, <2>2
    <3>2. n = 0
      BY <1>2, <2>2
    <3>3. DeltasOf(custody, LinesOf(s))' = DeltasOf(custody, LinesOf(s))
      BY <3>1, NothingBooked
    <3>4. DeltasOf(custody, LinesOf(s)) \in Int
      BY <1>1, LinesCount
    <3> QED
      BY <3>2, <3>3, <3>4
  <2> QED
    BY <2>1, <2>2
<1>8. CASE s \in DOMAIN sessions
  <2>1. s # t /\ sessions'[s] = sessions[s]
    BY <1>6, <1>8
  <2>2. DeltasOf(custody, LinesOf(s))' = DeltasOf(custody, LinesOf(s))
    <3>1. DeltasOf(custody, LinesOf(s)) \in Int
      BY <1>1, LinesCount
    <3> HIDE DEF t
    <3> QED
      BY <1>7, <2>1, <3>1
  <2>3. SameCash(sessions'[s], sessions[s])
    BY <2>1, SameSame
  <2> HIDE DEF t
  <2> QED
    BY <1>5, <1>8, <2>1, <2>2, <2>3, SessionsTyped, CashStands
<1>9. CASE s \notin DOMAIN sessions
  <2>1. s = t /\ t \notin 1..Len(sessions)
    BY <1>6, <1>9
  <2>2. LinesOf(s) = {}
    <3>1. \A e \in DOMAIN custody : custody[e].session \in DOMAIN sessions
      BY <1>1 DEF RefsInv
    <3> QED
      BY <1>9, <3>1 DEF LinesOf
  <2>3. CashOf(s) = {}
    <3>1. DOMAIN takenIn = DOMAIN payments
      BY PaymentsFacts, LenProperties
    <3>2. \A k \in DOMAIN payments : takenIn[k] \in 0..Len(sessions)
      BY <1>1, <3>1 DEF RefsInv
    <3>3. s \notin 0..Len(sessions)
      BY <1>6, <2>1
    <3> QED
      BY <3>2, <3>3 DEF CashOf, TakenIn
  <2>4. DeltasOf(custody, LinesOf(s)) = 0
    BY <2>2, DeltasEmpty
  <2>5. LiveCash(s) = 0
    BY <1>1, <2>3, CashType, AmountsEmpty
  <2>6. sessions'[s] = x
    BY <1>6, <2>1
  <2>7. DeltasOf(custody, LinesOf(s))' = n
    BY <1>2, <1>7, <2>1, <2>4
  <2> HIDE DEF t
  <2> QED
    BY <1>2, <1>3, <1>5, <2>5, <2>6, <2>7 DEF BalancedAfter, Balanced
<1> QED
  BY <1>8, <1>9

\* When a session ends, what is expected is worked out again: it comes to the same.
LEMMA EndingBalances ==
    ASSUME HoursInv, [AfterHoursNext]_allVars, NEW t \in DOMAIN sessions,
           CloseAfterHoursSession(t) \/ CancelAfterHoursSession(t), NEW s \in DOMAIN sessions
    PROVE  BalancedAfter(s)
<1>1. BillInv /\ AfterHoursTypeOK
  BY DEF HoursInv
<1>2. UNCHANGED <<payments, takenIn, custody>>
  BY DEF CloseAfterHoursSession, CancelAfterHoursSession, billingVars
<1>3. LiveCash(s)' = LiveCash(s)
  BY <1>2, CashRests
<1>4. DeltasOf(custody, LinesOf(s))' = DeltasOf(custody, LinesOf(s))
  BY <1>2, NothingBooked
<1>5. CashNumbers(s) /\ sessions[s] \in Session
  BY CountsKnown
<1>6. CASE CloseAfterHoursSession(t)
  <2> DEFINE expected == sessions[t].float + LiveCash(t)
  <2>1. expected \in Nat /\ sessions[t].status = "open"
    BY <1>1, <1>6, Closes
  <2>2. PICK x \in Session :
           /\ Changed(sessions', sessions, t, x)
           /\ x.float = sessions[t].float /\ x.late = sessions[t].late
           /\ x.expected = expected /\ x.expected = x.float + x.collected - x.reversed
           /\ x.status = IF expected > 0 THEN "handover_pending" ELSE "closed"
    BY <1>1, <1>6, Closes
  <2>3. /\ DOMAIN sessions' = DOMAIN sessions
        /\ sessions'[t] = x /\ \A k \in DOMAIN sessions : k # t => sessions'[k] = sessions[k]
    BY <2>2 DEF Changed
  <2>4. CASE s = t
    <3>1. expected = sessions[s].expected
      BY <1>5, <2>1, <2>4 DEF CashNumbers, Balanced
    <3>2. /\ sessions'[s] = x /\ x.status # "open"
          /\ x.float = sessions[s].float /\ x.late = sessions[s].late
          /\ x.expected = sessions[s].expected /\ x.expected = x.float + x.collected - x.reversed
      BY <2>2, <2>3, <2>4, <3>1
    <3> HIDE DEF expected
    <3>3. Balanced(x, DeltasOf(custody, LinesOf(s)), LiveCash(s))
      BY <1>5, <3>2 DEF CashNumbers, Balanced
    <3> QED
      BY <1>3, <1>4, <3>2, <3>3 DEF BalancedAfter
  <2>5. CASE s # t
    <3>1. sessions'[s] = sessions[s]
      BY <2>3, <2>5
    <3>2. SameCash(sessions'[s], sessions[s])
      BY <3>1, SameSame
    <3> QED
      BY <1>3, <1>4, <2>3, <3>1, <3>2, SessionsTyped, CashStands
  <2> QED
    BY <2>4, <2>5
<1>7. CASE CancelAfterHoursSession(t)
  <2>1. PICK x \in Session : /\ Changed(sessions', sessions, t, x)
                             /\ SameCash(x, sessions[t]) /\ x.status = "cancelled"
    BY <1>1, <1>7, Cancels
  <2>2. /\ DOMAIN sessions' = DOMAIN sessions
        /\ sessions'[t] = x /\ \A k \in DOMAIN sessions : k # t => sessions'[k] = sessions[k]
    BY <2>1 DEF Changed
  <2>3. SameCash(sessions'[s], sessions[s])
    BY <2>1, <2>2, SameSame
  <2>4. sessions'[s].status = "open" => sessions[s].status = "open"
    BY <2>1, <2>2
  <2> QED
    BY <1>3, <1>4, <2>2, <2>3, <2>4, SessionsTyped, CashStands
<1> QED
  BY <1>6, <1>7

\* The cash of every session is told the same way three times, after every step.
LEMMA CustodyKept == HoursInv /\ [AfterHoursNext]_allVars => CustodyInv'
<1> SUFFICES ASSUME HoursInv, [AfterHoursNext]_allVars, NEW s \in DOMAIN sessions'
             PROVE  BalancedAfter(s)
  BY DEF CustodyInv, BalancedAfter, Balanced
<1>1. HoursShapes
  BY HoursShape
<1>2. CASE SessionsRest \/ CashierPaid \/ HandsOver
  <2>1. UNCHANGED custody
    BY <1>2 DEF SessionsRest, CashierPaid, HandsOver
  <2>2. DeltasOf(custody, LinesOf(s))' = DeltasOf(custody, LinesOf(s))
    BY <2>1, NothingBooked
  <2>3. /\ s \in DOMAIN sessions
        /\ SameCash(sessions'[s], sessions[s])
        /\ sessions'[s].status = "open" => sessions[s].status = "open"
    <3>1. CASE UNCHANGED sessions
      BY <3>1, SameSame
    <3>2. CASE HandsOver
      <4>1. PICK t \in DOMAIN sessions, x \in Session :
                /\ Changed(sessions', sessions, t, x) /\ SameCash(x, sessions[t])
                /\ x.status \in {"handover_pending", "reconciled"}
        BY <3>2 DEF HandsOver
      <4>2. /\ DOMAIN sessions' = DOMAIN sessions
            /\ sessions'[t] = x /\ \A k \in DOMAIN sessions : k # t => sessions'[k] = sessions[k]
        BY <4>1 DEF Changed
      <4> QED
        BY <4>1, <4>2, SameSame
    <3> QED
      BY <1>2, <3>1, <3>2 DEF SessionsRest, CashierPaid
  <2>4. s \in Nat \ {0} /\ CashNumbers(s)
    BY <2>3, CountsKnown
  <2>5. LiveCash(s)' = LiveCash(s)
    <3>1. CASE SessionsRest \/ HandsOver
      BY <3>1, CashRests DEF SessionsRest, HandsOver
    <3>2. CASE CashierPaid
      <4>1. PICK n \in Nat, inCash \in BOOLEAN : PaidInto(0, n, inCash)
        BY <3>2 DEF CashierPaid
      <4>2. LiveCash(s)' = LiveCash(s) + IF s = 0 /\ inCash THEN n ELSE 0
        BY <4>1, CashPaid
      <4>3. LiveCash(s) \in Int
        BY <2>4 DEF CashNumbers
      <4> QED
        BY <2>4, <4>2, <4>3
    <3> QED
      BY <1>2, <3>1, <3>2
  <2> QED
    BY <2>2, <2>3, <2>5, SessionsTyped, CashStands
<1>3. CASE WorkerPaid
  <2>1. DOMAIN sessions' = DOMAIN sessions
    BY <1>3, SessionsStanding DEF StandingShapes, SessionsStand
  <2> QED
    BY <1>3, <2>1, TakingBalances
<1>4. CASE \E w \in Workers, a \in DOMAIN auths : OpenAfterHoursSession(w, a)
  BY <1>4, OpeningBalances
<1>5. CASE \E t \in DOMAIN sessions : CloseAfterHoursSession(t) \/ CancelAfterHoursSession(t)
  <2>1. PICK t \in DOMAIN sessions : CloseAfterHoursSession(t) \/ CancelAfterHoursSession(t)
    BY <1>5
  <2>2. \E x : Ends(t, x)
    BY <2>1, Endings
  <2>3. DOMAIN sessions' = DOMAIN sessions
    BY <2>2 DEF Ends, Changed
  <2> QED
    BY <2>1, <2>3, EndingBalances
<1>6. CASE \E k \in DOMAIN payments : ReverseAnyPayment(k)
  <2>1. DOMAIN sessions' = DOMAIN sessions
    BY <1>6, SessionsStanding DEF StandingShapes, SessionsStand
  <2> QED
    BY <1>6, <2>1, ReturningBalances
<1> QED
  BY <1>1, <1>2, <1>3, <1>4, <1>5, <1>6 DEF HoursShapes

-----------------------------------------------------------------------------
(* What sessions, handovers and discrepancies say of each other *)

Fits(ss, hs, gs) ==
    /\ \A s \in DOMAIN ss : SessionFits(ss, hs, s)
    /\ \A h \in DOMAIN hs : HandoverFits(ss, hs, h) /\ CountFits(hs, gs, h)
    /\ \A d \in DOMAIN gs : GapFits(hs, gs, d)

LEMMA Fitting == StoryInv => Fits(sessions, handovers, gaps)
BY DEF StoryInv, Fits

\* What the three say of how cash was handed over stays as it is; a discrepancy may
\* be looked into.
StoryStands ==
    /\ DOMAIN sessions' = DOMAIN sessions /\ DOMAIN handovers' = DOMAIN handovers
    /\ DOMAIN gaps' = DOMAIN gaps
    /\ \A s \in DOMAIN sessions :
          /\ sessions'[s].status = sessions[s].status
          /\ sessions'[s].handover = sessions[s].handover
          /\ sessions'[s].handoverStatus = sessions[s].handoverStatus
          /\ sessions[s].status # "open" => sessions'[s].expected = sessions[s].expected
    /\ \A h \in DOMAIN handovers :
          /\ handovers'[h].session = handovers[h].session
          /\ handovers'[h].expected = handovers[h].expected
          /\ handovers'[h].actual = handovers[h].actual
          /\ handovers'[h].status = handovers[h].status
          /\ handovers'[h].gap = handovers[h].gap
    /\ \A d \in DOMAIN gaps :
          /\ gaps'[d].handover = gaps[d].handover
          /\ gaps'[d].difference = gaps[d].difference
          /\ gaps'[d].loss = gaps[d].loss
          /\ \/ gaps'[d].status = gaps[d].status
             \/ gaps[d].status = "open" /\ gaps'[d].status = "under_review"

LEMMA StandingFits ==
    ASSUME StoryInv, StoryStands
    PROVE  Fits(sessions', handovers', gaps')
<1>1. Fits(sessions, handovers, gaps)
  BY Fitting
<1>2. ASSUME NEW s \in DOMAIN sessions' PROVE SessionFits(sessions', handovers', s)
  BY <1>1 DEF Fits, SessionFits, StoryStands
<1>3. ASSUME NEW h \in DOMAIN handovers' PROVE HandoverFits(sessions', handovers', h)
  <2>1. h \in DOMAIN handovers /\ HandoverFits(sessions, handovers, h)
    BY <1>1 DEF Fits, StoryStands
  <2>2. handovers[h].session \in DOMAIN sessions /\ sessions[handovers[h].session].status # "open"
    BY <2>1 DEF HandoverFits
  <2> QED
    BY <2>1, <2>2 DEF HandoverFits, StoryStands
<1>4. ASSUME NEW h \in DOMAIN handovers' PROVE CountFits(handovers', gaps', h)
  BY <1>1 DEF Fits, CountFits, StoryStands
<1>5. ASSUME NEW d \in DOMAIN gaps' PROVE GapFits(handovers', gaps', d)
  <2>1. d \in DOMAIN gaps /\ GapFits(handovers, gaps, d)
    BY <1>1 DEF Fits, StoryStands
  <2>2. gaps'[d].status \in {"resolved", "waived"} <=> gaps[d].status \in {"resolved", "waived"}
    BY <2>1 DEF StoryStands
  <2>3. gaps[d].status = "resolved" => gaps'[d].status = "resolved"
    BY <2>1 DEF StoryStands
  <2> QED
    BY <2>1, <2>2, <2>3 DEF GapFits, StoryStands
<1> QED
  BY <1>2, <1>3, <1>4, <1>5 DEF Fits

\* A session that is open has no handover, and no handover is of it.
LEMMA OpenAlone ==
    ASSUME AfterHoursTypeOK, StoryInv, NEW s \in DOMAIN sessions, sessions[s].status = "open"
    PROVE  /\ sessions[s].handover = 0
           /\ \A h \in DOMAIN handovers : handovers[h].session # s
<1>1. sessions[s].handover = 0
  BY DEF StoryInv, SessionFits
<1>2. ASSUME NEW h \in DOMAIN handovers PROVE handovers[h].session # s
  BY HandoverKnown
<1> QED
  BY <1>1, <1>2

\* A session more, with nothing handed over yet.
LEMMA OpeningFits ==
    ASSUME AfterHoursTypeOK, StoryInv, NEW x, Grown(sessions', sessions, x),
           x.status = "open", x.handover = 0, UNCHANGED <<handovers, gaps>>
    PROVE  Fits(sessions', handovers', gaps')
<1>1. Fits(sessions, handovers, gaps)
  BY Fitting
<1>2. /\ DOMAIN sessions = 1..Len(sessions) /\ DOMAIN sessions' = 1..(Len(sessions) + 1)
      /\ Len(sessions) \in Nat /\ sessions'[Len(sessions) + 1] = x
      /\ \A s \in 1..Len(sessions) : sessions'[s] = sessions[s]
  BY DEF Grown
<1>3. ASSUME NEW s \in DOMAIN sessions' PROVE SessionFits(sessions', handovers', s)
  <2>1. CASE s \in DOMAIN sessions
    BY <1>1, <1>2, <2>1 DEF Fits, SessionFits
  <2>2. CASE s = Len(sessions) + 1
    BY <1>2, <2>2 DEF SessionFits
  <2> QED
    BY <1>2, <2>1, <2>2
<1>4. ASSUME NEW h \in DOMAIN handovers' PROVE HandoverFits(sessions', handovers', h)
  <2>1. HandoverFits(sessions, handovers, h) /\ handovers'[h] = handovers[h]
    BY <1>1 DEF Fits
  <2>2. /\ handovers[h].session \in DOMAIN sessions /\ handovers[h].session \in DOMAIN sessions'
        /\ sessions'[handovers[h].session] = sessions[handovers[h].session]
    BY <1>2, <2>1 DEF HandoverFits
  <2> QED
    BY <2>1, <2>2 DEF HandoverFits
<1>5. ASSUME NEW h \in DOMAIN handovers' PROVE CountFits(handovers', gaps', h)
  BY <1>1 DEF Fits
<1>6. ASSUME NEW d \in DOMAIN gaps' PROVE GapFits(handovers', gaps', d)
  BY <1>1 DEF Fits
<1> QED
  BY <1>3, <1>4, <1>5, <1>6 DEF Fits

\* A session ends with nothing to hand over.
LEMMA EndingFits ==
    ASSUME AfterHoursTypeOK, StoryInv, NEW s \in DOMAIN sessions, sessions[s].status = "open",
           NEW x, Changed(sessions', sessions, s, x), x.handover = 0,
           x.status \in {"closed", "cancelled"}, UNCHANGED <<handovers, gaps>>
    PROVE  Fits(sessions', handovers', gaps')
<1>1. Fits(sessions, handovers, gaps)
  BY Fitting
<1>2. /\ DOMAIN sessions' = DOMAIN sessions /\ sessions'[s] = x
      /\ \A t \in DOMAIN sessions : t # s => sessions'[t] = sessions[t]
  BY DEF Changed
<1>3. ASSUME NEW t \in DOMAIN sessions' PROVE SessionFits(sessions', handovers', t)
  BY <1>1, <1>2 DEF Fits, SessionFits
<1>4. ASSUME NEW h \in DOMAIN handovers' PROVE HandoverFits(sessions', handovers', h)
  <2>1. HandoverFits(sessions, handovers, h) /\ handovers'[h] = handovers[h]
    BY <1>1 DEF Fits
  <2>2. handovers[h].session # s
    BY OpenAlone
  <2>3. /\ handovers[h].session \in DOMAIN sessions /\ handovers[h].session \in DOMAIN sessions'
        /\ sessions'[handovers[h].session] = sessions[handovers[h].session]
    BY <1>2, <2>1, <2>2 DEF HandoverFits
  <2> QED
    BY <2>1, <2>3 DEF HandoverFits
<1>5. ASSUME NEW h \in DOMAIN handovers' PROVE CountFits(handovers', gaps', h)
  BY <1>1 DEF Fits
<1>6. ASSUME NEW d \in DOMAIN gaps' PROVE GapFits(handovers', gaps', d)
  BY <1>1 DEF Fits
<1> QED
  BY <1>3, <1>4, <1>5, <1>6 DEF Fits

\* A session ends with cash to hand over.
LEMMA ClosingFits ==
    ASSUME AfterHoursTypeOK, StoryInv, NEW s \in DOMAIN sessions, sessions[s].status = "open",
           NEW x, Changed(sessions', sessions, s, x), x.handover = Len(handovers) + 1,
           x.status = "handover_pending", x.handoverStatus = "pending",
           Grown(handovers', handovers, NewHandover(s, x.expected)), UNCHANGED gaps
    PROVE  Fits(sessions', handovers', gaps')
<1> DEFINE n == Len(handovers) + 1
           y == NewHandover(s, x.expected)
<1>1. Fits(sessions, handovers, gaps)
  BY Fitting
<1>2. /\ DOMAIN sessions' = DOMAIN sessions /\ sessions'[s] = x
      /\ \A t \in DOMAIN sessions : t # s => sessions'[t] = sessions[t]
  BY DEF Changed
<1>3. /\ DOMAIN handovers = 1..Len(handovers) /\ DOMAIN handovers' = 1..n /\ Len(handovers) \in Nat
      /\ handovers'[n] = y /\ \A h \in 1..Len(handovers) : handovers'[h] = handovers[h]
  BY DEF Grown
<1>4. y.session = s /\ y.expected = x.expected /\ y.status = "pending" /\ y.gap = 0
  BY DEF NewHandover
<1> HIDE DEF y
<1>5. ASSUME NEW t \in DOMAIN sessions' PROVE SessionFits(sessions', handovers', t)
  <2>1. CASE t = s
    BY <1>2, <1>3, <1>4, <2>1 DEF SessionFits
  <2>2. CASE t # s
    <3>1. SessionFits(sessions, handovers, t) /\ sessions'[t] = sessions[t]
      BY <1>1, <1>2, <2>2 DEF Fits
    <3>2. \A h \in DOMAIN handovers : h \in DOMAIN handovers' /\ handovers'[h] = handovers[h]
      BY <1>3
    <3> QED
      BY <3>1, <3>2 DEF SessionFits
  <2> QED
    BY <2>1, <2>2
<1>6. ASSUME NEW h \in DOMAIN handovers' PROVE HandoverFits(sessions', handovers', h)
  <2>1. CASE h = n
    BY <1>2, <1>3, <1>4, <2>1 DEF HandoverFits
  <2>2. CASE h # n
    <3>1. h \in DOMAIN handovers /\ handovers'[h] = handovers[h]
      BY <1>3, <2>2
    <3>2. HandoverFits(sessions, handovers, h) /\ handovers[h].session # s
      BY <1>1, <3>1, OpenAlone DEF Fits
    <3>3. /\ handovers[h].session \in DOMAIN sessions /\ handovers[h].session \in DOMAIN sessions'
          /\ sessions'[handovers[h].session] = sessions[handovers[h].session]
      BY <1>2, <3>2 DEF HandoverFits
    <3> QED
      BY <3>1, <3>2, <3>3 DEF HandoverFits
  <2> QED
    BY <2>1, <2>2
<1>7. ASSUME NEW h \in DOMAIN handovers' PROVE CountFits(handovers', gaps', h)
  <2>1. CASE h = n
    BY <1>3, <1>4, <2>1 DEF CountFits
  <2>2. CASE h # n
    <3>1. h \in DOMAIN handovers /\ handovers'[h] = handovers[h]
      BY <1>3, <2>2
    <3> QED
      BY <1>1, <3>1 DEF Fits, CountFits
  <2> QED
    BY <2>1, <2>2
<1>8. ASSUME NEW d \in DOMAIN gaps' PROVE GapFits(handovers', gaps', d)
  <2>1. GapFits(handovers, gaps, d)
    BY <1>1 DEF Fits
  <2>2. \A h \in DOMAIN handovers : h \in DOMAIN handovers' /\ handovers'[h] = handovers[h]
    BY <1>3
  <2> QED
    BY <2>1, <2>2 DEF GapFits
<1> QED
  BY <1>5, <1>6, <1>7, <1>8 DEF Fits

\* A session and its handover agree after a step that says how it stands.
LEMMA StandsFits ==
    ASSUME AfterHoursTypeOK, StoryInv, NEW h \in DOMAIN handovers, NEW x, NEW y,
           NEW status, NEW standing, Stands(handovers[h].session, h, x, y, status, standing),
           status = (IF standing \in {"received", "reconciled"} THEN "reconciled"
                     ELSE "handover_pending"),
           standing = "received" => y.actual = y.expected
    PROVE  /\ \A s \in DOMAIN sessions' : SessionFits(sessions', handovers', s)
           /\ \A i \in DOMAIN handovers' : HandoverFits(sessions', handovers', i)
<1> DEFINE t == handovers[h].session
<1>1. Fits(sessions, handovers, gaps)
  BY Fitting
<1>2. /\ t \in DOMAIN sessions /\ sessions[t].handover = h /\ h # 0
      /\ sessions[t].status \in {"handover_pending", "reconciled"}
  BY HandoverKnown
<1>3. /\ DOMAIN sessions' = DOMAIN sessions /\ sessions'[t] = x
      /\ \A s \in DOMAIN sessions : s # t => sessions'[s] = sessions[s]
      /\ x.handover = sessions[t].handover /\ x.expected = sessions[t].expected
      /\ x.status = status /\ x.handoverStatus = standing
  BY DEF Stands, Changed, SameCash
<1>4. /\ DOMAIN handovers' = DOMAIN handovers /\ handovers'[h] = y
      /\ \A i \in DOMAIN handovers : i # h => handovers'[i] = handovers[i]
      /\ y.session = t /\ y.expected = handovers[h].expected /\ y.status = standing
  BY DEF Stands, Changed
<1>5. sessions[t].expected = handovers[h].expected
  BY <1>1 DEF Fits, HandoverFits
<1> HIDE DEF t
<1>6. ASSUME NEW s \in DOMAIN sessions' PROVE SessionFits(sessions', handovers', s)
  <2>1. CASE s = t
    BY <1>2, <1>3, <1>4, <2>1 DEF SessionFits
  <2>2. CASE s # t
    <3>1. SessionFits(sessions, handovers, s) /\ sessions'[s] = sessions[s]
      BY <1>1, <1>3, <2>2 DEF Fits
    <3>2. \A i \in DOMAIN handovers : i \in DOMAIN handovers' /\ handovers'[i].session = handovers[i].session
      BY <1>4 DEF t
    <3> QED
      BY <3>1, <3>2 DEF SessionFits
  <2> QED
    BY <2>1, <2>2
<1>7. ASSUME NEW i \in DOMAIN handovers' PROVE HandoverFits(sessions', handovers', i)
  <2>1. CASE i = h
    BY <1>2, <1>3, <1>4, <1>5, <2>1 DEF HandoverFits
  <2>2. CASE i # h
    <3>1. HandoverFits(sessions, handovers, i) /\ handovers'[i] = handovers[i]
      BY <1>1, <1>4, <2>2 DEF Fits
    <3>2. handovers[i].session # t
      BY <1>2, <2>2, <3>1 DEF HandoverFits
    <3>3. /\ handovers[i].session \in DOMAIN sessions /\ handovers[i].session \in DOMAIN sessions'
          /\ sessions'[handovers[i].session] = sessions[handovers[i].session]
      BY <1>3, <3>1, <3>2 DEF HandoverFits
    <3> QED
      BY <3>1, <3>3 DEF HandoverFits
  <2> QED
    BY <2>1, <2>2
<1> QED
  BY <1>6, <1>7

\* A handover that was not counted has no discrepancy, and none is of it.
LEMMA UncountedAlone ==
    ASSUME AfterHoursTypeOK, StoryInv, NEW h \in DOMAIN handovers, Uncounted(h)
    PROVE  handovers[h].gap = 0 /\ \A d \in DOMAIN gaps : gaps[d].handover # h
<1>1. handovers[h].gap = 0
  BY DEF StoryInv, CountFits, Uncounted
<1>2. ASSUME NEW d \in DOMAIN gaps PROVE gaps[d].handover # h
  <2>1. d # 0
    BY DocumentTypes
  <2> QED
    BY <1>1, <2>1 DEF StoryInv, GapFits
<1> QED
  BY <1>1, <1>2

\* Nothing counted, no discrepancy: one is submitted, or what was counted is right.
LEMMA AgreeingFits ==
    ASSUME AfterHoursTypeOK, StoryInv, NEW h \in DOMAIN handovers, Uncounted(h),
           NEW y, Changed(handovers', handovers, h, y), y.gap = 0,
           y.status \notin {"discrepancy", "reconciled"}, UNCHANGED gaps
    PROVE  /\ \A i \in DOMAIN handovers' : CountFits(handovers', gaps', i)
           /\ \A d \in DOMAIN gaps' : GapFits(handovers', gaps', d)
<1>1. Fits(sessions, handovers, gaps)
  BY Fitting
<1>2. /\ DOMAIN handovers' = DOMAIN handovers /\ handovers'[h] = y
      /\ \A i \in DOMAIN handovers : i # h => handovers'[i] = handovers[i]
  BY DEF Changed
<1>3. ASSUME NEW i \in DOMAIN handovers' PROVE CountFits(handovers', gaps', i)
  BY <1>1, <1>2 DEF Fits, CountFits
<1>4. ASSUME NEW d \in DOMAIN gaps' PROVE GapFits(handovers', gaps', d)
  <2>1. GapFits(handovers, gaps, d) /\ gaps[d].handover # h
    BY <1>1, UncountedAlone DEF Fits
  <2>2. handovers'[gaps[d].handover] = handovers[gaps[d].handover]
    BY <1>2, <2>1 DEF GapFits
  <2> QED
    BY <1>2, <2>1, <2>2 DEF GapFits
<1> QED
  BY <1>3, <1>4

\* What was counted is not what was expected: a discrepancy more.
LEMMA DifferingFits ==
    ASSUME AfterHoursTypeOK, StoryInv, NEW h \in DOMAIN handovers, Uncounted(h),
           NEW y, Changed(handovers', handovers, h, y), y.gap = Len(gaps) + 1,
           y.status = "discrepancy", y.actual - y.expected # 0,
           Grown(gaps', gaps, NewGap(h, y.actual - y.expected))
    PROVE  /\ \A i \in DOMAIN handovers' : CountFits(handovers', gaps', i)
           /\ \A d \in DOMAIN gaps' : GapFits(handovers', gaps', d)
<1> DEFINE n == Len(gaps) + 1
           g == NewGap(h, y.actual - y.expected)
<1>1. Fits(sessions, handovers, gaps)
  BY Fitting
<1>2. /\ DOMAIN handovers' = DOMAIN handovers /\ handovers'[h] = y
      /\ \A i \in DOMAIN handovers : i # h => handovers'[i] = handovers[i]
  BY DEF Changed
<1>3. /\ DOMAIN gaps = 1..Len(gaps) /\ DOMAIN gaps' = 1..n /\ Len(gaps) \in Nat
      /\ gaps'[n] = g /\ \A d \in 1..Len(gaps) : gaps'[d] = gaps[d]
  BY DEF Grown
<1>4. /\ g.handover = h /\ g.difference = y.actual - y.expected
      /\ g.status = "open" /\ g.loss = FALSE
  BY DEF NewGap
<1> HIDE DEF g
<1>5. n \in DOMAIN gaps' /\ n # 0 /\ \A d \in DOMAIN gaps : d \in DOMAIN gaps' /\ gaps'[d] = gaps[d]
  BY <1>3
<1>6. ASSUME NEW i \in DOMAIN handovers' PROVE CountFits(handovers', gaps', i)
  <2>1. CASE i = h
    BY <1>2, <1>3, <1>4, <1>5, <2>1 DEF CountFits
  <2>2. CASE i # h
    BY <1>1, <1>2, <1>5, <2>2 DEF Fits, CountFits
  <2> QED
    BY <2>1, <2>2
<1>7. ASSUME NEW d \in DOMAIN gaps' PROVE GapFits(handovers', gaps', d)
  <2>1. CASE d = n
    <3>1. gaps'[d] = g /\ h \in DOMAIN handovers' /\ handovers'[h] = y
      BY <1>2, <1>3, <2>1
    <3>2. g.loss # TRUE
      BY <1>4
    <3> QED
      BY <1>4, <2>1, <3>1, <3>2 DEF GapFits
  <2>2. CASE d # n
    <3>1. d \in DOMAIN gaps /\ gaps'[d] = gaps[d]
      BY <1>3, <2>2
    <3>2. GapFits(handovers, gaps, d) /\ gaps[d].handover # h
      BY <1>1, <3>1, UncountedAlone DEF Fits
    <3>3. handovers'[gaps[d].handover] = handovers[gaps[d].handover]
      BY <1>2, <3>2 DEF GapFits
    <3> QED
      BY <1>2, <3>1, <3>2, <3>3 DEF GapFits
  <2> QED
    BY <2>1, <2>2
<1> QED
  BY <1>6, <1>7

\* A discrepancy is settled together with its handover.
LEMMA SettlingFits ==
    ASSUME AfterHoursTypeOK, StoryInv, NEW d \in DOMAIN gaps, NEW x, NEW y,
           Changed(handovers', handovers, gaps[d].handover, y),
           y.status = "reconciled", y.expected = handovers[gaps[d].handover].expected,
           y.actual = handovers[gaps[d].handover].actual, y.gap = handovers[gaps[d].handover].gap,
           Changed(gaps', gaps, d, x), x.handover = gaps[d].handover,
           x.difference = gaps[d].difference, x.status \in {"resolved", "waived"},
           x.loss => x.status = "resolved" /\ x.difference < 0
    PROVE  /\ \A i \in DOMAIN handovers' : CountFits(handovers', gaps', i)
           /\ \A c \in DOMAIN gaps' : GapFits(handovers', gaps', c)
<1> DEFINE h == gaps[d].handover
<1>1. Fits(sessions, handovers, gaps)
  BY Fitting
<1>2. /\ DOMAIN handovers' = DOMAIN handovers /\ handovers'[h] = y
      /\ \A i \in DOMAIN handovers : i # h => handovers'[i] = handovers[i]
  BY DEF Changed
<1>3. /\ DOMAIN gaps' = DOMAIN gaps /\ gaps'[d] = x
      /\ \A c \in DOMAIN gaps : c # d => gaps'[c] = gaps[c]
  BY DEF Changed
<1>4. /\ h \in DOMAIN handovers /\ handovers[h].gap = d
      /\ gaps[d].difference = handovers[h].actual - handovers[h].expected /\ gaps[d].difference # 0
  BY <1>1 DEF Fits, GapFits
<1>5. d # 0
  BY DocumentTypes
<1>6. y.gap = d /\ y.actual = handovers[h].actual /\ y.expected = handovers[h].expected
  BY <1>4
<1>7. x.handover = h
  OBVIOUS
<1> HIDE DEF h
<1>8. ASSUME NEW i \in DOMAIN handovers' PROVE CountFits(handovers', gaps', i)
  <2>1. CASE i = h
    BY <1>2, <1>3, <1>5, <1>6, <1>7, <2>1 DEF CountFits
  <2>2. CASE i # h
    <3>1. CountFits(handovers, gaps, i) /\ handovers'[i] = handovers[i]
      BY <1>1, <1>2, <2>2 DEF Fits
    <3>2. gaps[d].handover = h
      BY DEF h
    <3>3. handovers[i].gap # 0 => handovers[i].gap # d
      BY <2>2, <3>1, <3>2 DEF CountFits
    <3> QED
      BY <1>3, <3>1, <3>3 DEF CountFits
  <2> QED
    BY <2>1, <2>2
<1>9. ASSUME NEW c \in DOMAIN gaps' PROVE GapFits(handovers', gaps', c)
  <2>1. CASE c = d
    BY <1>2, <1>3, <1>4, <1>6, <1>7, <2>1 DEF GapFits
  <2>2. CASE c # d
    <3>1. GapFits(handovers, gaps, c) /\ gaps'[c] = gaps[c]
      BY <1>1, <1>3, <2>2 DEF Fits
    <3>2. gaps[c].handover # h
      BY <1>4, <2>2, <3>1 DEF GapFits
    <3> QED
      BY <1>2, <3>1, <3>2 DEF GapFits
  <2> QED
    BY <2>1, <2>2
<1> QED
  BY <1>8, <1>9

-----------------------------------------------------------------------------
(* Discrepancies and the ledger *)

PostedAfter == \A d \in DOMAIN gaps' : GapPosted(ledger', gaps', d)
StoryAfter == Fits(sessions', handovers', gaps') /\ PostedAfter

LEMMA StoryFollows == StoryAfter => StoryInv'
BY DEF StoryAfter, PostedAfter, Fits, StoryInv, SessionFits, HandoverFits, CountFits, GapFits,
       GapPosted, DeltaOf

\* No discrepancy gets an entry it did not have.
GapsStand ==
    \A d \in DOMAIN gaps' :
        \/ gaps'[d].entry = 0
        \/ d \in DOMAIN gaps /\ gaps'[d].entry = gaps[d].entry
                             /\ gaps'[d].difference = gaps[d].difference

LEMMA EntryStands ==
    ASSUME HoursInv, [AfterHoursNext]_allVars, NEW i \in DOMAIN ledger
    PROVE  /\ i \in DOMAIN ledger' /\ ledger'[i].type = ledger[i].type
           /\ DeltaOf(ledger'[i], Cash) = DeltaOf(ledger[i], Cash)
<1>1. /\ i \in DOMAIN ledger' /\ ledger'[i].type = ledger[i].type
      /\ ledger'[i].from = ledger[i].from /\ ledger'[i].to = ledger[i].to
      /\ ledger'[i].amount = ledger[i].amount
  BY EntriesStand
<1> QED
  BY <1>1 DEF DeltaOf

LEMMA PostedStands ==
    ASSUME HoursInv, [AfterHoursNext]_allVars, GapsStand
    PROVE  PostedAfter
<1>1. \A d \in DOMAIN gaps : GapPosted(ledger, gaps, d)
  BY DEF HoursInv, StoryInv
<1>2. ASSUME NEW d \in DOMAIN gaps', gaps'[d].entry # 0 PROVE GapPosted(ledger', gaps', d)
  <2> DEFINE i == gaps[d].entry
  <2>1. d \in DOMAIN gaps /\ gaps'[d].entry = i /\ gaps'[d].difference = gaps[d].difference /\ i # 0
    BY <1>2 DEF GapsStand
  <2>2. /\ i \in DOMAIN ledger /\ ledger[i].type = "adjustment"
        /\ DeltaOf(ledger[i], Cash) = gaps[d].difference
        /\ \A c \in DOMAIN gaps \ {d} : gaps[c].entry # i
    BY <1>1, <2>1 DEF GapPosted
  <2> HIDE DEF i
  <2>3. /\ i \in DOMAIN ledger' /\ ledger'[i].type = "adjustment"
        /\ DeltaOf(ledger'[i], Cash) = gaps[d].difference
    BY <2>2, EntryStands
  <2>4. ASSUME NEW c \in DOMAIN gaps' \ {d} PROVE gaps'[c].entry # i
    BY <2>1, <2>2 DEF GapsStand
  <2> QED
    BY <2>1, <2>3, <2>4 DEF GapPosted
<1>3. ASSUME NEW d \in DOMAIN gaps', gaps'[d].entry = 0 PROVE GapPosted(ledger', gaps', d)
  BY <1>3 DEF GapPosted
<1> QED
  BY <1>2, <1>3 DEF PostedAfter

\* The adjustment of a discrepancy is a new entry, and nobody else's.
LEMMA AdjustmentPosted ==
    ASSUME HoursInv, [AfterHoursNext]_allVars, NEW d \in DOMAIN gaps, Adjusts(d),
           NEW x, Changed(gaps', gaps, d, x), x.difference = gaps[d].difference,
           x.entry = Len(ledger) + 1
    PROVE  PostedAfter
<1> DEFINE n == gaps[d].difference
           e == GapEntry(n)
           z == Len(ledger) + 1
<1>1. /\ AfterHoursTypeOK /\ StoryInv /\ FinanceTypeOK /\ ledger \in Seq(Entry)
      /\ Len(ledger) \in Nat /\ DOMAIN ledger = 1..Len(ledger) /\ ledger' \in Seq(Entry)
  BY HoursByTheBook, LenProperties DEF HoursInv, BillInv, MoneyInv, FinanceTypeOK
<1>2. n \in Int \ {0}
  BY <1>1, GapKnown
<1>3. e \in Entry /\ e.type = "adjustment" /\ DeltaOf(e, Cash) = n
  BY <1>2, GapEntryType
<1>4. Commit(accounts, ledger, e)
  BY DEF Adjusts, Post
<1> HIDE DEF e, n
<1>5. ledger'[z] = [e EXCEPT !.day = day] /\ Len(ledger') = z
  BY <1>1, <1>3, <1>4, LedgerAfterCommit
<1>6. /\ [e EXCEPT !.day = day].type = e.type /\ [e EXCEPT !.day = day].from = e.from
      /\ [e EXCEPT !.day = day].to = e.to /\ [e EXCEPT !.day = day].amount = e.amount
  BY <1>3 DEF Entry
<1>7. ledger'[z].type = "adjustment" /\ DeltaOf(ledger'[z], Cash) = n
  BY <1>3, <1>5, <1>6 DEF DeltaOf
<1>8. z \in DOMAIN ledger' /\ z \notin DOMAIN ledger /\ z # 0
  BY <1>1, <1>5, LenProperties
<1>9. /\ DOMAIN gaps' = DOMAIN gaps /\ gaps'[d] = x
      /\ \A c \in DOMAIN gaps : c # d => gaps'[c] = gaps[c]
  BY DEF Changed
<1>10. \A c \in DOMAIN gaps : GapPosted(ledger, gaps, c)
  BY <1>1 DEF StoryInv
<1>11. \A c \in DOMAIN gaps : gaps[c].entry # z
  BY <1>8, <1>10 DEF GapPosted
<1>12. x.entry = z /\ x.difference = n
  BY DEF n
<1> HIDE DEF z
<1>13. GapPosted(ledger', gaps', d)
  BY <1>7, <1>8, <1>9, <1>11, <1>12 DEF GapPosted
<1>14. ASSUME NEW c \in DOMAIN gaps, c # d, gaps[c].entry # 0 PROVE GapPosted(ledger', gaps', c)
  <2> DEFINE i == gaps[c].entry
  <2>1. /\ i \in DOMAIN ledger /\ ledger[i].type = "adjustment"
        /\ DeltaOf(ledger[i], Cash) = gaps[c].difference
        /\ \A b \in DOMAIN gaps \ {c} : gaps[b].entry # i
    BY <1>10, <1>14 DEF GapPosted
  <2>2. gaps'[c] = gaps[c] /\ i # z
    BY <1>9, <1>11, <1>14
  <2> HIDE DEF i
  <2>3. /\ i \in DOMAIN ledger' /\ ledger'[i].type = "adjustment"
        /\ DeltaOf(ledger'[i], Cash) = gaps[c].difference
    BY <2>1, EntryStands
  <2>4. ASSUME NEW b \in DOMAIN gaps' \ {c} PROVE gaps'[b].entry # i
    BY <1>9, <1>12, <2>1, <2>2
  <2> QED
    BY <2>2, <2>3, <2>4 DEF GapPosted, i
<1>15. ASSUME NEW c \in DOMAIN gaps, c # d, gaps[c].entry = 0 PROVE GapPosted(ledger', gaps', c)
  BY <1>9, <1>15 DEF GapPosted
<1> QED
  BY <1>9, <1>13, <1>14, <1>15 DEF PostedAfter

-----------------------------------------------------------------------------
(* The story of every handover, after every step *)

\* Sessions, handovers and discrepancies left alone stay as they are.
LEMMA StoryUntouched ==
    ASSUME HoursInv, [AfterHoursNext]_allVars, UNCHANGED <<sessions, handovers, gaps>>
    PROVE  StoryAfter
<1>1. StoryStands /\ GapsStand
  BY DEF StoryStands, GapsStand
<1> QED
  BY <1>1, StandingFits, PostedStands DEF StoryAfter, HoursInv

\* A session changes that has no say in it.
LEMMA StoryAside ==
    ASSUME HoursInv, [AfterHoursNext]_allVars, UNCHANGED <<handovers, gaps>>,
           NEW s \in DOMAIN sessions, NEW x, Changed(sessions', sessions, s, x),
           x.status = sessions[s].status, x.handover = sessions[s].handover,
           x.handoverStatus = sessions[s].handoverStatus,
           sessions[s].status # "open" => x.expected = sessions[s].expected
    PROVE  StoryAfter
<1>1. /\ DOMAIN sessions' = DOMAIN sessions /\ sessions'[s] = x
      /\ \A t \in DOMAIN sessions : t # s => sessions'[t] = sessions[t]
  BY DEF Changed
<1>2. StoryStands /\ GapsStand
  BY <1>1 DEF StoryStands, GapsStand
<1> QED
  BY <1>2, StandingFits, PostedStands DEF StoryAfter, HoursInv

\* Payments taken and taken back.
LEMMA StoryOfPayments ==
    ASSUME HoursInv, [AfterHoursNext]_allVars,
           \/ \E w \in Workers, r \in NextRequest, i \in DOMAIN invoices, method \in Methods,
                 n \in Amounts : WorkerRecordsPayment(w, r, i, method, n)
           \/ \E k \in DOMAIN payments : ReverseAnyPayment(k)
    PROVE  StoryAfter
<1>1. BillInv /\ AfterHoursTypeOK /\ RefsInv /\ KeysInv
  BY DEF HoursInv
<1>2. ASSUME NEW w \in Workers, NEW r \in NextRequest, NEW i \in DOMAIN invoices,
             NEW method \in Methods, NEW n \in Amounts, WorkerRecordsPayment(w, r, i, method, n)
      PROVE  StoryAfter
  <2> DEFINE s == openSession[w]
             p == IF method = Cash THEN n ELSE 0
  <2>1. TakesInto(s, p)
    BY <1>1, <1>2, Takes
  <2>2. UNCHANGED <<handovers, gaps>>
    BY <1>2 DEF WorkerRecordsPayment
  <2> HIDE DEF s, p
  <2>3. s \in DOMAIN sessions /\ sessions[s].status = "open"
    BY <2>1 DEF TakesInto
  <2>4. PICK x : /\ Changed(sessions', sessions, s, x)
                 /\ x.handover = sessions[s].handover /\ x.status = "open"
                 /\ x.handoverStatus = sessions[s].handoverStatus
    BY <2>1 DEF TakesInto
  <2>5. x.status = sessions[s].status
    BY <2>3, <2>4
  <2> QED
    BY <2>2, <2>3, <2>4, <2>5, StoryAside
<1>3. ASSUME NEW k \in DOMAIN payments, ReverseAnyPayment(k) PROVE StoryAfter
  <2>1. UNCHANGED <<handovers, gaps>>
    BY <1>3 DEF ReverseAnyPayment
  <2>2. CASE takenIn[k] = 0
    <3>1. UNCHANGED <<sessions, handovers, gaps>>
      BY <1>3, <2>1, <2>2 DEF ReverseAnyPayment
    <3> QED
      BY <3>1, StoryUntouched
  <2>3. CASE takenIn[k] # 0
    <3> DEFINE s == takenIn[k]
               n == payments[k].amount
               p == IF IsCash(k) THEN n ELSE 0
               y == SessionReversed(sessions[s], n, p)
    <3>1. /\ s \in DOMAIN sessions /\ Changed(sessions', sessions, s, y)
          /\ y.status = sessions[s].status /\ y.handoverStatus = sessions[s].handoverStatus
          /\ y.handover = sessions[s].handover
          /\ sessions[s].status # "open" => y.expected = sessions[s].expected
      BY <1>1, <1>3, <2>3, Returns
    <3> HIDE DEF s, y
    <3> QED
      BY <2>1, <3>1, StoryAside
  <2> QED
    BY <2>2, <2>3
<1> QED
  BY <1>2, <1>3

\* Sessions opened, closed and cancelled.
LEMMA StoryOfSessions ==
    ASSUME HoursInv, [AfterHoursNext]_allVars, Working
    PROVE  StoryAfter
<1>1. BillInv /\ AfterHoursTypeOK /\ StoryInv
  BY DEF HoursInv
<1>2. UNCHANGED gaps
  BY DEF Working, OpenAfterHoursSession, CloseAfterHoursSession, CancelAfterHoursSession
<1>3. PostedAfter
  <2>1. GapsStand
    BY <1>2 DEF GapsStand
  <2> QED
    BY <2>1, PostedStands
<1>4. ASSUME NEW w \in Workers, NEW a \in DOMAIN auths, OpenAfterHoursSession(w, a)
      PROVE  Fits(sessions', handovers', gaps')
  <2> DEFINE n == FloatFor(a)
             x == NewSession(w, a, n)
  <2>1. Grown(sessions', sessions, x)
    BY <1>1, <1>4, Opens
  <2>2. x.status = "open" /\ x.handover = 0
    BY DEF NewSession
  <2>3. UNCHANGED <<handovers, gaps>>
    BY <1>4 DEF OpenAfterHoursSession
  <2> HIDE DEF x
  <2> QED
    BY <1>1, <2>1, <2>2, <2>3, OpeningFits
<1>5. ASSUME NEW s \in DOMAIN sessions, CloseAfterHoursSession(s)
      PROVE  Fits(sessions', handovers', gaps')
  <2> DEFINE expected == sessions[s].float + LiveCash(s)
             h == Len(handovers) + 1
  <2>1. /\ expected \in Nat /\ sessions[s].status = "open"
        /\ IF expected > 0 THEN Grown(handovers', handovers, NewHandover(s, expected))
           ELSE handovers' = handovers
    BY <1>1, <1>5, Closes
  <2>2. PICK x : /\ Changed(sessions', sessions, s, x) /\ x.expected = expected
                 /\ x.status = IF expected > 0 THEN "handover_pending" ELSE "closed"
                 /\ x.handover = IF expected > 0 THEN h ELSE 0
                 /\ expected > 0 => x.handoverStatus = "pending"
    BY <1>1, <1>5, Closes
  <2> HIDE DEF expected
  <2>3. CASE expected > 0
    <3>1. /\ x.handover = Len(handovers) + 1 /\ x.status = "handover_pending"
          /\ x.handoverStatus = "pending"
          /\ Grown(handovers', handovers, NewHandover(s, x.expected))
      BY <2>1, <2>2, <2>3
    <3> QED
      BY <1>1, <1>2, <2>1, <2>2, <3>1, ClosingFits
  <2>4. CASE ~(expected > 0)
    <3>1. x.handover = 0 /\ x.status = "closed" /\ handovers' = handovers
      BY <2>1, <2>2, <2>4
    <3> QED
      BY <1>1, <1>2, <2>1, <2>2, <3>1, EndingFits
  <2> QED
    BY <2>3, <2>4
<1>6. ASSUME NEW s \in DOMAIN sessions, CancelAfterHoursSession(s)
      PROVE  Fits(sessions', handovers', gaps')
  <2>1. sessions[s].status = "open"
    BY <1>1, <1>6, Cancels
  <2>2. PICK x : /\ Changed(sessions', sessions, s, x)
                 /\ SameCash(x, sessions[s]) /\ x.status = "cancelled"
    BY <1>1, <1>6, Cancels
  <2>3. x.handover = 0
    BY <1>1, <2>1, <2>2, OpenAlone DEF SameCash
  <2>4. UNCHANGED <<handovers, gaps>>
    BY <1>6 DEF CancelAfterHoursSession
  <2> QED
    BY <1>1, <2>1, <2>2, <2>3, <2>4, EndingFits
<1> QED
  BY <1>3, <1>4, <1>5, <1>6 DEF Working, StoryAfter

\* Handovers submitted and counted.
LEMMA StoryOfHandovers ==
    ASSUME HoursInv, [AfterHoursNext]_allVars, NEW h \in DOMAIN handovers,
           SubmitCashHandover(h) \/ \E actual \in Counted : ReceiveCashHandover(h, actual)
    PROVE  StoryAfter
<1>1. AfterHoursTypeOK /\ StoryInv
  BY DEF HoursInv
<1>2. CASE SubmitCashHandover(h)
  <2>1. PICK x, y : /\ Stands(handovers[h].session, h, x, y, "handover_pending", "submitted")
                    /\ y.actual = handovers[h].actual /\ y.gap = handovers[h].gap
    BY <1>1, <1>2, Submits
  <2>2. handovers[h].status = "pending" /\ UNCHANGED gaps
    BY <1>2 DEF SubmitCashHandover
  <2>3. Uncounted(h)
    BY <2>2 DEF Uncounted
  <2>4. y.gap = 0 /\ y.status = "submitted" /\ Changed(handovers', handovers, h, y)
    BY <1>1, <2>1, <2>3, UncountedAlone DEF Stands
  <2>5. /\ \A s \in DOMAIN sessions' : SessionFits(sessions', handovers', s)
        /\ \A i \in DOMAIN handovers' : HandoverFits(sessions', handovers', i)
    BY <1>1, <2>1, StandsFits
  <2>6. /\ \A i \in DOMAIN handovers' : CountFits(handovers', gaps', i)
        /\ \A d \in DOMAIN gaps' : GapFits(handovers', gaps', d)
    BY <1>1, <2>2, <2>3, <2>4, AgreeingFits
  <2>7. GapsStand
    BY <2>2 DEF GapsStand
  <2> QED
    BY <2>5, <2>6, <2>7, PostedStands DEF StoryAfter, Fits
<1>3. ASSUME NEW actual \in Counted, ReceiveCashHandover(h, actual) PROVE StoryAfter
  <2> DEFINE n == actual - handovers[h].expected
             status == IF n = 0 THEN "reconciled" ELSE "handover_pending"
             standing == IF n = 0 THEN "received" ELSE "discrepancy"
             d == IF n = 0 THEN 0 ELSE Len(gaps) + 1
  <2>1. /\ Uncounted(h) /\ n \in Int
        /\ IF n = 0 THEN gaps' = gaps ELSE Grown(gaps', gaps, NewGap(h, n))
    BY <1>1, <1>3, Receives
  <2>2. PICK x, y : /\ Stands(handovers[h].session, h, x, y, status, standing)
                    /\ y.actual = actual /\ y.gap = d
    BY <1>1, <1>3, Receives
  <2>3. /\ Changed(handovers', handovers, h, y) /\ y.status = standing
        /\ y.expected = handovers[h].expected
    BY <2>2 DEF Stands
  <2>4. y.actual - y.expected = n
    BY <2>2, <2>3
  <2>5. actual \in Int /\ handovers[h].expected \in Int
    <3>1. handovers[h] \in Handover
      BY <1>1, DocumentTypes
    <3> QED
      BY <3>1, AfterHoursAssumption DEF Handover
  <2>6. n = 0 => y.actual = y.expected
    BY <2>2, <2>3, <2>5
  <2> HIDE DEF n
  <2>7. CASE n = 0
    <3>1. /\ Stands(handovers[h].session, h, x, y, "reconciled", "received")
          /\ y.gap = 0 /\ y.status = "received" /\ gaps' = gaps /\ y.actual = y.expected
      BY <2>1, <2>2, <2>3, <2>6, <2>7
    <3>2. /\ \A s \in DOMAIN sessions' : SessionFits(sessions', handovers', s)
          /\ \A i \in DOMAIN handovers' : HandoverFits(sessions', handovers', i)
      BY <1>1, <3>1, StandsFits
    <3>3. /\ \A i \in DOMAIN handovers' : CountFits(handovers', gaps', i)
          /\ \A c \in DOMAIN gaps' : GapFits(handovers', gaps', c)
      BY <1>1, <2>1, <2>3, <3>1, AgreeingFits
    <3>4. GapsStand
      BY <3>1 DEF GapsStand
    <3> QED
      BY <3>2, <3>3, <3>4, PostedStands DEF StoryAfter, Fits
  <2>8. CASE n # 0
    <3>1. /\ Stands(handovers[h].session, h, x, y, "handover_pending", "discrepancy")
          /\ y.gap = Len(gaps) + 1 /\ y.status = "discrepancy"
          /\ y.actual - y.expected # 0
          /\ Grown(gaps', gaps, NewGap(h, y.actual - y.expected))
      BY <2>1, <2>2, <2>3, <2>4, <2>8
    <3>2. /\ \A s \in DOMAIN sessions' : SessionFits(sessions', handovers', s)
          /\ \A i \in DOMAIN handovers' : HandoverFits(sessions', handovers', i)
      BY <1>1, <3>1, StandsFits
    <3>3. /\ \A i \in DOMAIN handovers' : CountFits(handovers', gaps', i)
          /\ \A c \in DOMAIN gaps' : GapFits(handovers', gaps', c)
      BY <1>1, <2>1, <2>3, <3>1, DifferingFits
    <3>4. GapsStand
      BY <3>1 DEF GapsStand, Grown, NewGap
    <3> QED
      BY <3>2, <3>3, <3>4, PostedStands DEF StoryAfter, Fits
  <2> QED
    BY <2>7, <2>8
<1> QED
  BY <1>2, <1>3

\* Discrepancies looked into and settled.
LEMMA StoryOfGaps ==
    ASSUME HoursInv, [AfterHoursNext]_allVars, NEW d \in DOMAIN gaps,
           \/ ReviewCashDiscrepancy(d)
           \/ \E outcome \in {"resolved", "waived"}, recover, adjust \in BOOLEAN :
                 ResolveCashDiscrepancy(d, outcome, recover, adjust)
    PROVE  StoryAfter
<1>1. AfterHoursTypeOK /\ StoryInv /\ FinanceTypeOK
  BY DEF HoursInv, BillInv, MoneyInv
<1>2. CASE ReviewCashDiscrepancy(d)
  <2>1. PICK x : /\ Changed(gaps', gaps, d, x)
                 /\ x.handover = gaps[d].handover /\ x.difference = gaps[d].difference
                 /\ x.status = "under_review" /\ x.entry = gaps[d].entry /\ x.loss = gaps[d].loss
    BY <1>1, <1>2, Reviews
  <2>2. gaps[d].status = "open" /\ UNCHANGED <<sessions, handovers>>
    BY <1>2 DEF ReviewCashDiscrepancy
  <2>3. /\ DOMAIN gaps' = DOMAIN gaps /\ gaps'[d] = x
        /\ \A c \in DOMAIN gaps : c # d => gaps'[c] = gaps[c]
    BY <2>1 DEF Changed
  <2>4. StoryStands
    BY <2>1, <2>2, <2>3 DEF StoryStands
  <2>5. GapsStand
    BY <2>1, <2>3 DEF GapsStand
  <2> QED
    BY <1>1, <2>4, <2>5, StandingFits, PostedStands DEF StoryAfter
<1>3. ASSUME NEW outcome \in {"resolved", "waived"}, NEW recover \in BOOLEAN,
             NEW adjust \in BOOLEAN, ResolveCashDiscrepancy(d, outcome, recover, adjust)
      PROVE  StoryAfter
  <2> DEFINE h == gaps[d].handover
  <2>1. /\ h \in DOMAIN handovers
        /\ recover => outcome = "resolved" /\ gaps[d].difference < 0
        /\ adjust => Adjusts(d)
    BY <1>1, <1>3, Resolves
  <2>2. PICK x, y : /\ Stands(handovers[h].session, h, x, y, "reconciled", "reconciled")
                    /\ y.actual = handovers[h].actual /\ y.gap = handovers[h].gap
    BY <1>1, <1>3, Resolves
  <2>3. PICK g : /\ Changed(gaps', gaps, d, g)
                 /\ g.handover = h /\ g.difference = gaps[d].difference
                 /\ g.status = outcome /\ g.loss = recover
                 /\ g.entry = IF adjust THEN Len(ledger) + 1 ELSE 0
    BY <1>1, <1>3, Resolves
  <2>4. /\ Changed(handovers', handovers, h, y) /\ y.status = "reconciled"
        /\ y.expected = handovers[h].expected
    BY <2>2 DEF Stands
  <2>5. /\ \A s \in DOMAIN sessions' : SessionFits(sessions', handovers', s)
        /\ \A i \in DOMAIN handovers' : HandoverFits(sessions', handovers', i)
    BY <1>1, <2>1, <2>2, StandsFits
  <2>6. g.status \in {"resolved", "waived"}
    BY <2>3
  <2>7. g.loss => g.status = "resolved" /\ g.difference < 0
    BY <2>1, <2>3
  <2>8. /\ \A i \in DOMAIN handovers' : CountFits(handovers', gaps', i)
        /\ \A c \in DOMAIN gaps' : GapFits(handovers', gaps', c)
    BY <1>1, <2>2, <2>3, <2>4, <2>6, <2>7, SettlingFits
  <2>9. PostedAfter
    <3>1. CASE adjust
      BY <2>1, <2>3, <3>1, AdjustmentPosted
    <3>2. CASE ~adjust
      <4>1. GapsStand
        BY <2>3, <3>2 DEF GapsStand, Changed
      <4> QED
        BY <4>1, PostedStands
    <3> QED
      BY <3>1, <3>2
  <2> QED
    BY <2>5, <2>8, <2>9 DEF StoryAfter, Fits
<1> QED
  BY <1>2, <1>3

\* The story of every handover is told the same way three times, after every step.
LEMMA StoryKept == HoursInv /\ [AfterHoursNext]_allVars => StoryInv'
<1> SUFFICES ASSUME HoursInv, [AfterHoursNext]_allVars PROVE StoryAfter
  BY StoryFollows
<1>1. ASSUME NEW p, NEW h \in DOMAIN handovers, SweepClaims(p, h) PROVE StoryAfter
  <2>1. AfterHoursTypeOK /\ StoryInv
    BY DEF HoursInv
  <2>2. /\ DOMAIN handovers' = DOMAIN handovers
        /\ \A i \in DOMAIN handovers :
              /\ handovers'[i].session = handovers[i].session
              /\ handovers'[i].expected = handovers[i].expected
              /\ handovers'[i].actual = handovers[i].actual
              /\ handovers'[i].status = handovers[i].status
              /\ handovers'[i].gap = handovers[i].gap
    BY <1>1, <2>1, Claims
  <2>3. UNCHANGED <<sessions, gaps>>
    BY <1>1 DEF SweepClaims
  <2>4. StoryStands /\ GapsStand
    BY <2>2, <2>3 DEF StoryStands, GapsStand
  <2> QED
    BY <2>1, <2>4, StandingFits, PostedStands DEF StoryAfter
<1>2. CASE Authorizing
  <2>1. UNCHANGED <<sessions, handovers, gaps>>
    BY <1>2 DEF Authorizing, AuthorizeAfterHours, RevokeAfterHours
  <2> QED
    BY <2>1, StoryUntouched
<1>3. CASE Working
  BY <1>3, StoryOfSessions
<1>4. CASE Collecting
  <2>1. ASSUME NEW j, InvoiceJob(j) PROVE UNCHANGED <<sessions, handovers, gaps>>
    BY <2>1 DEF InvoiceJob, businessVars
  <2>2. ASSUME NEW r, NEW i, NEW method, NEW n, CashierRecordsPayment(r, i, method, n)
        PROVE  UNCHANGED <<sessions, handovers, gaps>>
    BY <2>2 DEF CashierRecordsPayment
  <2> QED
    BY <1>4, <2>1, <2>2, StoryUntouched, StoryOfPayments DEF Collecting
<1>5. CASE HandingOver
  BY <1>5, StoryOfHandovers, StoryOfGaps DEF HandingOver
<1>6. CASE Tick
  <2>1. UNCHANGED <<sessions, handovers, gaps>>
    BY <1>6 DEF Tick, businessVars
  <2> QED
    BY <2>1, StoryUntouched
<1>7. CASE Housekeeping
  <2>1. ASSUME NEW a, ExpireAuthorization(a) PROVE UNCHANGED <<sessions, handovers, gaps>>
    BY <2>1 DEF ExpireAuthorization
  <2>2. ASSUME NEW p, NEW a, SweepWarns(p, a) PROVE UNCHANGED <<sessions, handovers, gaps>>
    BY <2>2 DEF SweepWarns
  <2>3. ASSUME NEW p, SweepReadsEnding(p) \/ SweepReadsOpen(p) \/ SweepReminds(p) \/ SweepDies(p)
        PROVE  UNCHANGED <<sessions, handovers, gaps>>
    BY <2>3 DEF SweepReadsEnding, SweepReadsOpen, SweepReminds, SweepDies, businessVars
  <2> QED
    BY <1>1, <1>7, <2>1, <2>2, <2>3, StoryUntouched DEF Housekeeping, SweepStep, Sweep
<1>8. CASE UNCHANGED allVars
  <2>1. UNCHANGED <<sessions, handovers, gaps>>
    BY <1>8 DEF allVars, afterHoursVars
  <2> QED
    BY <2>1, StoryUntouched
<1> QED
  BY <1>2, <1>3, <1>4, <1>5, <1>6, <1>7, <1>8 DEF AfterHoursNext

-----------------------------------------------------------------------------
(* The sweeps: who is reminded, and who is warned *)

\* Sweeps that had claimed h, or listed a, and no others.
LEMMA Claiming ==
    ASSUME NEW sw, NEW tw, NEW h, \A p \in Sweepers : tw[p].claimed = h => sw[p].claimed = h
    PROVE  Claimed(tw, h) \subseteq Claimed(sw, h)
BY DEF Claimed

LEMMA ListingSmall ==
    ASSUME NEW sw, NEW a
    PROVE  /\ IsFiniteSet(Listing(sw, a)) /\ Cardinality(Listing(sw, a)) \in Nat
           /\ Cardinality(Sweepers) \in Nat
           /\ Cardinality(Listing(sw, a)) <= Cardinality(Sweepers)
<1>1. IsFiniteSet(Sweepers) /\ Listing(sw, a) \subseteq Sweepers
  BY AfterHoursAssumption DEF Listing
<1>2. IsFiniteSet(Listing(sw, a)) /\ Cardinality(Listing(sw, a)) <= Cardinality(Sweepers)
  BY <1>1, FS_Subset
<1> QED
  BY <1>1, <1>2, FS_CardinalityType

LEMMA ListingShrinks ==
    ASSUME NEW sw, NEW tw, NEW a, \A p \in Sweepers : a \in tw[p].soon => a \in sw[p].soon
    PROVE  /\ Cardinality(Listing(tw, a)) <= Cardinality(Listing(sw, a))
           /\ Cardinality(Listing(tw, a)) \in Nat /\ Cardinality(Listing(sw, a)) \in Nat
<1>1. Listing(tw, a) \subseteq Listing(sw, a)
  BY DEF Listing
<1>2. IsFiniteSet(Listing(sw, a))
  BY ListingSmall
<1> QED
  BY <1>1, <1>2, ListingSmall, FS_Subset

\* Documents are not deleted, and what is marked stays marked.
MarksStand ==
    /\ DOMAIN auths \subseteq DOMAIN auths'
    /\ \A a \in DOMAIN auths : auths[a].warned => auths'[a].warned
    /\ DOMAIN handovers \subseteq DOMAIN handovers'
    /\ Len(handovers') \in Nat /\ Len(handovers) \in Nat /\ Len(handovers) <= Len(handovers')
    /\ \A h \in DOMAIN handovers : handovers[h].reminded => handovers'[h].reminded

\* The sweeps do less than before, and tell nobody.
SweepsStand ==
    /\ sweeps' \in [Sweepers -> SweepState] /\ told' = told
    /\ \A p \in Sweepers : /\ sweeps'[p].soon \subseteq sweeps[p].soon
                           /\ sweeps'[p].claimed \in {0, sweeps[p].claimed}

\* While the sweeps read no more and no mark is taken off, nobody is told again.
LEMMA SweepsStanding ==
    ASSUME HoursInv, MarksStand, SweepsStand
    PROVE  RemindInv'
<1>1. /\ RemindInv /\ AfterHoursTypeOK
      /\ \A p \in Sweepers : sweeps[p] \in SweepState
  BY DEF HoursInv, RemindInv
<1>2. /\ sweeps' \in [Sweepers -> SweepState]
      /\ told' \in [ending: [1..MaxAuths -> Nat], open: [1..MaxHandovers -> {0, 1}]]
  BY <1>1 DEF RemindInv, SweepsStand
<1>3. ASSUME NEW p \in Sweepers PROVE SweepFits(sweeps'[p], auths', handovers')
  BY <1>1 DEF RemindInv, SweepFits, MarksStand, SweepsStand
<1>4. ASSUME NEW h \in 1..MaxHandovers PROVE RemindFits(sweeps', handovers', told'.open[h], h)
  <2>1. RemindFits(sweeps, handovers, told.open[h], h) /\ told'.open[h] = told.open[h]
    BY <1>1 DEF RemindInv, SweepsStand
  <2>2. h # 0
    OBVIOUS
  <2>3. Claimed(sweeps', h) \subseteq Claimed(sweeps, h)
    BY <2>2 DEF Claimed, SweepsStand
  <2> QED
    BY <2>1, <2>3 DEF RemindFits, MarksStand
<1>5. ASSUME NEW a \in 1..MaxAuths PROVE WarnFits(sweeps', auths', told'.ending[a], a)
  <2>1. /\ WarnFits(sweeps, auths, told.ending[a], a) /\ told'.ending[a] = told.ending[a]
        /\ told.ending[a] \in Nat
    BY <1>1 DEF RemindInv, SweepsStand
  <2>2. \A p \in Sweepers : a \in sweeps'[p].soon => a \in sweeps[p].soon
    BY DEF SweepsStand
  <2>3. /\ Cardinality(Listing(sweeps', a)) <= Cardinality(Listing(sweeps, a))
        /\ Cardinality(Listing(sweeps', a)) \in Nat /\ Cardinality(Listing(sweeps, a)) \in Nat
    BY <2>2, ListingShrinks
  <2>4. Cardinality(Sweepers) \in Nat
    BY ListingSmall
  <2>5. told'.ending[a] + Cardinality(Listing(sweeps', a)) <= Cardinality(Sweepers)
    BY <2>1, <2>3, <2>4 DEF WarnFits
  <2>6. told'.ending[a] > 0 => a \in DOMAIN auths' /\ auths'[a].warned
    BY <2>1 DEF WarnFits, MarksStand
  <2> QED
    BY <2>5, <2>6 DEF WarnFits
<1> QED
  BY <1>2, <1>3, <1>4, <1>5 DEF RemindInv, SweepFits, RemindFits, WarnFits, Claimed, Listing

\* Sweep p becomes y.
Sweeping(p, y) == p \in Sweepers /\ y \in SweepState /\ sweeps' = [sweeps EXCEPT ![p] = y]

LEMMA Sweeps ==
    ASSUME RemindInv, NEW p, NEW y, Sweeping(p, y)
    PROVE  /\ sweeps' \in [Sweepers -> SweepState] /\ sweeps'[p] = y
           /\ \A q \in Sweepers : q # p => sweeps'[q] = sweeps[q]
           /\ sweeps[p] \in SweepState
BY DEF RemindInv, Sweeping

\* Sweep p lists what ends soon: nobody was warned of that.
LEMMA ListingKept ==
    ASSUME HoursInv, NEW p \in Sweepers, SweepReadsEnding(p)
    PROVE  RemindInv'
<1> DEFINE y == [Idle EXCEPT !.soon = EndingSoon]
<1>1. RemindInv /\ AfterHoursTypeOK
  BY DEF HoursInv
<1>2. EndingSoon \subseteq DOMAIN auths /\ EndingSoon \in SUBSET Nat
  BY <1>1, DocumentTypes DEF EndingSoon
<1>3. /\ y \in SweepState /\ y.soon = EndingSoon /\ y.claimed = 0
  BY <1>2 DEF Idle, SweepState
<1>4. sweeps[p] = Idle /\ sweeps[p].soon = {} /\ sweeps[p].claimed = 0
  BY DEF SweepReadsEnding, Idle
<1>5. sweeps' = [sweeps EXCEPT ![p] = y]
  BY <1>4 DEF SweepReadsEnding
<1>6. UNCHANGED <<auths, handovers, told>>
  BY DEF SweepReadsEnding, businessVars
<1> HIDE DEF y
<1>7. /\ sweeps' \in [Sweepers -> SweepState] /\ sweeps'[p] = y
      /\ \A q \in Sweepers : q # p => sweeps'[q] = sweeps[q]
  BY <1>1, <1>3, <1>5, Sweeps DEF Sweeping
<1>8. Len(handovers) \in Nat
  BY <1>1, DocumentTypes
<1>9. ASSUME NEW q \in Sweepers PROVE SweepFits(sweeps'[q], auths', handovers')
  BY <1>1, <1>2, <1>3, <1>6, <1>7, <1>8 DEF RemindInv, SweepFits
<1>10. ASSUME NEW h \in 1..MaxHandovers PROVE RemindFits(sweeps', handovers', told'.open[h], h)
  <2>1. RemindFits(sweeps, handovers, told.open[h], h)
    BY <1>1 DEF RemindInv
  <2>2. h # 0
    OBVIOUS
  <2>3. Claimed(sweeps', h) \subseteq Claimed(sweeps, h)
    BY <1>3, <1>7, <2>2 DEF Claimed
  <2> QED
    BY <1>6, <2>1, <2>3 DEF RemindFits
<1>11. ASSUME NEW a \in 1..MaxAuths PROVE WarnFits(sweeps', auths', told'.ending[a], a)
  <2>1. WarnFits(sweeps, auths, told.ending[a], a) /\ told.ending[a] \in Nat
    BY <1>1 DEF RemindInv
  <2>2. CASE a \in EndingSoon
    <3>1. ~auths[a].warned
      BY <2>2 DEF EndingSoon
    <3>2. told.ending[a] = 0
      BY <2>1, <3>1 DEF WarnFits
    <3> QED
      BY <1>6, <3>2, ListingSmall DEF WarnFits
  <2>3. CASE a \notin EndingSoon
    <3>1. \A q \in Sweepers : a \in sweeps'[q].soon => a \in sweeps[q].soon
      BY <1>3, <1>7, <2>3
    <3>2. /\ Cardinality(Listing(sweeps', a)) <= Cardinality(Listing(sweeps, a))
          /\ Cardinality(Listing(sweeps', a)) \in Nat /\ Cardinality(Listing(sweeps, a)) \in Nat
      BY <3>1, ListingShrinks
    <3>3. Cardinality(Sweepers) \in Nat
      BY ListingSmall
    <3>4. told.ending[a] + Cardinality(Listing(sweeps', a)) <= Cardinality(Sweepers)
      BY <2>1, <3>2, <3>3 DEF WarnFits
    <3> QED
      BY <1>6, <2>1, <3>4 DEF WarnFits
  <2> QED
    BY <2>2, <2>3
<1>12. told' \in [ending: [1..MaxAuths -> Nat], open: [1..MaxHandovers -> {0, 1}]]
  BY <1>1, <1>6 DEF RemindInv
<1> QED
  BY <1>7, <1>9, <1>10, <1>11, <1>12
     DEF RemindInv, SweepFits, RemindFits, WarnFits, Claimed, Listing

\* A sweep warns of one it has listed, and marks it.
LEMMA WarningKept ==
    ASSUME HoursInv, NEW p \in Sweepers, NEW a \in DOMAIN auths, SweepWarns(p, a)
    PROVE  RemindInv'
<1> DEFINE y == [sweeps[p] EXCEPT !.soon = @ \ {a}]
           x == [auths[a] EXCEPT !.warned = TRUE]
<1>1. RemindInv /\ AfterHoursTypeOK /\ a \in sweeps[p].soon
  BY DEF HoursInv, SweepWarns
<1>2. sweeps[p] \in SweepState /\ auths[a] \in Authorization
  BY <1>1, DocumentTypes DEF RemindInv
<1>3. /\ y \in SweepState /\ y.soon = sweeps[p].soon \ {a} /\ y.claimed = sweeps[p].claimed
  BY <1>2 DEF SweepState
<1>4. x.warned
  BY <1>2 DEF Authorization
<1>5. sweeps' = [sweeps EXCEPT ![p] = y] /\ auths' = [auths EXCEPT ![a] = x]
  BY <1>2 DEF SweepWarns
<1>6. UNCHANGED handovers /\ told' = [told EXCEPT !.ending[a] = @ + 1]
  BY DEF SweepWarns
<1> HIDE DEF y, x
<1>7. /\ sweeps' \in [Sweepers -> SweepState] /\ sweeps'[p] = y
      /\ \A q \in Sweepers : q # p => sweeps'[q] = sweeps[q]
  BY <1>1, <1>3, <1>5, Sweeps DEF Sweeping
<1>8. /\ DOMAIN auths' = DOMAIN auths /\ auths'[a].warned
      /\ \A b \in DOMAIN auths : auths[b].warned => auths'[b].warned
  BY <1>4, <1>5
<1>9. /\ told' \in [ending: [1..MaxAuths -> Nat], open: [1..MaxHandovers -> {0, 1}]]
      /\ told'.open = told.open
      /\ \A b \in 1..MaxAuths :
            told'.ending[b] = IF b = a THEN told.ending[b] + 1 ELSE told.ending[b]
  <2> DEFINE e == [told.ending EXCEPT ![a] = @ + 1]
  <2>1. told \in [ending: [1..MaxAuths -> Nat], open: [1..MaxHandovers -> {0, 1}]]
    BY <1>1 DEF RemindInv
  <2>2. /\ e \in [1..MaxAuths -> Nat]
        /\ \A b \in 1..MaxAuths : e[b] = IF b = a THEN told.ending[b] + 1 ELSE told.ending[b]
    <3> DEFINE f == told.ending
    <3>1. f \in [1..MaxAuths -> Nat]
      BY <2>1
    <3>2. e = [f EXCEPT ![a] = f[a] + 1]
      OBVIOUS
    <3> HIDE DEF e, f
    <3>3. \A b \in 1..MaxAuths : e[b] = IF b = a THEN f[b] + 1 ELSE f[b]
      BY <3>1, <3>2
    <3>4. e \in [1..MaxAuths -> Nat]
      <4>1. CASE a \in 1..MaxAuths
        <5>1. f[a] + 1 \in Nat
          BY <3>1, <4>1
        <5> QED
          BY <3>1, <3>2, <4>1, <5>1
      <4>2. CASE a \notin 1..MaxAuths
        BY <3>1, <3>2, <4>2
      <4> QED
        BY <4>1, <4>2
    <3> QED
      BY <3>3, <3>4 DEF f
  <2>3. told' = [told EXCEPT !.ending = e]
    BY <1>6
  <2> HIDE DEF e
  <2> QED
    BY <2>1, <2>2, <2>3
<1>10. ASSUME NEW q \in Sweepers PROVE SweepFits(sweeps'[q], auths', handovers')
  BY <1>1, <1>3, <1>6, <1>7, <1>8 DEF RemindInv, SweepFits
<1>11. ASSUME NEW h \in 1..MaxHandovers PROVE RemindFits(sweeps', handovers', told'.open[h], h)
  <2>1. RemindFits(sweeps, handovers, told.open[h], h)
    BY <1>1 DEF RemindInv
  <2>2. Claimed(sweeps', h) = Claimed(sweeps, h)
    BY <1>3, <1>7 DEF Claimed
  <2> QED
    BY <1>6, <1>9, <2>1, <2>2 DEF RemindFits
<1>12. ASSUME NEW b \in 1..MaxAuths PROVE WarnFits(sweeps', auths', told'.ending[b], b)
  <2>1. WarnFits(sweeps, auths, told.ending[b], b) /\ told.ending[b] \in Nat
    BY <1>1 DEF RemindInv
  <2>2. Cardinality(Sweepers) \in Nat
    BY ListingSmall
  <2>3. CASE b = a
    <3>1. Listing(sweeps', a) = Listing(sweeps, a) \ {p} /\ p \in Listing(sweeps, a)
      BY <1>1, <1>3, <1>7 DEF Listing
    <3>2. IsFiniteSet(Listing(sweeps, a)) /\ Cardinality(Listing(sweeps, a)) \in Nat
      BY ListingSmall
    <3>3. Cardinality(Listing(sweeps', a)) = Cardinality(Listing(sweeps, a)) - 1
      BY <3>1, <3>2, FS_RemoveElement
    <3>4. told'.ending[b] = told.ending[b] + 1
      BY <1>9, <2>3
    <3>5. told'.ending[b] + Cardinality(Listing(sweeps', b)) <= Cardinality(Sweepers)
      BY <2>1, <2>2, <2>3, <3>2, <3>3, <3>4 DEF WarnFits
    <3> QED
      BY <1>8, <2>3, <3>5 DEF WarnFits
  <2>4. CASE b # a
    <3>1. Listing(sweeps', b) = Listing(sweeps, b)
      BY <1>3, <1>7, <2>4 DEF Listing
    <3>2. told'.ending[b] = told.ending[b]
      BY <1>9, <2>4
    <3> QED
      BY <1>8, <2>1, <3>1, <3>2 DEF WarnFits
  <2> QED
    BY <2>3, <2>4
<1> QED
  BY <1>7, <1>9, <1>10, <1>11, <1>12
     DEF RemindInv, SweepFits, RemindFits, WarnFits, Claimed, Listing

\* A sweep claims a handover nobody was reminded of, or finds it claimed or counted.
LEMMA ClaimingKept ==
    ASSUME HoursInv, NEW p \in Sweepers, NEW h \in DOMAIN handovers, SweepClaims(p, h)
    PROVE  RemindInv'
<1> DEFINE c == IF Claimable(h) THEN h ELSE 0
           y == [sweeps[p] EXCEPT !.open = @ \ {h}, !.claimed = c]
<1>1. RemindInv /\ AfterHoursTypeOK /\ sweeps[p].claimed = 0
  BY DEF HoursInv, SweepClaims
<1>2. /\ sweeps[p] \in SweepState /\ DOMAIN handovers = 1..Len(handovers) /\ Len(handovers) \in Nat
  BY <1>1, DocumentTypes DEF RemindInv
<1>3. c \in Nat /\ c \in 0..Len(handovers)
  BY <1>2
<1>4. y \in SweepState /\ y.soon = sweeps[p].soon /\ y.claimed = c
  <2> HIDE DEF c
  <2> QED
    BY <1>2, <1>3 DEF SweepState
<1>5. sweeps' = [sweeps EXCEPT ![p] = y]
  BY <1>2 DEF SweepClaims
<1>6. UNCHANGED <<auths, told>>
  BY DEF SweepClaims
<1>7. /\ DOMAIN handovers' = DOMAIN handovers /\ Len(handovers') = Len(handovers)
      /\ \A i \in DOMAIN handovers :
            handovers'[i].reminded = (handovers[i].reminded \/ (i = h /\ Claimable(h)))
  <2>1. /\ handovers' \in Seq(Handover) /\ DOMAIN handovers' = DOMAIN handovers
        /\ \A i \in DOMAIN handovers :
              handovers'[i].reminded = (handovers[i].reminded \/ (i = h /\ Claimable(h)))
    BY <1>1, Claims
  <2>2. Len(handovers') = Len(handovers)
    BY <1>2, <2>1, LenProperties
  <2> QED
    BY <2>1, <2>2
<1> HIDE DEF y
<1>8. /\ sweeps' \in [Sweepers -> SweepState] /\ sweeps'[p] = y
      /\ \A q \in Sweepers : q # p => sweeps'[q] = sweeps[q]
  BY <1>1, <1>4, <1>5, Sweeps DEF Sweeping
<1>9. ASSUME NEW q \in Sweepers PROVE SweepFits(sweeps'[q], auths', handovers')
  <2> HIDE DEF c
  <2> QED
    BY <1>1, <1>3, <1>4, <1>6, <1>7, <1>8 DEF RemindInv, SweepFits
<1>10. ASSUME NEW i \in 1..MaxHandovers PROVE RemindFits(sweeps', handovers', told'.open[i], i)
  <2>1. RemindFits(sweeps, handovers, told.open[i], i) /\ told.open[i] \in {0, 1} /\ i # 0
    <3>1. told.open \in [1..MaxHandovers -> {0, 1}]
      BY <1>1 DEF RemindInv
    <3>2. i # 0
      OBVIOUS
    <3>3. told.open[i] \in {0, 1}
      BY <3>1
    <3> QED
      BY <1>1, <3>2, <3>3 DEF RemindInv
  <2>2. CASE i = c
    <3>1. Claimable(h) /\ i = h
      BY <2>1, <2>2
    <3>2. ~handovers[h].reminded
      BY <3>1 DEF Claimable
    <3>3. Claimed(sweeps, i) = {} /\ told.open[i] = 0
      BY <2>1, <3>1, <3>2 DEF RemindFits
    <3>4. Claimed(sweeps', i) = {p}
      BY <1>1, <1>4, <1>8, <2>2, <3>3 DEF Claimed
    <3>5. i \in DOMAIN handovers' /\ handovers'[i].reminded
      BY <1>7, <3>1
    <3> QED
      BY <1>6, <3>3, <3>4, <3>5 DEF RemindFits
  <2>3. CASE i # c
    <3>1. Claimed(sweeps', i) \subseteq Claimed(sweeps, i)
      BY <1>4, <1>8, <2>3 DEF Claimed
    <3>2. \A j \in DOMAIN handovers : handovers[j].reminded => handovers'[j].reminded
      BY <1>7
    <3> QED
      BY <1>6, <1>7, <2>1, <3>1, <3>2 DEF RemindFits
  <2> QED
    BY <2>2, <2>3
<1>11. ASSUME NEW a \in 1..MaxAuths PROVE WarnFits(sweeps', auths', told'.ending[a], a)
  <2>1. Listing(sweeps', a) = Listing(sweeps, a)
    BY <1>4, <1>8 DEF Listing
  <2> QED
    BY <1>1, <1>6, <2>1 DEF RemindInv, WarnFits
<1>12. told' \in [ending: [1..MaxAuths -> Nat], open: [1..MaxHandovers -> {0, 1}]]
  BY <1>1, <1>6 DEF RemindInv
<1> QED
  BY <1>8, <1>9, <1>10, <1>11, <1>12
     DEF RemindInv, SweepFits, RemindFits, WarnFits, Claimed, Listing

\* A sweep reminds of the handover it has claimed, and only it has.
LEMMA RemindingKept ==
    ASSUME HoursInv, NEW p \in Sweepers, SweepReminds(p)
    PROVE  RemindInv'
<1> DEFINE y == [sweeps[p] EXCEPT !.claimed = 0]
           h == sweeps[p].claimed
<1>1. RemindInv /\ AfterHoursTypeOK /\ h # 0
  BY DEF HoursInv, SweepReminds
<1>2. sweeps[p] \in SweepState /\ Len(handovers) \in Nat
  BY <1>1, DocumentTypes DEF RemindInv
<1>3. y \in SweepState /\ y.soon = sweeps[p].soon /\ y.claimed = 0
  BY <1>2 DEF SweepState
<1>4. sweeps' = [sweeps EXCEPT ![p] = y]
  BY DEF SweepReminds
<1>5. UNCHANGED <<auths, handovers>> /\ told' = [told EXCEPT !.open[h] = @ + 1]
  BY DEF SweepReminds, businessVars
<1> HIDE DEF y
<1>6. /\ sweeps' \in [Sweepers -> SweepState] /\ sweeps'[p] = y
      /\ \A q \in Sweepers : q # p => sweeps'[q] = sweeps[q]
  BY <1>1, <1>3, <1>4, Sweeps DEF Sweeping
<1>7. sweeps[p].claimed = h
  OBVIOUS
<1> HIDE DEF h
<1>8. h \in 1..MaxHandovers =>
         /\ told.open[h] = 0 /\ h \in DOMAIN handovers /\ handovers[h].reminded
         /\ Claimed(sweeps', h) = {}
  <2> SUFFICES ASSUME h \in 1..MaxHandovers
               PROVE  /\ told.open[h] = 0 /\ h \in DOMAIN handovers /\ handovers[h].reminded
                      /\ Claimed(sweeps', h) = {}
    OBVIOUS
  <2>1. RemindFits(sweeps, handovers, told.open[h], h)
    BY <1>1 DEF RemindInv
  <2>2. p \in Claimed(sweeps, h)
    BY <1>7 DEF Claimed
  <2>3. \A q \in Claimed(sweeps, h) : q = p
    BY <2>1, <2>2 DEF RemindFits
  <2>4. Claimed(sweeps', h) = {}
    BY <1>1, <1>3, <1>6, <2>3 DEF Claimed
  <2> QED
    BY <2>1, <2>2, <2>4 DEF RemindFits
<1>9. /\ told' \in [ending: [1..MaxAuths -> Nat], open: [1..MaxHandovers -> {0, 1}]]
      /\ told'.ending = told.ending
      /\ \A i \in 1..MaxHandovers : told'.open[i] = IF i = h THEN 1 ELSE told.open[i]
  <2> DEFINE e == [told.open EXCEPT ![h] = @ + 1]
  <2>1. told \in [ending: [1..MaxAuths -> Nat], open: [1..MaxHandovers -> {0, 1}]]
    BY <1>1 DEF RemindInv
  <2>2. /\ e \in [1..MaxHandovers -> {0, 1}]
        /\ \A i \in 1..MaxHandovers : e[i] = IF i = h THEN 1 ELSE told.open[i]
    <3> DEFINE f == told.open
    <3>1. f \in [1..MaxHandovers -> {0, 1}] /\ (h \in 1..MaxHandovers => f[h] = 0)
      BY <1>8, <2>1
    <3>2. e = [f EXCEPT ![h] = f[h] + 1]
      OBVIOUS
    <3> HIDE DEF e, f
    <3>3. CASE h \in 1..MaxHandovers
      <4>1. f[h] + 1 = 1
        BY <3>1, <3>3
      <4>2. e = [f EXCEPT ![h] = 1]
        BY <3>2, <4>1
      <4> QED
        BY <3>1, <3>3, <4>2 DEF f
    <3>4. CASE h \notin 1..MaxHandovers
      <4>1. e = f
        BY <3>1, <3>2, <3>4
      <4> QED
        BY <3>1, <3>4, <4>1 DEF f
    <3> QED
      BY <3>3, <3>4
  <2>3. told' = [told EXCEPT !.open = e]
    BY <1>5
  <2> HIDE DEF e
  <2> QED
    BY <2>1, <2>2, <2>3
<1>10. ASSUME NEW q \in Sweepers PROVE SweepFits(sweeps'[q], auths', handovers')
  BY <1>1, <1>2, <1>3, <1>5, <1>6 DEF RemindInv, SweepFits
<1>11. ASSUME NEW i \in 1..MaxHandovers PROVE RemindFits(sweeps', handovers', told'.open[i], i)
  <2>1. CASE i = h
    BY <1>5, <1>8, <1>9, <2>1 DEF RemindFits
  <2>2. CASE i # h
    <3>1. RemindFits(sweeps, handovers, told.open[i], i) /\ told'.open[i] = told.open[i] /\ i # 0
      BY <1>1, <1>9, <2>2 DEF RemindInv
    <3>2. Claimed(sweeps', i) \subseteq Claimed(sweeps, i)
      BY <1>3, <1>6, <3>1 DEF Claimed
    <3> QED
      BY <1>5, <3>1, <3>2 DEF RemindFits
  <2> QED
    BY <2>1, <2>2
<1>12. ASSUME NEW a \in 1..MaxAuths PROVE WarnFits(sweeps', auths', told'.ending[a], a)
  <2>1. Listing(sweeps', a) = Listing(sweeps, a)
    BY <1>3, <1>6 DEF Listing
  <2> QED
    BY <1>1, <1>5, <1>9, <2>1 DEF RemindInv, WarnFits
<1> QED
  BY <1>6, <1>9, <1>10, <1>11, <1>12
     DEF RemindInv, SweepFits, RemindFits, WarnFits, Claimed, Listing

\* No mark is taken off while the sweeps do nothing.
LEMMA MarksKept ==
    ASSUME HoursInv, MarksStand, UNCHANGED <<sweeps, told>>
    PROVE  RemindInv'
<1>1. SweepsStand
  BY DEF SweepsStand, HoursInv, RemindInv
<1> QED
  BY <1>1, SweepsStanding

LEMMA MarksUntouched ==
    ASSUME HoursInv, UNCHANGED <<auths, handovers>>
    PROVE  MarksStand
<1>1. Len(handovers) \in Nat
  BY DocumentTypes DEF HoursInv
<1> QED
  BY <1>1 DEF MarksStand

\* An authorisation is added, or one changes that stays marked.
LEMMA MarksOfAuths ==
    ASSUME HoursInv, UNCHANGED handovers, DOMAIN auths \subseteq DOMAIN auths',
           \A a \in DOMAIN auths : auths[a].warned => auths'[a].warned
    PROVE  MarksStand
<1>1. Len(handovers) \in Nat
  BY DocumentTypes DEF HoursInv
<1> QED
  BY <1>1 DEF MarksStand

\* So it is with a handover.
LEMMA MarksOfHandovers ==
    ASSUME UNCHANGED auths, NEW h, NEW y, Changed(handovers', handovers, h, y),
           y.reminded = handovers[h].reminded
    PROVE  MarksStand
BY DEF MarksStand, Changed

\* Nobody is reminded twice, nor warned more often than there are sweeps, after
\* every step.
LEMMA RemindKept == HoursInv /\ [AfterHoursNext]_allVars => RemindInv'
<1> SUFFICES ASSUME HoursInv, [AfterHoursNext]_allVars PROVE RemindInv'
  OBVIOUS
<1>1. BillInv /\ AfterHoursTypeOK /\ StoryInv /\ RemindInv /\ FinanceTypeOK
  BY DEF HoursInv, BillInv, MoneyInv
<1>2. \A a \in DOMAIN auths : auths[a] \in Authorization
  BY <1>1, DocumentTypes
<1>3. ASSUME NEW w \in Workers, NEW window \in Windows, NEW float \in Floats,
             AuthorizeAfterHours(w, window, float)
      PROVE  RemindInv'
  <2>1. Grown(auths', auths, NewAuthorization(w, window, float))
    BY <1>1, <1>3, Authorizes
  <2>2. /\ DOMAIN auths \subseteq DOMAIN auths'
        /\ \A a \in DOMAIN auths : auths'[a] = auths[a]
    BY <2>1 DEF Grown
  <2>3. UNCHANGED <<handovers, sweeps, told>>
    BY <1>3 DEF AuthorizeAfterHours, sweepVars
  <2> QED
    BY <2>2, <2>3, MarksOfAuths, MarksKept
<1>4. ASSUME NEW a \in DOMAIN auths, NEW x, auths' = [auths EXCEPT ![a] = x],
             x.warned = auths[a].warned, UNCHANGED <<handovers, sweeps, told>>
      PROVE  RemindInv'
  <2>1. /\ DOMAIN auths \subseteq DOMAIN auths'
        /\ \A b \in DOMAIN auths : auths[b].warned => auths'[b].warned
    BY <1>4
  <2> QED
    BY <1>4, <2>1, MarksOfAuths, MarksKept
<1>5. ASSUME NEW a \in DOMAIN auths, RevokeAfterHours(a) PROVE RemindInv'
  <2> DEFINE x == [auths[a] EXCEPT !.status = "revoked"]
  <2>1. x.warned = auths[a].warned
    BY <1>2 DEF Authorization
  <2>2. auths' = [auths EXCEPT ![a] = x] /\ UNCHANGED <<handovers, sweeps, told>>
    BY <1>5 DEF RevokeAfterHours, sweepVars
  <2> HIDE DEF x
  <2> QED
    BY <1>4, <2>1, <2>2
<1>6. ASSUME NEW a \in DOMAIN auths, ExpireAuthorization(a) PROVE RemindInv'
  <2> DEFINE x == [auths[a] EXCEPT !.status = "expired"]
  <2>1. x.warned = auths[a].warned
    BY <1>2 DEF Authorization
  <2>2. auths' = [auths EXCEPT ![a] = x] /\ UNCHANGED <<handovers, sweeps, told>>
    BY <1>6 DEF ExpireAuthorization, sweepVars
  <2> HIDE DEF x
  <2> QED
    BY <1>4, <2>1, <2>2
<1>7. ASSUME NEW w \in Workers, NEW a \in DOMAIN auths, OpenAfterHoursSession(w, a)
      PROVE  RemindInv'
  <2>1. /\ DOMAIN auths' = DOMAIN auths
        /\ \A b \in DOMAIN auths : auths'[b].warned = auths[b].warned
    BY <1>1, <1>7, Opens
  <2>2. UNCHANGED <<handovers, sweeps, told>>
    BY <1>7 DEF OpenAfterHoursSession, sweepVars
  <2> QED
    BY <2>1, <2>2, MarksOfAuths, MarksKept
<1>8. ASSUME NEW s \in DOMAIN sessions, CloseAfterHoursSession(s) PROVE RemindInv'
  <2> DEFINE expected == sessions[s].float + LiveCash(s)
  <2>1. IF expected > 0 THEN Grown(handovers', handovers, NewHandover(s, expected))
        ELSE handovers' = handovers
    BY <1>1, <1>8, Closes
  <2>2. UNCHANGED <<auths, sweeps, told>>
    BY <1>8 DEF CloseAfterHoursSession, sweepVars
  <2> HIDE DEF expected
  <2>3. MarksStand
    <3>1. CASE expected > 0
      BY <2>1, <2>2, <3>1 DEF MarksStand, Grown
    <3>2. CASE ~(expected > 0)
      BY <2>1, <2>2, <3>2, MarksUntouched
    <3> QED
      BY <3>1, <3>2
  <2> QED
    BY <2>2, <2>3, MarksKept
<1>9. ASSUME UNCHANGED <<auths, handovers, sweeps, told>> PROVE RemindInv'
  BY <1>9, MarksUntouched, MarksKept
<1>10. ASSUME NEW h \in DOMAIN handovers, NEW x, NEW y, NEW status, NEW standing,
              Stands(handovers[h].session, h, x, y, status, standing),
              UNCHANGED <<auths, sweeps, told>>
       PROVE  RemindInv'
  <2>1. Changed(handovers', handovers, h, y) /\ y.reminded = handovers[h].reminded
    BY <1>10 DEF Stands
  <2> QED
    BY <1>10, <2>1, MarksOfHandovers, MarksKept
<1>11. ASSUME NEW h \in DOMAIN handovers, SubmitCashHandover(h) PROVE RemindInv'
  <2>1. PICK x, y : Stands(handovers[h].session, h, x, y, "handover_pending", "submitted")
    BY <1>1, <1>11, Submits
  <2>2. UNCHANGED <<auths, sweeps, told>>
    BY <1>11 DEF SubmitCashHandover, sweepVars
  <2> QED
    BY <1>10, <2>1, <2>2
<1>12. ASSUME NEW h \in DOMAIN handovers, NEW actual \in Counted, ReceiveCashHandover(h, actual)
       PROVE  RemindInv'
  <2> DEFINE n == actual - handovers[h].expected
             status == IF n = 0 THEN "reconciled" ELSE "handover_pending"
             standing == IF n = 0 THEN "received" ELSE "discrepancy"
  <2>1. PICK x, y : Stands(handovers[h].session, h, x, y, status, standing)
    BY <1>1, <1>12, Receives
  <2>2. UNCHANGED <<auths, sweeps, told>>
    BY <1>12 DEF ReceiveCashHandover, sweepVars
  <2> HIDE DEF status, standing
  <2> QED
    BY <1>10, <2>1, <2>2
<1>13. ASSUME NEW d \in DOMAIN gaps, NEW outcome \in {"resolved", "waived"},
              NEW recover \in BOOLEAN, NEW adjust \in BOOLEAN,
              ResolveCashDiscrepancy(d, outcome, recover, adjust)
       PROVE  RemindInv'
  <2> DEFINE h == gaps[d].handover
  <2>1. h \in DOMAIN handovers
    BY <1>1, <1>13, Resolves
  <2>2. PICK x, y : Stands(handovers[h].session, h, x, y, "reconciled", "reconciled")
    BY <1>1, <1>13, Resolves
  <2>3. UNCHANGED <<auths, sweeps, told>>
    BY <1>13 DEF ResolveCashDiscrepancy, sweepVars
  <2> HIDE DEF h
  <2> QED
    BY <1>10, <2>1, <2>2, <2>3
<1>14. ASSUME NEW p \in Sweepers, SweepReadsOpen(p) \/ SweepDies(p) PROVE RemindInv'
  <2>1. UNCHANGED <<auths, handovers, told>>
    BY <1>14 DEF SweepReadsOpen, SweepDies, businessVars
  <2>2. SweepsStand
    <3> DEFINE y == [Idle EXCEPT !.open = Overdue]
    <3>1. DOMAIN handovers = 1..Len(handovers) /\ Len(handovers) \in Nat
      BY <1>1, DocumentTypes
    <3>2. y \in SweepState /\ y.soon = {} /\ y.claimed = 0
      <4>1. Overdue \in SUBSET Nat
        BY <3>1 DEF Overdue
      <4> QED
        BY <4>1 DEF Idle, SweepState
    <3>3. Dead \in SweepState /\ Dead.soon = {} /\ Dead.claimed = 0
      BY DEF Dead, Idle, SweepState
    <3>4. CASE SweepReadsOpen(p)
      <4>1. sweeps' = [sweeps EXCEPT ![p] = y]
        BY <3>4 DEF SweepReadsOpen
      <4> HIDE DEF y
      <4> QED
        BY <1>1, <2>1, <3>2, <4>1, Sweeps DEF Sweeping, SweepsStand
    <3>5. CASE SweepDies(p)
      <4>1. sweeps' = [sweeps EXCEPT ![p] = Dead]
        BY <3>5 DEF SweepDies
      <4> QED
        BY <1>1, <2>1, <3>3, <4>1, Sweeps DEF Sweeping, SweepsStand
    <3> QED
      BY <1>14, <3>4, <3>5
  <2> QED
    BY <2>1, <2>2, MarksUntouched, SweepsStanding
<1>15. CASE Authorizing \/ Working
  <2>1. ASSUME NEW s, CancelAfterHoursSession(s) PROVE RemindInv'
    BY <1>9, <2>1 DEF CancelAfterHoursSession, sweepVars
  <2> QED
    BY <1>3, <1>5, <1>7, <1>8, <1>15, <2>1 DEF Authorizing, Working
<1>16. CASE Collecting
  <2>1. ASSUME NEW j, InvoiceJob(j) PROVE RemindInv'
    BY <1>9, <2>1 DEF InvoiceJob, businessVars, sweepVars
  <2>2. ASSUME NEW r, NEW i, NEW method, NEW n, CashierRecordsPayment(r, i, method, n)
        PROVE  RemindInv'
    BY <1>9, <2>2 DEF CashierRecordsPayment, sweepVars
  <2>3. ASSUME NEW w, NEW r, NEW i, NEW method, NEW n, WorkerRecordsPayment(w, r, i, method, n)
        PROVE  RemindInv'
    BY <1>9, <2>3 DEF WorkerRecordsPayment, sweepVars
  <2>4. ASSUME NEW k, ReverseAnyPayment(k) PROVE RemindInv'
    BY <1>9, <2>4 DEF ReverseAnyPayment, sweepVars
  <2> QED
    BY <1>16, <2>1, <2>2, <2>3, <2>4 DEF Collecting
<1>17. CASE HandingOver
  <2>1. ASSUME NEW d, ReviewCashDiscrepancy(d) PROVE RemindInv'
    BY <1>9, <2>1 DEF ReviewCashDiscrepancy, sweepVars
  <2> QED
    BY <1>11, <1>12, <1>13, <1>17, <2>1 DEF HandingOver
<1>18. CASE Tick \/ UNCHANGED allVars
  BY <1>9, <1>18 DEF Tick, businessVars, allVars, afterHoursVars
<1>19. CASE Housekeeping
  BY <1>6, <1>14, <1>19, ListingKept, WarningKept, ClaimingKept, RemindingKept
     DEF Housekeeping, SweepStep, Sweep
<1> QED
  BY <1>15, <1>16, <1>17, <1>18, <1>19 DEF AfterHoursNext

-----------------------------------------------------------------------------
(* The theorems *)

\* Nobody works, holds cash or is told anything when the system starts.
LEMMA HoursStarts == AfterHoursInit => HoursInv
<1> SUFFICES ASSUME AfterHoursInit PROVE HoursInv
  OBVIOUS
<1>1. BillInv
  BY BillInit DEF AfterHoursInit
<1>2. AfterHoursTypeOK
  BY DEF AfterHoursInit, BillingInit, AfterHoursTypeOK
<1>3. RefsInv /\ KeysInv /\ FloatsInv /\ EmptyInv /\ CustodyInv /\ StoryInv
  BY DEF AfterHoursInit, RefsInv, KeysInv, FloatsInv, EmptyInv, CustodyInv, StoryInv
<1>4. RemindInv
  <2>1. Idle \in SweepState /\ Idle.soon = {} /\ Idle.claimed = 0
    BY DEF Idle, SweepState
  <2>2. /\ sweeps = [p \in Sweepers |-> Idle] /\ handovers = << >> /\ auths = << >>
        /\ told = [ending |-> [a \in 1..MaxAuths |-> 0], open |-> [h \in 1..MaxHandovers |-> 0]]
    BY DEF AfterHoursInit
  <2>3. \A p \in Sweepers : SweepFits(sweeps[p], auths, handovers)
    BY <2>1, <2>2 DEF SweepFits
  <2>4. ASSUME NEW h \in 1..MaxHandovers PROVE RemindFits(sweeps, handovers, told.open[h], h)
    <3>1. Claimed(sweeps, h) = {} /\ told.open[h] = 0
      BY <2>1, <2>2 DEF Claimed
    <3> QED
      BY <3>1 DEF RemindFits
  <2>5. ASSUME NEW a \in 1..MaxAuths PROVE WarnFits(sweeps, auths, told.ending[a], a)
    <3>1. told.ending[a] = 0
      BY <2>2
    <3> QED
      BY <3>1, ListingSmall DEF WarnFits
  <2>6. /\ sweeps \in [Sweepers -> SweepState]
        /\ told \in [ending: [1..MaxAuths -> Nat], open: [1..MaxHandovers -> {0, 1}]]
    BY <2>1, <2>2
  <2> QED
    BY <2>3, <2>4, <2>5, <2>6 DEF RemindInv
<1> QED
  BY <1>1, <1>2, <1>3, <1>4 DEF HoursInv

\* Every part of the invariant survives every step of after_hours.js.
LEMMA HoursKept == HoursInv /\ [AfterHoursNext]_allVars => HoursInv'
BY HoursByTheBook, HoursTypeKept, KeysKept, CustodyKept, StoryKept, RemindKept DEF HoursInv

LEMMA HoursInvariant == AfterHoursSpec => []HoursInv
BY HoursStarts, HoursKept, PTL DEF AfterHoursSpec

\* Every document of a working evening has the shape after_hours.js writes, and
\* nobody is ever expected to hold less than no cash.
THEOREM HoursTypeCorrect == AfterHoursSpec => []AfterHoursTypeOK
<1>1. HoursInv => AfterHoursTypeOK
  BY DEF HoursInv
<1> QED
  BY <1>1, HoursInvariant, PTL

\* A session that names a handover is expected to hand over what the handover says.
LEMMA HandedOverAsExpected ==
    ASSUME StoryInv, NEW s \in DOMAIN sessions, sessions[s].handover # 0
    PROVE  handovers[sessions[s].handover].expected = sessions[s].expected
<1> DEFINE h == sessions[s].handover
<1>1. SessionFits(sessions, handovers, s)
  BY DEF StoryInv
<1>2. h \in DOMAIN handovers /\ handovers[h].session = s
  BY <1>1 DEF SessionFits
<1>3. HandoverFits(sessions, handovers, h)
  BY <1>2 DEF StoryInv
<1> QED
  BY <1>2, <1>3 DEF HandoverFits

\* The running total of a session, its lines in the custody book and the payments
\* taken in it come out the same whatever order payments, reversals, closings and
\* cancellations come in; after the closing they differ by late reversals only.
THEOREM CustodyCorrect == AfterHoursSpec => []CustodyAddsUp
<1>1. HoursInv => CustodyAddsUp
  <2> SUFFICES ASSUME HoursInv, NEW s \in DOMAIN sessions
               PROVE  LET x == sessions[s]
                          booked == SumOver(LAMBDA e : custody[e].delta,
                                        {e \in DOMAIN custody : custody[e].session = s})
                      IN  /\ x.expected = booked
                          /\ x.expected = x.float + x.collected - x.reversed
                          /\ x.status = "open" => x.expected = x.float + LiveCash(s)
                          /\ x.expected >= x.float + LiveCash(s)
                          /\ x.expected <= x.float + LiveCash(s) + x.late
                          /\ x.handover # 0 => handovers[x.handover].expected = x.expected
    BY DEF CustodyAddsUp
  <2>1. Balanced(sessions[s], DeltasOf(custody, LinesOf(s)), LiveCash(s))
    BY DEF HoursInv, CustodyInv
  <2>2. DeltasOf(custody, LinesOf(s))
          = SumOver(LAMBDA e : custody[e].delta, {e \in DOMAIN custody : custody[e].session = s})
    BY DEF DeltasOf, LinesOf
  <2>3. sessions[s].handover # 0
          => handovers[sessions[s].handover].expected = sessions[s].expected
    BY HandedOverAsExpected DEF HoursInv
  <2> QED
    BY <2>1, <2>2, <2>3 DEF Balanced
<1> QED
  BY <1>1, HoursInvariant, PTL

\* The float of an authorisation is the sum of the floats of its sessions.
LEMMA FloatOfSessions ==
    ASSUME AfterHoursTypeOK, FloatsInv, NEW a \in DOMAIN auths,
           {s \in DOMAIN sessions : sessions[s].auth = a} # {}
    PROVE  FloatsOf(sessions, {s \in DOMAIN sessions : sessions[s].auth = a}) = auths[a].float
<1> DEFINE mine == {s \in DOMAIN sessions : sessions[s].auth = a}
           f == auths[a].floatSession
<1>1. FloatOut(a)
  BY DEF FloatsInv
<1>2. \A s \in DOMAIN sessions : sessions[s].float \in Nat
  BY DocumentTypes DEF Session
<1>3. mine \subseteq DOMAIN sessions /\ IsFiniteSet(mine)
  <2>1. DOMAIN sessions = 1..Len(sessions) /\ Len(sessions) \in Nat
    BY DocumentTypes
  <2>2. IsFiniteSet(DOMAIN sessions)
    BY <2>1, FS_Interval
  <2>3. mine \subseteq DOMAIN sessions
    OBVIOUS
  <2> HIDE DEF mine
  <2> QED
    BY <2>2, <2>3, FS_Subset
<1>4. CASE f # 0
  <2>1. f \in mine /\ sessions[f].float = auths[a].float
    BY <1>1, <1>4 DEF FloatOut
  <2>2. \A s \in mine \ {f} : sessions[s].float = 0
    BY <1>1 DEF FloatOut
  <2> QED
    BY <1>2, <1>3, <2>1, <2>2, OneFloat
<1>5. CASE f = 0
  <2>1. /\ \A s \in mine : s # f
        /\ \A s \in mine : sessions[s].float = 0
        /\ auths[a].float = 0
    <3>1. 0 \notin DOMAIN sessions
      BY DocumentTypes
    <3> QED
      BY <1>1, <1>5, <3>1 DEF FloatOut
  <2> QED
    BY <1>3, <2>1, NoFloat
<1> QED
  BY <1>4, <1>5

\* The open session of a worker is the one the unique key names, and no other.
LEMMA KeyNamesOpen ==
    ASSUME AfterHoursTypeOK, RefsInv, KeysInv, NEW w \in Workers
    PROVE  {s \in DOMAIN sessions : sessions[s].staff = w /\ sessions[s].status = "open"}
             = {openSession[w]} \ {0}
<1>1. /\ DOMAIN sessions = 1..Len(sessions) /\ Len(sessions) \in Nat
      /\ openSession[w] \in 0..Len(sessions)
  BY DocumentTypes DEF RefsInv
<1>2. \A s \in DOMAIN sessions :
         openSession[w] = s <=> sessions[s].staff = w /\ sessions[s].status = "open"
  BY DEF KeysInv
<1>3. openSession[w] # 0 => openSession[w] \in DOMAIN sessions
  BY <1>1
<1>4. 0 \notin DOMAIN sessions
  BY <1>1
<1> QED
  BY <1>2, <1>3, <1>4

\* However often sessions are opened, closed and cancelled under an authorisation,
\* its float is out with one of them; a session that had cash ends by handing it
\* over, and a worker has one open session at most, the one of the unique key.
THEOREM FloatCorrect == AfterHoursSpec => []FloatHandedBack
<1>1. ASSUME HoursInv PROVE FloatHandedBack
  <2>1. AfterHoursTypeOK /\ RefsInv /\ KeysInv /\ FloatsInv /\ EmptyInv
    BY <1>1 DEF HoursInv
  <2>2. ASSUME NEW a \in DOMAIN auths
        PROVE  LET mine == {s \in DOMAIN sessions : sessions[s].auth = a}
               IN  mine # {} => SumOver(LAMBDA s : sessions[s].float, mine) = auths[a].float
    BY <2>1, FloatOfSessions DEF FloatsOf
  <2>3. \A s \in DOMAIN sessions : sessions[s].status \in {"closed", "cancelled"} =>
           sessions[s].float = 0 /\ sessions[s].expected = 0
    BY <2>1 DEF EmptyInv, Empty
  <2>4. \A w \in Workers :
           {s \in DOMAIN sessions : sessions[s].staff = w /\ sessions[s].status = "open"}
             = {openSession[w]} \ {0}
    BY <2>1, KeyNamesOpen
  <2> QED
    BY <2>2, <2>3, <2>4 DEF FloatHandedBack
<1> QED
  BY <1>1, HoursInvariant, PTL

\* A session, its handover and the discrepancy of its count tell one story, in any
\* order of counting, reviewing and resolving, and an adjustment brings Cash at Hand
\* to what was counted.
THEOREM StoryCorrect == AfterHoursSpec => []HandoverStory
<1>1. ASSUME HoursInv PROVE HandoverStory
  <2>1. StoryInv
    BY <1>1 DEF HoursInv
  <2>2. ASSUME NEW h \in DOMAIN handovers
        PROVE  LET x == handovers[h]
                   s == sessions[x.session]
               IN  /\ s.handover = h /\ s.handoverStatus = x.status
                   /\ s.status = (IF x.status \in {"received", "reconciled"} THEN "reconciled"
                                  ELSE "handover_pending")
                   /\ x.gap # 0 <=> x.status \in {"discrepancy", "reconciled"}
                   /\ x.status = "received" => x.actual = x.expected
    <3>1. HandoverFits(sessions, handovers, h) /\ CountFits(handovers, gaps, h)
      BY <2>1 DEF StoryInv
    <3> QED
      BY <3>1 DEF HandoverFits, CountFits
  <2>3. ASSUME NEW d \in DOMAIN gaps
        PROVE  LET x == gaps[d]
                   h == handovers[x.handover]
               IN  /\ h.gap = d /\ x.difference = h.actual - h.expected /\ x.difference # 0
                   /\ x.status \in {"resolved", "waived"} <=> h.status = "reconciled"
                   /\ x.entry # 0 => /\ ledger[x.entry].type = "adjustment"
                                     /\ DeltaOf(ledger[x.entry], Cash) = x.difference
                                     /\ \A c \in DOMAIN gaps \ {d} : gaps[c].entry # x.entry
                   /\ x.loss => x.difference < 0 /\ x.status = "resolved"
    <3>1. GapFits(handovers, gaps, d) /\ GapPosted(ledger, gaps, d)
      BY <2>1 DEF StoryInv
    <3> QED
      BY <3>1 DEF GapFits, GapPosted
  <2>4. \A s \in DOMAIN sessions : sessions[s].status \in {"handover_pending", "reconciled"} =>
           sessions[s].handover \in DOMAIN handovers
    BY <2>1 DEF StoryInv, SessionFits
  <2> QED
    BY <2>2, <2>3, <2>4 DEF HandoverStory
<1> QED
  BY <1>1, HoursInvariant, PTL

\* However sweeps overlap and die, a handover is reminded of once at most, and of an
\* authorisation that is ending each sweep warns once at most.
THEOREM RemindedCorrect == AfterHoursSpec => []RemindedOnce
<1>1. ASSUME HoursInv PROVE RemindedOnce
  <2>1. told \in [ending: [1..MaxAuths -> Nat], open: [1..MaxHandovers -> {0, 1}]]
    BY <1>1 DEF HoursInv, RemindInv
  <2>2. ASSUME NEW a \in 1..MaxAuths PROVE told.ending[a] <= Cardinality(Sweepers)
    <3>1. WarnFits(sweeps, auths, told.ending[a], a)
      BY <1>1 DEF HoursInv, RemindInv
    <3>2. told.ending[a] \in Nat
      BY <2>1
    <3> QED
      BY <3>1, <3>2, ListingSmall DEF WarnFits
  <2>3. ASSUME NEW h \in 1..MaxHandovers PROVE told.open[h] <= 1
    <3>1. told.open \in [1..MaxHandovers -> {0, 1}]
      BY <2>1
    <3>2. told.open[h] \in {0, 1}
      BY <3>1
    <3>3. told.open[h] = 0 \/ told.open[h] = 1
      BY <3>2
    <3> QED
      BY <3>3
  <2>4. DOMAIN told.ending = 1..MaxAuths /\ DOMAIN told.open = 1..MaxHandovers
    BY <2>1
  <2> QED
    BY <2>2, <2>3, <2>4 DEF RemindedOnce
<1> QED
  BY <1>1, HoursInvariant, PTL

\* The evenings keep the journal too: collections, floats, reversals and adjustments
\* change a balance only with an entry, by exactly its amount, never below zero.
THEOREM HoursKeepJournal == AfterHoursSpec => ImplementsJournal
<1>1. AfterHoursInit => FinanceInit
  BY DEF AfterHoursInit, BillingInit
<1>2. HoursInv /\ [AfterHoursNext]_allVars => [Book!Next]_Book!vars
  BY HoursByTheBook, JournalStep DEF HoursInv, BillInv
<1>3. AfterHoursInit => Book!Init
  BY <1>1, JournalInit
<1>4. AfterHoursSpec => Book!Spec
  BY <1>2, <1>3, HoursInvariant, PTL DEF AfterHoursSpec, Book!Spec
<1> QED
  BY <1>4 DEF ImplementsJournal
=============================================================================
