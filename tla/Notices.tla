-------------------------------- MODULE Notices --------------------------------
(***************************************************************************)
(* functions/src/notify.js: a notice to a person is a document in their    *)
(* inbox and a push to their devices.  It is sent after the transaction    *)
(* that caused it, in steps of its own: retries and repeated triggers      *)
(* overlap, and the instance may die between two steps.  The id of the     *)
(* document is the recipient, the type, the record and the window of time, *)
(* and create() refuses an id that is there.                               *)
(*                                                                         *)
(* One record and one window of each type are enough: a notice about       *)
(* another, or a repeat after the window, is one of another id.            *)
(* Messaging (FCM) is external.                                            *)
(***************************************************************************)
EXTENDS Users

CONSTANTS
    Devices,       \* fcmTokens
    Notified,      \* bound: who is told what
    MaxNotifiers, MaxLost  \* bounds: calls at a time; calls that die or cannot write

VARIABLES
    muted,      \* people who turned the pushes of mutable categories off
    devices,    \* users/{uid}.fcmTokens
    gone,       \* the devices Messaging no longer knows
    inbox,      \* notifications: push status by id, "none" without a document
    notifiers,  \* the calls at work
    sends,      \* history: multicasts made for an id
    reached,    \* history: the devices they reached
    lost        \* history: the ids whose call died, or could not write, between two steps

noticeVars == <<muted, devices, gone, inbox, notifiers, sends, reached, lost>>

NoticeTypes == {"accountDeactivated", "passwordReset", "workOrderAssigned"}

\* CRITICAL_TYPES: pushed whatever the recipient's preferences.
CriticalTypes == {"accountDeactivated", "passwordReset"}

NoticeIds == [to: People, type: NoticeTypes]

ASSUME NoticesAssumption == Notified \subseteq People \X NoticeTypes

Notifiers == 1..MaxNotifiers
Resting == [step |-> "rest"]

NoticesInit ==
    /\ muted = {} /\ gone = {} /\ lost = {}
    /\ devices = [u \in People |-> {}]
    /\ inbox = [id \in NoticeIds |-> "none"]
    /\ notifiers = [n \in Notifiers |-> Resting]
    /\ sends = [id \in NoticeIds |-> 0]
    /\ reached = [id \in NoticeIds |-> {}]

-----------------------------------------------------------------------------
(* The recipient *)

\* updateNotificationPreferences, on or off; critical types have no setting.
UpdatePreferences(u, off) ==
    /\ AccountLive(u)
    /\ muted' = IF off THEN muted \cup {u} ELSE muted \ {u}
    /\ UNCHANGED <<devices, gone, inbox, notifiers, sends, reached, lost>>

\* The app registers its device on sign-in; a device that is gone has a new token.
AddDevice(u, d) ==
    /\ AccountEnabled(u)
    /\ d \notin gone /\ \A v \in People : d \notin devices[v]
    /\ devices' = [devices EXCEPT ![u] = @ \cup {d}]
    /\ UNCHANGED <<muted, gone, inbox, notifiers, sends, reached, lost>>

\* An app is removed: its token stays in the profile until Messaging reports it.
LoseDevice(d) ==
    /\ gone' = gone \cup {d}
    /\ UNCHANGED <<muted, devices, inbox, notifiers, sends, reached, lost>>

-----------------------------------------------------------------------------
(* notify *)

\* pushAllowed
PushAllowed(u, type) == type \in CriticalTypes \/ u \notin muted

\* What the call keeps of the profile it reads; the inactive are told only that.
AskToNotify(n, u, type) ==
    /\ notifiers[n] = Resting
    /\ AccountEnabled(u) \/ (profiles[u].exists /\ type = "accountDeactivated")
    /\ notifiers' = [notifiers EXCEPT ![n] =
           [step |-> "create", id |-> [to |-> u, type |-> type],
            tokens |-> devices[u], allowed |-> PushAllowed(u, type)]]
    /\ UNCHANGED <<muted, devices, gone, inbox, sends, reached, lost>>

\* Mutant: set() instead of create().
AbsentOrNot(id) == TRUE

NotThereYet(id) == inbox[id] = "none"

\* What becomes of a notice that is not pushed.
Unsent(call) == IF ~call.allowed THEN "muted" ELSE "no_device"

CreateNotice(n) ==
    /\ notifiers[n].step = "create"
    /\ LET call == notifiers[n]
       IN  IF NotThereYet(call.id)
           THEN /\ inbox' = [inbox EXCEPT ![call.id] = "pending"]
                /\ notifiers' = [notifiers EXCEPT ![n] =
                       IF call.allowed /\ call.tokens # {}
                       THEN [call EXCEPT !.step = "push"]
                       ELSE [step |-> "record", id |-> call.id, outcome |-> Unsent(call)]]
           ELSE notifiers' = [notifiers EXCEPT ![n] = Resting] /\ UNCHANGED inbox
    /\ UNCHANGED <<muted, devices, gone, sends, reached, lost>>

\* Messaging reaches some of the devices that exist; or the request fails as a whole.
Push(n) ==
    /\ notifiers[n].step = "push"
    /\ LET call == notifiers[n]
           stale == call.tokens \cap gone
       IN  \E ok \in SUBSET (call.tokens \ gone), answered \in BOOLEAN :
              /\ ~answered => ok = {}
              /\ sends' = [sends EXCEPT ![call.id] = @ + 1]
              /\ reached' = [reached EXCEPT ![call.id] = @ \cup ok]
              /\ notifiers' = [notifiers EXCEPT ![n] =
                     [step |-> IF answered /\ stale # {} THEN "prune" ELSE "record",
                      id |-> call.id, stale |-> stale,
                      outcome |-> IF ok = {} THEN "failed"
                                  ELSE IF ok = call.tokens THEN "sent" ELSE "partial"]]
    /\ UNCHANGED <<muted, devices, gone, inbox, lost>>

PruneDevices(n) ==
    /\ notifiers[n].step = "prune"
    /\ devices' = [devices EXCEPT ![notifiers[n].id.to] = @ \ notifiers[n].stale]
    /\ notifiers' = [notifiers EXCEPT ![n].step = "record"]
    /\ UNCHANGED <<muted, gone, inbox, sends, reached, lost>>

\* The write is inside the try of the push: when it fails, so has the push.
FailToPrune(n) ==
    /\ notifiers[n].step = "prune"
    /\ Cardinality(lost) < MaxLost
    /\ lost' = lost \cup {notifiers[n].id}
    /\ notifiers' = [notifiers EXCEPT ![n].step = "record", ![n].outcome = "failed"]
    /\ UNCHANGED <<muted, devices, gone, inbox, sends, reached>>

RecordOutcome(n) ==
    /\ notifiers[n].step = "record"
    /\ inbox' = [inbox EXCEPT ![notifiers[n].id] = notifiers[n].outcome]
    /\ notifiers' = [notifiers EXCEPT ![n] = Resting]
    /\ UNCHANGED <<muted, devices, gone, sends, reached, lost>>

\* The instance dies, or a write fails: notifySafely lets the call go.
LoseCall(n) ==
    /\ notifiers[n] # Resting
    /\ Cardinality(lost) < MaxLost
    /\ lost' = lost \cup {notifiers[n].id}
    /\ notifiers' = [notifiers EXCEPT ![n] = Resting]
    /\ UNCHANGED <<muted, devices, gone, inbox, sends, reached>>

NoticesStep ==
    \/ \E n \in Notifiers :
          \/ \E told \in Notified : AskToNotify(n, told[1], told[2])
          \/ CreateNotice(n) \/ Push(n) \/ PruneDevices(n) \/ FailToPrune(n)
          \/ RecordOutcome(n) \/ LoseCall(n)
    \/ \E told \in Notified :
          \/ \E off \in BOOLEAN : UpdatePreferences(told[1], off)
          \/ \E d \in Devices : AddDevice(told[1], d)
    \/ \E d \in Devices : LoseDevice(d)

-----------------------------------------------------------------------------
(* Properties *)

AtWork(id) == \E n \in Notifiers : notifiers[n] # Resting /\ notifiers[n].id = id

\* However triggers overlap, repeat and die, a notice goes to a person's devices at
\* most once; what its document says of that push is what happened; it
\* says "pending" for good, or "failed" of a push that arrived, only when its call died
\* or could not write; and no notice about a person's own access is ever muted.
NoticesHold == \A id \in NoticeIds :
    /\ sends[id] <= 1
    /\ inbox[id] = "pending" => AtWork(id) \/ id \in lost
    /\ inbox[id] \in {"sent", "partial"} => reached[id] # {}
    /\ inbox[id] \in {"muted", "no_device"} => sends[id] = 0
    /\ inbox[id] = "failed" => reached[id] = {} \/ id \in lost
    /\ inbox[id] = "muted" => id.type \notin CriticalTypes
=============================================================================
