----------------------------- MODULE OfficeProofs -----------------------------
(* Theorems about the office: the desks over one ledger, notices, the files  *)
(* of shareholders, and the reports read meanwhile.  A step of one desk      *)
(* keeps its own invariant, and adds or reverses no entry of the types the    *)
(* others look at (Spares), so that theirs stand too.                         *)
EXTENDS Office, OwnershipProofs, UsersProofs

-----------------------------------------------------------------------------
(* Notices *)

\* A call at work: about to create its document or to push; about to record that
\* there was nothing to push; about to prune devices or to record its push.
Calls ==
    {Resting}
    \cup [step: {"create", "push"}, id: NoticeIds, tokens: SUBSET Devices, allowed: BOOLEAN]
    \cup [step: {"record"}, id: NoticeIds, outcome: {"muted", "no_device"}]
    \cup [step: {"prune", "record"}, id: NoticeIds, stale: SUBSET Devices,
          outcome: {"failed", "sent", "partial"}]

Statuses == {"none", "pending", "muted", "no_device", "failed", "sent", "partial"}

\* Call n created the document of id and has not finished with it.
Owns(n, id) == notifiers[n].step \in {"push", "prune", "record"} /\ notifiers[n].id = id

\* What call n knows of the notice it works on.
CallOK(n) ==
    LET call == notifiers[n]
    IN  /\ call.step = "create" => (call.allowed \/ call.id.type \notin CriticalTypes)
        /\ call.step \in {"push", "prune", "record"} =>
              inbox[call.id] = "pending" /\ \A m \in Notifiers : Owns(m, call.id) => m = n
        /\ call.step = "push" => sends[call.id] = 0 /\ reached[call.id] = {}
        /\ call.step \in {"prune", "record"} =>
              /\ call.outcome = "muted" => call.id.type \notin CriticalTypes
              /\ call.outcome \in {"muted", "no_device"} => sends[call.id] = 0
              /\ call.outcome \in {"sent", "partial"} => reached[call.id] # {}
              /\ call.outcome = "failed" => (reached[call.id] = {} \/ call.id \in lost)

\* What the document of id says, and who is still at work on it.
NoticeOK(id) ==
    /\ inbox[id] = "none" => sends[id] = 0 /\ reached[id] = {}
    /\ inbox[id] = "pending" => ((\E n \in Notifiers : Owns(n, id)) \/ id \in lost)
    /\ inbox[id] \in {"sent", "partial"} => reached[id] # {}
    /\ inbox[id] \in {"muted", "no_device"} => sends[id] = 0
    /\ inbox[id] = "failed" => (reached[id] = {} \/ id \in lost)
    /\ inbox[id] = "muted" => id.type \notin CriticalTypes

NoticeInv ==
    /\ devices \in [People -> SUBSET Devices]
    /\ notifiers \in [Notifiers -> Calls]
    /\ inbox \in [NoticeIds -> Statuses]
    /\ sends \in [NoticeIds -> {0, 1}]
    /\ reached \in [NoticeIds -> SUBSET Devices]
    /\ \A n \in Notifiers : CallOK(n)
    /\ \A id \in NoticeIds : NoticeOK(id)

LEMMA CallSteps ==
    ASSUME NEW call \in Calls
    PROVE  /\ call.step \in {"rest", "create", "push", "prune", "record"}
           /\ call.step = "rest" <=> call = Resting
           /\ call.step # "rest" => call.id \in NoticeIds
           /\ call.step \in {"create", "push"} =>
                 call \in [step: {"create", "push"}, id: NoticeIds, tokens: SUBSET Devices, allowed: BOOLEAN]
           /\ call.step = "prune" =>
                 call \in [step: {"prune", "record"}, id: NoticeIds, stale: SUBSET Devices,
                           outcome: {"failed", "sent", "partial"}]
           /\ call.step \in {"prune", "record"} =>
                 call.outcome \in {"muted", "no_device", "failed", "sent", "partial"}
BY DEF Calls, Resting

LEMMA NoticesSay == NoticeInv => NoticesHold
<1> SUFFICES ASSUME NoticeInv, NEW id \in NoticeIds
             PROVE  /\ sends[id] <= 1
                    /\ inbox[id] = "pending" => AtWork(id) \/ id \in lost
                    /\ inbox[id] \in {"sent", "partial"} => reached[id] # {}
                    /\ inbox[id] \in {"muted", "no_device"} => sends[id] = 0
                    /\ inbox[id] = "failed" => reached[id] = {} \/ id \in lost
                    /\ inbox[id] = "muted" => id.type \notin CriticalTypes
  BY DEF NoticesHold
<1>1. NoticeOK(id) /\ sends[id] \in {0, 1}
  BY DEF NoticeInv
<1>2. ASSUME NEW n \in Notifiers, Owns(n, id) PROVE AtWork(id)
  <2>1. notifiers[n] # Resting
    BY <1>2 DEF Owns, Resting
  <2> QED
    BY <1>2, <2>1 DEF Owns, AtWork
<1> QED
  BY <1>1, <1>2 DEF NoticeOK

LEMMA NoticesStart == NoticesInit => NoticeInv
<1> SUFFICES ASSUME NoticesInit PROVE NoticeInv
  OBVIOUS
<1>1. \A n \in Notifiers : notifiers[n] = Resting
  BY DEF NoticesInit
<1>2. \A n \in Notifiers : CallOK(n)
  BY <1>1 DEF CallOK, Resting
<1>3. \A id \in NoticeIds : NoticeOK(id)
  BY DEF NoticeOK, NoticesInit
<1>4. notifiers \in [Notifiers -> Calls]
  BY DEF NoticesInit, Calls
<1> QED
  BY <1>2, <1>3, <1>4 DEF NoticeInv, NoticesInit, Statuses

LEMMA NoticesUndisturbed == NoticeInv /\ UNCHANGED noticeVars => NoticeInv'
<1> SUFFICES ASSUME NoticeInv, UNCHANGED noticeVars PROVE NoticeInv'
  OBVIOUS
<1>1. /\ devices' = devices /\ notifiers' = notifiers /\ inbox' = inbox /\ sends' = sends
      /\ reached' = reached /\ lost' = lost
  BY DEF noticeVars
<1> QED
  BY <1>1 DEF NoticeInv, CallOK, NoticeOK, Owns

\* Call n becomes call, and the documents and the history change for its id only.
CallMoves(n, call, id) ==
    /\ notifiers' = [notifiers EXCEPT ![n] = call]
    /\ call.step # "rest" => call.id = id
    /\ Owns(n, id) \/ inbox[id] = "none" \/ call.step \in {"rest", "create"}
    /\ notifiers[n].step \in {"push", "prune", "record"} => notifiers[n].id = id
    /\ devices' \in [People -> SUBSET Devices] /\ inbox' \in [NoticeIds -> Statuses]
    /\ sends' \in [NoticeIds -> {0, 1}] /\ reached' \in [NoticeIds -> SUBSET Devices]
    /\ \A i \in NoticeIds \ {id} :
          inbox'[i] = inbox[i] /\ sends'[i] = sends[i] /\ reached'[i] = reached[i]
    /\ \/ Owns(n, id) \/ inbox[id] = "none"
       \/ inbox'[id] = inbox[id] /\ sends'[id] = sends[id] /\ reached'[id] = reached[id]
    /\ lost \subseteq lost'
    /\ call.step = "create" => (call.allowed \/ call.id.type \notin CriticalTypes)
    /\ call.step \in {"push", "prune", "record"} => inbox'[id] = "pending"
    /\ call.step = "push" => sends'[id] = 0 /\ reached'[id] = {}
    /\ call.step \in {"prune", "record"} =>
          /\ call.outcome = "muted" => call.id.type \notin CriticalTypes
          /\ call.outcome \in {"muted", "no_device"} => sends'[call.id] = 0
          /\ call.outcome \in {"sent", "partial"} => reached'[call.id] # {}
          /\ call.outcome = "failed" => (reached'[call.id] = {} \/ call.id \in lost')
    /\ inbox'[id] = "none" => sends'[id] = 0 /\ reached'[id] = {}
    /\ inbox'[id] = "pending" /\ (Owns(n, id) \/ inbox[id] = "none") =>
          (call.step \in {"push", "prune", "record"} \/ id \in lost')
    /\ inbox'[id] \in {"sent", "partial"} => reached'[id] # {}
    /\ inbox'[id] \in {"muted", "no_device"} => sends'[id] = 0
    /\ inbox'[id] = "failed" => (reached'[id] = {} \/ id \in lost')
    /\ inbox'[id] = "muted" => id.type \notin CriticalTypes

LEMMA OneNoticeCall ==
    ASSUME NoticeInv, NEW n \in Notifiers, NEW call \in Calls, NEW id \in NoticeIds,
           CallMoves(n, call, id)
    PROVE  NoticeInv'
<1> USE DEF CallMoves
<1>1. notifiers \in [Notifiers -> Calls]
  BY DEF NoticeInv
<1>2. notifiers' \in [Notifiers -> Calls] /\ notifiers'[n] = call
  BY <1>1
<1>3. \A m \in Notifiers : m # n => notifiers'[m] = notifiers[m]
  BY <1>1
<1>4. \A m \in Notifiers : CallOK(m) /\ notifiers[m] \in Calls
  BY <1>1 DEF NoticeInv
<1>5. ASSUME NEW m \in Notifiers, m # n, notifiers[m].step \in {"push", "prune", "record"},
             notifiers[m].id = id
      PROVE  ~Owns(n, id) /\ inbox[id] = "pending"
  <2>1. Owns(m, id) /\ CallOK(m)
    BY <1>4, <1>5 DEF Owns
  <2> QED
    BY <1>5, <2>1 DEF CallOK, Owns
<1>6. ASSUME NEW m \in Notifiers PROVE CallOK(m)'
  <2>1. CASE m = n
    <3>1. ASSUME NEW l \in Notifiers, Owns(l, id)', l # n, call.step \in {"push", "prune", "record"} PROVE FALSE
      <4>1. Owns(l, id)
        BY <1>3, <3>1 DEF Owns
      <4>2. ~Owns(n, id) /\ inbox[id] = "pending"
        BY <1>5, <3>1, <4>1 DEF Owns
      <4> QED
        BY <3>1, <4>2
    <3> QED
      BY <1>2, <2>1, <3>1 DEF CallOK
  <2>2. CASE m # n
    <3> DEFINE i == notifiers[m].id
    <3>1. notifiers'[m] = notifiers[m] /\ CallOK(m) /\ notifiers[m] \in Calls
      BY <1>3, <1>4, <2>2
    <3>2. ASSUME NEW l \in Notifiers, Owns(l, i)', l # m, notifiers[m].step \in {"push", "prune", "record"} PROVE FALSE
      <4>1. CASE l # n
        BY <1>3, <3>1, <3>2, <4>1 DEF CallOK, Owns
      <4>2. CASE l = n
        <5>1. i = id /\ call.step \in {"push", "prune", "record"}
          BY <1>2, <3>2, <4>2 DEF Owns
        <5>2. ~Owns(n, id) /\ inbox[id] = "pending"
          BY <1>5, <2>2, <3>2, <5>1
        <5> QED
          BY <5>1, <5>2
      <4> QED
        BY <4>1, <4>2
    <3>3. ASSUME notifiers[m].step \in {"push", "prune", "record"}
          PROVE  inbox'[i] = inbox[i] /\ sends'[i] = sends[i] /\ reached'[i] = reached[i]
      <4>1. i \in NoticeIds
        BY <3>1, <3>3, CallSteps
      <4>2. CASE i = id
        <5>1. ~Owns(n, id) /\ inbox[id] = "pending"
          BY <1>5, <2>2, <3>3, <4>2
        <5> QED
          BY <4>2, <5>1
      <4> QED
        BY <4>1, <4>2
    <3> QED
      BY <3>1, <3>2, <3>3 DEF CallOK
  <2> QED
    BY <2>1, <2>2
<1>7. ASSUME NEW i \in NoticeIds PROVE NoticeOK(i)'
  <2>0. NoticeOK(i)
    BY DEF NoticeInv
  <2>1. CASE i # id
    <3>1. ASSUME NEW m \in Notifiers, Owns(m, i) PROVE Owns(m, i)'
      BY <1>3, <2>1, <3>1 DEF Owns
    <3>2. inbox'[i] = inbox[i] /\ sends'[i] = sends[i] /\ reached'[i] = reached[i]
      BY <2>1
    <3> QED
      BY <2>0, <3>1, <3>2 DEF NoticeOK
  <2>2. CASE i = id
    <3>1. ASSUME inbox'[id] = "pending" PROVE (\E m \in Notifiers : Owns(m, id)') \/ id \in lost'
      <4>1. CASE Owns(n, id) \/ inbox[id] = "none"
        BY <1>2, <3>1, <4>1 DEF Owns
      <4>2. CASE ~(Owns(n, id) \/ inbox[id] = "none")
        <5>1. inbox[id] = "pending"
          BY <3>1, <4>2
        <5>2. ASSUME NEW m \in Notifiers, Owns(m, id) PROVE Owns(m, id)'
          BY <1>3, <4>2, <5>2 DEF Owns
        <5> QED
          BY <2>0, <2>2, <5>1, <5>2 DEF NoticeOK
      <4> QED
        BY <4>1, <4>2
    <3> QED
      BY <2>2, <3>1 DEF NoticeOK
  <2> QED
    BY <2>1, <2>2
<1> QED
  BY <1>2, <1>6, <1>7 DEF NoticeInv

LEMMA NoticeAsked ==
    ASSUME NoticeInv, NEW n \in Notifiers, NEW u \in People, NEW type \in NoticeTypes,
           AskToNotify(n, u, type)
    PROVE  NoticeInv'
<1> DEFINE id == [to |-> u, type |-> type]
<1> DEFINE call == [step |-> "create", id |-> id, tokens |-> devices[u], allowed |-> PushAllowed(u, type)]
<1>1. /\ notifiers[n] = Resting /\ notifiers' = [notifiers EXCEPT ![n] = call]
      /\ devices' = devices /\ inbox' = inbox /\ sends' = sends /\ reached' = reached /\ lost' = lost
  BY DEF AskToNotify
<1>2. id \in NoticeIds /\ devices[u] \in SUBSET Devices /\ PushAllowed(u, type) \in BOOLEAN
  BY DEF NoticeIds, NoticeInv, PushAllowed
<1>3. call \in Calls /\ call.step = "create" /\ call.id = id
  BY <1>2 DEF Calls
<1>4. call.allowed \/ call.id.type \notin CriticalTypes
  BY DEF PushAllowed
<1>5. NoticeOK(id) /\ ~Owns(n, id)
  BY <1>1, <1>2 DEF NoticeInv, Owns, Resting
<1>6. /\ devices \in [People -> SUBSET Devices] /\ inbox \in [NoticeIds -> Statuses]
      /\ sends \in [NoticeIds -> {0, 1}] /\ reached \in [NoticeIds -> SUBSET Devices]
  BY DEF NoticeInv
<1> HIDE DEF id, call
<1>20. CallMoves(n, call, id)
  BY <1>1, <1>2, <1>3, <1>4, <1>5, <1>6 DEF NoticeOK, Resting, CallMoves
<1> QED
  BY <1>2, <1>3, <1>20, OneNoticeCall

LEMMA NoticeCreated ==
    ASSUME NoticeInv, NEW n \in Notifiers, CreateNotice(n)
    PROVE  NoticeInv'
<1> DEFINE old == notifiers[n]
<1> DEFINE id == old.id
<1>1. old \in Calls /\ old.step = "create" /\ id \in NoticeIds /\ CallOK(n) /\ NoticeOK(id)
  BY CallSteps DEF CreateNotice, NoticeInv
<1>2. old \in [step: {"create", "push"}, id: NoticeIds, tokens: SUBSET Devices, allowed: BOOLEAN]
  BY <1>1, CallSteps
<1>3. /\ devices' = devices /\ sends' = sends /\ reached' = reached /\ lost' = lost
  BY DEF CreateNotice
<1>4. /\ devices \in [People -> SUBSET Devices] /\ inbox \in [NoticeIds -> Statuses]
      /\ sends \in [NoticeIds -> {0, 1}] /\ reached \in [NoticeIds -> SUBSET Devices]
  BY DEF NoticeInv
<1>5. Resting \in Calls /\ Resting.step = "rest"
  BY DEF Calls, Resting
<1>6. ~Owns(n, id)
  BY <1>1 DEF Owns
<1>7. CASE inbox[id] # "none"
  <2>1. notifiers' = [notifiers EXCEPT ![n] = Resting] /\ inbox' = inbox
    BY <1>7 DEF CreateNotice, NotThereYet
  <2> HIDE DEF old, id
  <2>20. CallMoves(n, Resting, id)
    BY <1>1, <1>3, <1>4, <1>5, <1>6, <1>7, <2>1 DEF NoticeOK, old, CallMoves
  <2> QED
    BY <1>1, <1>5, <2>20, OneNoticeCall
<1>8. CASE inbox[id] = "none"
  <2> DEFINE call == IF old.allowed /\ old.tokens # {} THEN [old EXCEPT !.step = "push"]
                     ELSE [step |-> "record", id |-> id, outcome |-> Unsent(old)]
  <2>1. notifiers' = [notifiers EXCEPT ![n] = call] /\ inbox' = [inbox EXCEPT ![id] = "pending"]
    BY <1>8 DEF CreateNotice, NotThereYet
  <2>2. inbox' \in [NoticeIds -> Statuses] /\ inbox'[id] = "pending" /\ \A i \in NoticeIds \ {id} : inbox'[i] = inbox[i]
    BY <1>1, <1>4, <2>1 DEF Statuses
  <2>3. call \in Calls /\ call.id = id /\ call.step \in {"push", "record"}
    <3>1. CASE old.allowed /\ old.tokens # {}
      BY <1>2, <3>1 DEF Calls
    <3>2. CASE ~(old.allowed /\ old.tokens # {})
      <4>1. Unsent(old) \in {"muted", "no_device"}
        BY DEF Unsent
      <4> QED
        BY <1>1, <3>2, <4>1 DEF Calls
    <3> QED
      BY <3>1, <3>2
  <2>4. call.step = "record" =>
           /\ call.outcome = "muted" => id.type \notin CriticalTypes
           /\ call.outcome \in {"muted", "no_device"}
    <3>1. CASE old.allowed /\ old.tokens # {}
      BY <1>2, <3>1
    <3>2. CASE ~(old.allowed /\ old.tokens # {})
      <4>1. /\ Unsent(old) \in {"muted", "no_device"}
            /\ Unsent(old) = "muted" => ~old.allowed
        BY DEF Unsent
      <4> QED
        BY <1>1, <3>2, <4>1 DEF CallOK
    <3> QED
      BY <3>1, <3>2
  <2>5. sends[id] = 0 /\ reached[id] = {}
    BY <1>1, <1>8 DEF NoticeOK
  <2> HIDE DEF call, id, old
  <2>20. CallMoves(n, call, id)
    BY <1>1, <1>3, <1>4, <1>8, <2>1, <2>2, <2>3, <2>4, <2>5 DEF old, id, CallMoves
  <2> QED
    BY <1>1, <2>3, <2>20, OneNoticeCall
<1> QED
  BY <1>7, <1>8

LEMMA NoticePushed ==
    ASSUME NoticeInv, NEW n \in Notifiers, Push(n)
    PROVE  NoticeInv'
<1> DEFINE old == notifiers[n]
<1> DEFINE id == old.id
<1>1. old \in Calls /\ old.step = "push" /\ id \in NoticeIds /\ CallOK(n) /\ NoticeOK(id)
  BY CallSteps DEF Push, NoticeInv
<1>2. old \in [step: {"create", "push"}, id: NoticeIds, tokens: SUBSET Devices, allowed: BOOLEAN]
  BY <1>1, CallSteps
<1>3. /\ devices' = devices /\ inbox' = inbox /\ lost' = lost
  BY DEF Push
<1>4. /\ devices \in [People -> SUBSET Devices] /\ inbox \in [NoticeIds -> Statuses]
      /\ sends \in [NoticeIds -> {0, 1}] /\ reached \in [NoticeIds -> SUBSET Devices]
  BY DEF NoticeInv
<1>5. Owns(n, id) /\ inbox[id] = "pending" /\ sends[id] = 0 /\ reached[id] = {}
  BY <1>1 DEF Owns, CallOK
<1> DEFINE stale == old.tokens \cap gone
<1>6. PICK ok \in SUBSET (old.tokens \ gone), answered \in BOOLEAN :
         /\ sends' = [sends EXCEPT ![id] = @ + 1]
         /\ reached' = [reached EXCEPT ![id] = @ \cup ok]
         /\ notifiers' = [notifiers EXCEPT ![n] =
               [step |-> IF answered /\ stale # {} THEN "prune" ELSE "record",
                id |-> id, stale |-> stale,
                outcome |-> IF ok = {} THEN "failed"
                            ELSE IF ok = old.tokens THEN "sent" ELSE "partial"]]
  BY DEF Push
<1> DEFINE call == [step |-> IF answered /\ stale # {} THEN "prune" ELSE "record",
                    id |-> id, stale |-> stale,
                    outcome |-> IF ok = {} THEN "failed"
                                ELSE IF ok = old.tokens THEN "sent" ELSE "partial"]
<1>7. stale \in SUBSET Devices /\ ok \in SUBSET Devices
  BY <1>2
<1>8. call \in Calls /\ call.id = id /\ call.step \in {"prune", "record"}
  <2>1. call.step \in {"prune", "record"} /\ call.outcome \in {"failed", "sent", "partial"}
    OBVIOUS
  <2> QED
    BY <1>1, <1>7, <2>1 DEF Calls
<1>9. /\ call.outcome \in {"failed", "sent", "partial"}
      /\ call.outcome \in {"sent", "partial"} => ok # {}
      /\ call.outcome = "failed" => ok = {}
  OBVIOUS
<1>10. sends' \in [NoticeIds -> {0, 1}] /\ reached' \in [NoticeIds -> SUBSET Devices] /\ reached'[id] = ok
  BY <1>1, <1>4, <1>5, <1>6, <1>7
<1>11. \A i \in NoticeIds \ {id} : sends'[i] = sends[i] /\ reached'[i] = reached[i]
  BY <1>4, <1>6
<1>12. notifiers' = [notifiers EXCEPT ![n] = call]
  BY <1>6
<1> HIDE DEF call, id, old, stale
<1>20. CallMoves(n, call, id)
  BY <1>1, <1>3, <1>4, <1>5, <1>8, <1>9, <1>10, <1>11, <1>12 DEF old, id, CallMoves
<1> QED
  BY <1>1, <1>8, <1>20, OneNoticeCall

LEMMA NoticePruned ==
    ASSUME NoticeInv, NEW n \in Notifiers, PruneDevices(n) \/ FailToPrune(n)
    PROVE  NoticeInv'
<1> DEFINE old == notifiers[n]
<1> DEFINE id == old.id
<1> DEFINE call == IF PruneDevices(n) THEN [old EXCEPT !.step = "record"]
                   ELSE [old EXCEPT !.step = "record", !.outcome = "failed"]
<1>1. old \in Calls /\ old.step = "prune" /\ id \in NoticeIds /\ CallOK(n) /\ NoticeOK(id)
  BY CallSteps DEF PruneDevices, FailToPrune, NoticeInv
<1>2. old \in [step: {"prune", "record"}, id: NoticeIds, stale: SUBSET Devices,
               outcome: {"failed", "sent", "partial"}]
  BY <1>1, CallSteps
<1>3. inbox' = inbox /\ sends' = sends /\ reached' = reached
  BY DEF PruneDevices, FailToPrune
<1>4. /\ devices \in [People -> SUBSET Devices] /\ inbox \in [NoticeIds -> Statuses]
      /\ sends \in [NoticeIds -> {0, 1}] /\ reached \in [NoticeIds -> SUBSET Devices]
      /\ notifiers \in [Notifiers -> Calls]
  BY DEF NoticeInv
<1>5. Owns(n, id) /\ inbox[id] = "pending"
  BY <1>1 DEF Owns, CallOK
<1>6. devices' \in [People -> SUBSET Devices]
  <2>1. CASE PruneDevices(n)
    <3>1. devices' = [devices EXCEPT ![id.to] = @ \ old.stale]
      BY <2>1 DEF PruneDevices
    <3>2. id.to \in People
      BY <1>1 DEF NoticeIds
    <3> QED
      BY <1>4, <3>1, <3>2
  <2>2. CASE FailToPrune(n)
    BY <1>4, <2>2 DEF FailToPrune
  <2> QED
    BY <2>1, <2>2
<1>7. notifiers' = [notifiers EXCEPT ![n] = call] /\ lost \subseteq lost' /\ (PruneDevices(n) \/ id \in lost')
  <2>1. CASE PruneDevices(n)
    BY <2>1 DEF PruneDevices
  <2>2. CASE ~PruneDevices(n)
    <3>1. /\ notifiers' = [notifiers EXCEPT ![n].step = "record", ![n].outcome = "failed"]
          /\ lost' = lost \cup {id}
      BY <2>2 DEF FailToPrune
    <3>2. notifiers' = [notifiers EXCEPT ![n] = call]
      BY <1>4, <2>2, <3>1
    <3> QED
      BY <3>1, <3>2
  <2> QED
    BY <2>1, <2>2
<1>8. call \in Calls /\ call.id = id /\ call.step = "record" /\ call.outcome \in {"failed", "sent", "partial"}
  BY <1>2 DEF Calls
<1>9. /\ call.outcome \in {"sent", "partial"} => reached[id] # {}
      /\ call.outcome = "failed" => (reached[id] = {} \/ id \in lost')
  <2>1. /\ old.outcome \in {"sent", "partial"} => reached[id] # {}
        /\ old.outcome = "failed" => (reached[id] = {} \/ id \in lost)
    BY <1>1 DEF CallOK
  <2>2. CASE PruneDevices(n)
    <3>1. call.outcome = old.outcome
      BY <1>2, <2>2
    <3> QED
      BY <1>7, <2>1, <3>1
  <2>3. CASE ~PruneDevices(n)
    <3>1. call.outcome = "failed"
      BY <1>2, <2>3
    <3> QED
      BY <1>7, <2>3, <3>1
  <2> QED
    BY <2>2, <2>3
<1> HIDE DEF call, id, old
<1>20. CallMoves(n, call, id)
  BY <1>1, <1>3, <1>4, <1>5, <1>6, <1>7, <1>8, <1>9 DEF old, id, CallMoves
<1> QED
  BY <1>1, <1>8, <1>20, OneNoticeCall

LEMMA NoticeEnded ==
    ASSUME NoticeInv, NEW n \in Notifiers, RecordOutcome(n) \/ LoseCall(n)
    PROVE  NoticeInv'
<1> DEFINE old == notifiers[n]
<1> DEFINE id == old.id
<1>1. old \in Calls /\ old.step # "rest" /\ id \in NoticeIds /\ CallOK(n) /\ NoticeOK(id)
  <2>1. old \in Calls /\ CallOK(n)
    BY DEF NoticeInv
  <2>2. old.step # "rest"
    BY <2>1, CallSteps DEF RecordOutcome, LoseCall
  <2>3. id \in NoticeIds
    BY <2>1, <2>2, CallSteps
  <2> QED
    BY <2>1, <2>2, <2>3 DEF NoticeInv
<1>2. devices' = devices /\ sends' = sends /\ reached' = reached
  BY DEF RecordOutcome, LoseCall
<1>3. /\ devices \in [People -> SUBSET Devices] /\ inbox \in [NoticeIds -> Statuses]
      /\ sends \in [NoticeIds -> {0, 1}] /\ reached \in [NoticeIds -> SUBSET Devices]
  BY DEF NoticeInv
<1>4. Resting \in Calls /\ Resting.step = "rest"
  BY DEF Calls, Resting
<1>5. notifiers' = [notifiers EXCEPT ![n] = Resting]
  BY DEF RecordOutcome, LoseCall
<1>6. CASE RecordOutcome(n)
  <2>1. old.step = "record" /\ inbox' = [inbox EXCEPT ![id] = old.outcome] /\ lost' = lost
    BY <1>6 DEF RecordOutcome
  <2>2. Owns(n, id) /\ inbox[id] = "pending"
    BY <1>1, <2>1 DEF Owns, CallOK
  <2>3. old.outcome \in {"muted", "no_device", "failed", "sent", "partial"}
    BY <1>1, <2>1, CallSteps
  <2>4. inbox' \in [NoticeIds -> Statuses] /\ inbox'[id] = old.outcome /\ \A i \in NoticeIds \ {id} : inbox'[i] = inbox[i]
    BY <1>1, <1>3, <2>1, <2>3 DEF Statuses
  <2>5. /\ old.outcome = "muted" => id.type \notin CriticalTypes
        /\ old.outcome \in {"muted", "no_device"} => sends[id] = 0
        /\ old.outcome \in {"sent", "partial"} => reached[id] # {}
        /\ old.outcome = "failed" => (reached[id] = {} \/ id \in lost)
    BY <1>1, <2>1 DEF CallOK
  <2> HIDE DEF id, old
  <2>20. CallMoves(n, Resting, id)
    BY <1>1, <1>2, <1>3, <1>4, <1>5, <2>1, <2>2, <2>3, <2>4, <2>5 DEF id, old, CallMoves
  <2> QED
    BY <1>1, <1>4, <2>20, OneNoticeCall
<1>7. CASE LoseCall(n)
  <2>1. lost' = lost \cup {id} /\ inbox' = inbox
    BY <1>7 DEF LoseCall
  <2>2. /\ lost \subseteq lost' /\ id \in lost'
    BY <2>1
  <2>3. notifiers[n].step \in {"push", "prune", "record"} => notifiers[n].id = id
    OBVIOUS
  <2> HIDE DEF id, old
  <2>20. CallMoves(n, Resting, id)
    BY <1>1, <1>2, <1>3, <1>4, <1>5, <2>1, <2>2, <2>3 DEF NoticeOK, CallMoves
  <2> QED
    BY <1>1, <1>4, <2>20, OneNoticeCall
<1> QED
  BY <1>6, <1>7

\* Notices keep their invariant.
LEMMA NoticesKept == NoticeInv /\ NoticesStep => NoticeInv'
<1> SUFFICES ASSUME NoticeInv, NoticesStep PROVE NoticeInv'
  OBVIOUS
<1>1. \A told \in Notified : told[1] \in People /\ told[2] \in NoticeTypes
  BY NoticesAssumption
<1>2. CASE \E n \in Notifiers, told \in Notified : AskToNotify(n, told[1], told[2])
  BY <1>1, <1>2, NoticeAsked
<1>3. CASE \E n \in Notifiers : CreateNotice(n)
  BY <1>3, NoticeCreated
<1>4. CASE \E n \in Notifiers : Push(n)
  BY <1>4, NoticePushed
<1>5. CASE \E n \in Notifiers : PruneDevices(n) \/ FailToPrune(n)
  BY <1>5, NoticePruned
<1>6. CASE \E n \in Notifiers : RecordOutcome(n) \/ LoseCall(n)
  BY <1>6, NoticeEnded
<1>7. CASE \/ \E told \in Notified : \/ \E off \in BOOLEAN : UpdatePreferences(told[1], off)
                                     \/ \E d \in Devices : AddDevice(told[1], d)
           \/ \E d \in Devices : LoseDevice(d)
  <2>1. /\ notifiers' = notifiers /\ inbox' = inbox /\ sends' = sends /\ reached' = reached /\ lost' = lost
    BY <1>7 DEF UpdatePreferences, AddDevice, LoseDevice
  <2>2. devices' \in [People -> SUBSET Devices]
    <3>1. devices \in [People -> SUBSET Devices]
      BY DEF NoticeInv
    <3>2. CASE devices' = devices
      BY <3>1, <3>2
    <3>3. ASSUME NEW u \in People, NEW d \in Devices, AddDevice(u, d) PROVE devices' \in [People -> SUBSET Devices]
      BY <3>1, <3>3 DEF AddDevice
    <3> QED
      BY <1>1, <1>7, <3>2, <3>3 DEF UpdatePreferences, LoseDevice
  <2> QED
    BY <2>1, <2>2 DEF NoticeInv, CallOK, NoticeOK, Owns
<1> QED
  BY <1>2, <1>3, <1>4, <1>5, <1>6, <1>7 DEF NoticesStep

-----------------------------------------------------------------------------
(* The desks, side by side *)

\* What the desks rely on, one after the other.
DesksInv == SpendingInv /\ StockInv /\ PayInv /\ OwnershipInv

\* A step leaves alone the entries that are not of the types T.
Beside(T) ==
    /\ LedgerOK'
    /\ day' = day \/ NextDay
    /\ \A t : t \notin T \cup {"reversal"} => Spares(t)

SpendingTypes == {"expense_payment"}
StockTypes == {"inventory_purchase_payment"}

LEMMA DeskTypes ==
    /\ OwnershipTypes = {"share_capital_contribution", "dividend_payment"}
    /\ PayTypes = {"payroll_payment", "allowance_payment"}
    /\ SpendingTypes = {"expense_payment"}
    /\ StockTypes = {"inventory_purchase_payment"}
BY DEF OwnershipTypes, PayTypes, SpendingTypes, StockTypes

LEMMA SpendingBeside ==
    ASSUME LedgerOK, SpendingInv, UNCHANGED spendingVars, NEW T, Beside(T), T \cap SpendingTypes = {}
    PROVE  SpendingInv'
<1>1. Spares("expense_payment")
  BY DeskTypes DEF Beside
<1> QED
  BY <1>1, SpendingUndisturbed

LEMMA StockBeside ==
    ASSUME LedgerOK, StockInv, UNCHANGED stockVars, NEW T, Beside(T), T \cap StockTypes = {}
    PROVE  StockInv'
<1>1. Spares("inventory_purchase_payment")
  BY DeskTypes DEF Beside
<1> QED
  BY <1>1, StockUndisturbed

LEMMA PayBeside ==
    ASSUME LedgerOK, PayInv, UNCHANGED payVars, NEW T, Beside(T), T \cap PayTypes = {}
    PROVE  PayInv'
<1>1. Spares("allowance_payment") /\ Spares("payroll_payment")
  BY DeskTypes DEF Beside
<1> QED
  BY <1>1, PayUndisturbed

LEMMA OwnershipBeside ==
    ASSUME LedgerOK, OwnershipInv, UNCHANGED ownershipVars, NEW T, Beside(T), T \cap OwnershipTypes = {}
    PROVE  OwnershipInv'
<1>1. \A t \in OwnershipTypes : Spares(t)
  BY DeskTypes DEF Beside
<1>2. day' = day \/ NextDay
  BY DEF Beside
<1> QED
  BY <1>1, <1>2, OwnershipUndisturbed

\* No desk has a document in hand.
LEMMA DesksBeside ==
    ASSUME LedgerOK, DesksInv, UNCHANGED <<spendingVars, stockVars, payVars, ownershipVars>>,
           NEW T, Beside(T), T \cap (SpendingTypes \cup StockTypes \cup PayTypes \cup OwnershipTypes) = {}
    PROVE  DesksInv' /\ LedgerOK'
<1>1. /\ T \cap SpendingTypes = {} /\ T \cap StockTypes = {}
      /\ T \cap PayTypes = {} /\ T \cap OwnershipTypes = {}
  OBVIOUS
<1>2. UNCHANGED spendingVars /\ UNCHANGED stockVars /\ UNCHANGED payVars /\ UNCHANGED ownershipVars
  OBVIOUS
<1>3. SpendingInv'
  BY <1>1, <1>2, SpendingBeside DEF DesksInv
<1>4. StockInv'
  BY <1>1, <1>2, StockBeside DEF DesksInv
<1>5. PayInv'
  BY <1>1, <1>2, PayBeside DEF DesksInv
<1>6. OwnershipInv'
  BY <1>1, <1>2, OwnershipBeside DEF DesksInv
<1> QED
  BY <1>3, <1>4, <1>5, <1>6 DEF DesksInv, Beside

LEMMA NothingPosted ==
    ASSUME LedgerOK, UNCHANGED financeVars
    PROVE  Beside({})
<1>1. day' = day
  BY DEF financeVars
<1> QED
  BY <1>1, FinanceUnchanged DEF Beside

LEMMA BooksBeside ==
    ASSUME LedgerOK, NEW t, NEW d, NEW n, Books(t, d, n), day' = day
    PROVE  Beside({t})
<1>1. Turns({})
  BY DEF Books
<1>2. day' \in Days
  BY DEF LedgerOK
<1>3. LedgerOK'
  BY <1>1, <1>2, TurnsKeeps
<1>4. \A u : u # t => Spares(u)
  BY BooksSpares
<1> QED
  BY <1>3, <1>4 DEF Beside

LEMMA UnbooksBeside ==
    ASSUME LedgerOK, NEW i \in EntryNumbers, Unbooks({i}), day' = day
    PROVE  Beside({ledger[i].type})
<1>1. Turns({i})
  BY DEF Unbooks
<1>2. day' \in Days
  BY DEF LedgerOK
<1>3. LedgerOK'
  BY <1>1, <1>2, TurnsKeeps
<1>4. \A u : u # ledger[i].type /\ u # "reversal" => Spares(u)
  BY UnbooksSpares
<1> QED
  BY <1>3, <1>4 DEF Beside

\* Only NextDay moves the day.
LEMMA SpendingSameDay == SpendingStep => day' = day
BY DEF SpendingStep, CreateExpenseCategory, UpdateExpenseCategory, CreateExpense, CreateRecurringExpense,
       UpdateExpense, UpdateExpenseStatus, PayExpense, UpdateRecurringExpense, SweepRecurring,
       ReminderTimeComes, PayOut, PostFor, financeVars

LEMMA StockSameDay == StockStep => day' = day
BY DEF StockStep, CreateInventoryItem, UpdateInventoryItem, RecordStockMovement, AdjustStock,
       ReverseStockMovement, CreateSupplier, UpdateSupplier, CreatePurchase, ApprovePurchase,
       CancelPurchase, ReceivePurchase, ReceiveAndPay, PayPurchase, PayOut, PostFor, financeVars

LEMMA AllowanceSameDay == AllowanceStep => day' = day
BY DEF AllowanceStep, RecordAttendance, CorrectAttendance, ClockOut, VerifyAttendance, CalculateAllowance,
       ReviewAllowance, Decide, CancelAllowance, PayAllowances, ReverseAllowancePayment, PayOut, PostFor,
       ReverseEntry, financeVars

LEMMA PayrollSameDay == PayrollStep => day' = day
<1>1. ASSUME NEW r, NEW p, NEW a, PayPayroll(r, p, a) PROVE day' = day
  <2>1. PayOut(r, "payroll_payment", payrolls[p].total, a, p) \/ NothingToPay(r)
    BY <1>1 DEF PayPayroll
  <2> QED
    BY <2>1 DEF PayOut, PostFor, NothingToPay
<1>2. ASSUME NEW p, ReversePayrollPayment(p) PROVE day' = day
  <2>1. ReverseEntry(payrolls[p].txn) \/ UNCHANGED financeVars
    BY <1>2 DEF ReversePayrollPayment
  <2> QED
    BY <2>1 DEF ReverseEntry, financeVars
<1>3. PayrollStep => \/ day' = day
                     \/ \E p, r, a : PayPayroll(r, p, a)
                     \/ \E p : ReversePayrollPayment(p)
  BY DEF PayrollStep, CreatePayroll, PreparePayroll, CorrectPayroll, CancelPayroll, LockPayroll,
         UpdatePayrollStatus, Calculate, NotPayroll, financeVars
<1> QED
  BY <1>1, <1>2, <1>3

LEMMA LossSameDay == LossStep \/ DeductionStep \/ EarningStep \/ SalaryStep => day' = day
<1>1. LossStep => day' = day
  BY DEF LossStep, CreateLossIncident, ReviewLossIncident, RejectLossIncident, CancelLossIncident,
         ApproveLossIncident, ScheduleLossRecovery, CancelSalaryDeduction, NotLosses, financeVars
<1>2. DeductionStep => day' = day
  BY DEF DeductionStep, CreateSalaryDeduction, DecideSalaryDeduction, CancelSalaryDeduction, NotLosses,
         financeVars
<1>3. EarningStep => day' = day
  BY DEF EarningStep, AddPayrollEarning, RemovePayrollEarning, Calculate, NotPayroll, financeVars
<1>4. SalaryStep => day' = day
  BY DEF SalaryStep, SetSalaryProfile, financeVars
<1> QED
  BY <1>1, <1>2, <1>3, <1>4

\* The expenses desk moves, the others rest.
LEMMA SpendingMoves ==
    ASSUME LedgerOK, DesksInv, SpendingStep, UNCHANGED <<stockVars, payVars, ownershipVars>>
    PROVE  DesksInv' /\ LedgerOK'
<1>1. SpendingInv' /\ LedgerOK' /\ \A t : t # "expense_payment" => Spares(t)
  BY SpendingKept DEF DesksInv
<1>2. Beside(SpendingTypes)
  BY <1>1, SpendingSameDay DEF Beside, SpendingTypes
<1>3. /\ SpendingTypes \cap StockTypes = {} /\ SpendingTypes \cap PayTypes = {}
      /\ SpendingTypes \cap OwnershipTypes = {}
  BY DeskTypes
<1>4. UNCHANGED stockVars /\ UNCHANGED payVars /\ UNCHANGED ownershipVars
  OBVIOUS
<1>5. StockInv' /\ PayInv' /\ OwnershipInv'
  BY <1>2, <1>3, <1>4, StockBeside, PayBeside, OwnershipBeside DEF DesksInv
<1> QED
  BY <1>1, <1>5 DEF DesksInv

LEMMA StockMoves ==
    ASSUME LedgerOK, DesksInv, StockStep, UNCHANGED <<spendingVars, payVars, ownershipVars>>
    PROVE  DesksInv' /\ LedgerOK'
<1>1. StockInv' /\ LedgerOK' /\ \A t : t # PurchaseType => Spares(t)
  BY StockKept DEF DesksInv
<1>2. Beside(StockTypes)
  BY <1>1, StockSameDay DEF Beside, StockTypes, PurchaseType
<1>3. /\ StockTypes \cap SpendingTypes = {} /\ StockTypes \cap PayTypes = {}
      /\ StockTypes \cap OwnershipTypes = {}
  BY DeskTypes
<1>4. UNCHANGED spendingVars /\ UNCHANGED payVars /\ UNCHANGED ownershipVars
  OBVIOUS
<1>5. SpendingInv' /\ PayInv' /\ OwnershipInv'
  BY <1>2, <1>3, <1>4, SpendingBeside, PayBeside, OwnershipBeside DEF DesksInv
<1> QED
  BY <1>1, <1>5 DEF DesksInv

LEMMA HiringKept == ASSUME LedgerOK, PayInv, Hiring PROVE PayInv' /\ UNCHANGED financeVars
<1>1. PICK w \in Staff, basic \in Basics : SetSalaryProfile(w, TRUE, basic, HiredFor)
  BY DEF Hiring
<1>2. HiredFor \in Frequencies /\ TRUE \in BOOLEAN
  BY OfficeAssumption
<1> QED
  BY <1>1, <1>2, SalarySet

LEMMA PayMoves ==
    ASSUME LedgerOK, DesksInv, PayStep, UNCHANGED <<spendingVars, stockVars, ownershipVars>>
    PROVE  DesksInv' /\ LedgerOK'
<1>0. PayInv
  BY DEF DesksInv
<1>1. \/ Hiring
      \/ AllowanceStep /\ UNCHANGED lossVars
      \/ LossStep \/ DeductionStep \/ EarningStep \/ PayrollStep \/ SalaryStep
  BY DEF PayStep
<1>2. PayInv' /\ Beside(PayTypes)
  <2>1. CASE Hiring
    <3>1. PayInv' /\ Beside({})
      BY <1>0, <2>1, HiringKept, NothingPosted
    <3> QED
      BY <3>1 DEF Beside
  <2>2. CASE ~Hiring
    <3>1. \/ AllowanceStep /\ UNCHANGED lossVars
          \/ LossStep \/ DeductionStep \/ EarningStep \/ PayrollStep \/ SalaryStep
      BY <1>1, <2>2
    <3>2. /\ PayInv' /\ LedgerOK'
          /\ \A t : t \notin {"allowance_payment", "payroll_payment", "reversal"} => Spares(t)
      BY <1>0, <3>1, PayKept
    <3>3. day' = day
      BY <3>1, AllowanceSameDay, PayrollSameDay, LossSameDay
    <3> QED
      BY <3>2, <3>3 DEF Beside, PayTypes
  <2> QED
    BY <2>1, <2>2
<1>3. /\ PayTypes \cap SpendingTypes = {} /\ PayTypes \cap StockTypes = {}
      /\ PayTypes \cap OwnershipTypes = {}
  BY DeskTypes
<1>4. UNCHANGED spendingVars /\ UNCHANGED stockVars /\ UNCHANGED ownershipVars
  OBVIOUS
<1>5. SpendingInv' /\ StockInv' /\ OwnershipInv'
  BY <1>2, <1>3, <1>4, SpendingBeside, StockBeside, OwnershipBeside DEF DesksInv
<1> QED
  BY <1>2, <1>5 DEF DesksInv, Beside

LEMMA OwnershipSameDay ==
    ASSUME OwnershipInv,
           \/ SharesStep \/ CorrectionStep \/ ContributionStep
           \/ ClassStep \/ RegisterChange
           \/ \E h \in Holders : CreateShareholder(h)
           \/ DividendsStep \/ AmendStep,
           LedgerOK
    PROVE  day' = day
<1>0. SharesInv /\ DividendsInv
  BY DEF OwnershipInv
<1>1. CASE SharesStep \/ CorrectionStep \/ ContributionStep
  BY <1>1, SharesAlone
<1>2. CASE ClassStep \/ RegisterChange \/ \E h \in Holders : CreateShareholder(h)
  <2>1. RegisterMoves
    BY <1>0, <1>2, RegisterStep
  <2> QED
    BY <2>1 DEF RegisterMoves
<1>3. CASE DividendsStep \/ AmendStep
  <2>1. DividendsKept
    BY <1>0, <1>3, DividendsStepKept
  <2> QED
    BY <2>1 DEF DividendsKept
<1> QED
  BY <1>1, <1>2, <1>3

LEMMA OwnershipDeskMoves ==
    ASSUME LedgerOK, DesksInv,
           \/ SharesStep \/ CorrectionStep \/ ContributionStep
           \/ ClassStep \/ RegisterChange
           \/ \E h \in Holders : CreateShareholder(h)
           \/ DividendsStep \/ AmendStep,
           UNCHANGED <<spendingVars, stockVars, payVars>>
    PROVE  DesksInv' /\ LedgerOK'
<1>0. OwnershipInv
  BY DEF DesksInv
<1>1. OwnershipKept
  BY <1>0, SharesLeave, RegisterLeaves, DividendsLeave
<1>2. day' = day
  BY <1>0, OwnershipSameDay
<1>3. OwnershipInv' /\ Beside(OwnershipTypes)
  BY <1>1, <1>2 DEF OwnershipKept, Beside
<1>4. /\ OwnershipTypes \cap SpendingTypes = {} /\ OwnershipTypes \cap StockTypes = {}
      /\ OwnershipTypes \cap PayTypes = {}
  BY DeskTypes
<1>5. UNCHANGED spendingVars /\ UNCHANGED stockVars /\ UNCHANGED payVars
  OBVIOUS
<1>6. SpendingInv' /\ StockInv' /\ PayInv'
  BY <1>3, <1>4, <1>5, SpendingBeside, StockBeside, PayBeside DEF DesksInv
<1> QED
  BY <1>3, <1>6 DEF DesksInv, Beside

\* What the ownership desk of the office does, the files of shareholders aside.
LEMMA OwnershipStepCases ==
    OwnershipStep => \/ SharesStep \/ CorrectionStep \/ ContributionStep
                     \/ ClassStep \/ RegisterChange
                     \/ \E h \in Holders : CreateShareholder(h)
                     \/ DividendsStep \/ AmendStep
BY DEF OwnershipStep, Registration, RegisterShareholder

LEMMA RegistrationCreates ==
    ASSUME NEW phones, NEW ids, Registration(phones, ids)
    PROVE  \E h \in Holders : CreateShareholder(h)
BY DEF Registration, RegisterShareholder

LEMMA OpeningBeside == LedgerOK /\ OpenBusiness => Beside({"opening_balance"})
<1> SUFFICES ASSUME LedgerOK, OpenBusiness PROVE Beside({"opening_balance"})
  OBVIOUS
<1> DEFINE e == NewEntry("opening_balance", Capital, None, Cash)
<1>1. "opening_balance" \in PostingTypes /\ Capital \in Amount /\ Cash \in AccountIds
  BY OfficeAssumption DEF PostingTypes, AccountIds, Defaults
<1>2. e \in Entry
  BY <1>1, NewEntryType
<1>3. e.posted /\ e.type = "opening_balance"
  BY DEF NewEntry
<1>4. PICK accts : Commit(accts, ledger, e) /\ day' = day
  BY DEF OpenBusiness, RecordOpeningBalance
<1> HIDE DEF e
<1>5. Books(e.type, e.about, e.amount)
  BY <1>2, <1>3, <1>4, PostBooks
<1> QED
  BY <1>3, <1>4, <1>5, BooksBeside

LEMMA PaymentBeside == LedgerOK /\ Payments => Beside({"customer_payment"})
<1> SUFFICES ASSUME LedgerOK, Payments PROVE Beside({"customer_payment"})
  OBVIOUS
<1>1. PICK n \in Amounts, a \in AccountIds :
         Post(NewEntry("customer_payment", n, None, a)) /\ day' = day
  BY DEF Payments, PostCustomerPayment
<1> DEFINE e == NewEntry("customer_payment", n, None, a)
<1>2. "customer_payment" \in PostingTypes /\ n \in Amount
  BY BoundAssumption DEF PostingTypes
<1>3. e \in Entry
  BY <1>2, NewEntryType
<1>4. e.posted /\ e.type = "customer_payment"
  BY DEF NewEntry
<1>5. Commit(accounts, ledger, e)
  BY <1>1 DEF Post
<1> HIDE DEF e
<1>6. Books(e.type, e.about, e.amount)
  BY <1>3, <1>4, <1>5, PostBooks
<1> QED
  BY <1>1, <1>4, <1>6, BooksBeside

LEMMA PaymentReversalBeside ==
    ASSUME LedgerOK, NEW i \in EntryNumbers, ReverseCustomerPayment(i)
    PROVE  Beside({"customer_payment"})
<1>1. PostReversal(accounts, i) /\ ledger[i].type = "customer_payment" /\ day' = day
  BY DEF ReverseCustomerPayment
<1>2. Unbooks({i})
  BY <1>1, ReversalUnbooks
<1> QED
  BY <1>1, <1>2, UnbooksBeside

LEMMA DayBeside == LedgerOK /\ NextDay => Beside({})
<1> SUFFICES ASSUME LedgerOK, NextDay PROVE Beside({})
  OBVIOUS
<1>1. ledger' = ledger /\ day' \in Days
  BY BoundAssumption DEF NextDay, LedgerOK, Days
<1>2. LedgerOK' /\ \A t : Spares(t)
  BY <1>1, LedgerStays DEF LedgerOK
<1> QED
  BY <1>2 DEF Beside

\* reverseFinancialTransaction undoes what the expense or the purchase says.
LEMMA ReversalMoves ==
    ASSUME LedgerOK, DesksInv, NEW i \in EntryNumbers, ReverseSpending(i)
    PROVE  DesksInv' /\ LedgerOK'
<1>1. /\ ReverseTransaction(i)
      /\ expenses' = ExpensesAfterReversing(ledger[i])
      /\ purchases' = PurchasesAfterReversing(ledger[i])
      /\ UNCHANGED <<categories, recurring, dueKeys, dueNow>>
      /\ UNCHANGED <<items, movements, suppliers>>
      /\ UNCHANGED payVars /\ UNCHANGED ownershipVars
  BY DEF ReverseSpending
<1>2. Unbooks({i}) /\ ledger[i].type \notin ReversedElsewhere \cup {"reversal"}
  BY <1>1, TransactionUnbooks
<1>3. day' = day
  BY <1>1 DEF ReverseTransaction
<1>4. Beside({ledger[i].type})
  BY <1>2, <1>3, UnbooksBeside
<1>5. {ledger[i].type} \cap PayTypes = {} /\ {ledger[i].type} \cap OwnershipTypes = {}
  BY <1>2 DEF ReversedElsewhere
<1>6. PayInv' /\ OwnershipInv'
  BY <1>1, <1>4, <1>5, PayBeside, OwnershipBeside DEF DesksInv
<1>7. ledger[i].type # "reversal" /\ SpendingInv /\ StockInv
  BY <1>2 DEF DesksInv
<1>8. SpendingInv'
  BY <1>1, <1>2, <1>7, ExpensesReversed
<1>9. StockInv'
  BY <1>1, <1>2, <1>7, PurchasesReversed
<1> QED
  BY <1>4, <1>6, <1>8, <1>9 DEF DesksInv, Beside

\* The steps that move no document of a desk.
LEMMA BooksRest ==
    ASSUME LedgerOK, DesksInv, UNCHANGED <<spendingVars, stockVars, payVars, ownershipVars>>,
           \/ OpenBusiness \/ NextDay \/ Payments
           \/ \E i \in EntryNumbers : ReverseCustomerPayment(i)
           \/ UNCHANGED financeVars
    PROVE  DesksInv' /\ LedgerOK'
<1>1. PICK T : Beside(T) /\ T \subseteq {"opening_balance", "customer_payment"}
  <2>1. CASE OpenBusiness
    BY <2>1, OpeningBeside
  <2>2. CASE NextDay
    BY <2>2, DayBeside
  <2>3. CASE Payments
    BY <2>3, PaymentBeside
  <2>4. CASE \E i \in EntryNumbers : ReverseCustomerPayment(i)
    BY <2>4, PaymentReversalBeside
  <2>5. CASE UNCHANGED financeVars
    BY <2>5, NothingPosted
  <2> QED
    BY <2>1, <2>2, <2>3, <2>4, <2>5
<1>2. T \cap (SpendingTypes \cup StockTypes \cup PayTypes \cup OwnershipTypes) = {}
  BY <1>1, DeskTypes
<1> QED
  BY <1>1, <1>2, DesksBeside

LEMMA DesksNext == LedgerOK /\ DesksInv /\ [OfficeNext]_officeVars => DesksInv' /\ LedgerOK'
<1> SUFFICES ASSUME LedgerOK, DesksInv, [OfficeNext]_officeVars PROVE DesksInv' /\ LedgerOK'
  OBVIOUS
<1>1. CASE OpenBusiness
  <2>1. UNCHANGED <<spendingVars, stockVars, payVars, ownershipVars>>
    BY <1>1 DEF OpenBusiness
  <2> QED
    BY <1>1, <2>1, BooksRest
<1>2. CASE /\ RecordsStep \/ ("people" \in busy /\ PeopleStep)
           /\ UNCHANGED <<financeVars, spendingVars, stockVars, payVars, ownershipVars>>
  BY <1>2, BooksRest
<1>3. CASE /\ Registration(OwnerPhones, Identifications)
           /\ UNCHANGED <<spendingVars, stockVars, payVars>>
  BY <1>3, RegistrationCreates, OwnershipDeskMoves
<1>4. CASE \E i \in EntryNumbers : ReverseSpending(i)
  BY <1>4, ReversalMoves
<1>5. CASE SpendingStep /\ UNCHANGED <<stockVars, payVars, ownershipVars>>
  BY <1>5, SpendingMoves
<1>6. CASE StockStep /\ UNCHANGED <<spendingVars, payVars, ownershipVars>>
  BY <1>6, StockMoves
<1>7. CASE PayStep /\ UNCHANGED <<spendingVars, stockVars, ownershipVars>>
  BY <1>7, PayMoves
<1>8. CASE OwnershipStep /\ UNCHANGED <<spendingVars, stockVars, payVars>>
  BY <1>8, OwnershipStepCases, OwnershipDeskMoves
<1>9. CASE TakingsStep /\ UNCHANGED <<spendingVars, stockVars, payVars, ownershipVars>>
  <2>1. \/ Payments
        \/ \E i \in EntryNumbers : ReverseCustomerPayment(i)
        \/ UNCHANGED financeVars
    BY <1>9 DEF TakingsStep, ReportsStep, ReadSummaries, ReadPayments
  <2> QED
    BY <1>9, <2>1, BooksRest
<1>10. CASE NextBusinessDay
  <2>1. NextDay /\ UNCHANGED <<spendingVars, stockVars, payVars, ownershipVars>>
    BY <1>10 DEF NextBusinessDay
  <2> QED
    BY <2>1, BooksRest
<1>11. CASE UNCHANGED officeVars
  <2>1. UNCHANGED financeVars /\ UNCHANGED <<spendingVars, stockVars, payVars, ownershipVars>>
    BY <1>11 DEF officeVars
  <2> QED
    BY <2>1, BooksRest
<1> QED
  BY <1>1, <1>2, <1>3, <1>4, <1>5, <1>6, <1>7, <1>8, <1>9, <1>10, <1>11 DEF OfficeNext

\* Notices move at a desk of their own.
LEMMA NoticesNext == NoticeInv /\ [OfficeNext]_officeVars => NoticeInv'
<1> SUFFICES ASSUME NoticeInv, [OfficeNext]_officeVars PROVE NoticeInv'
  OBVIOUS
<1>1. NoticesStep \/ UNCHANGED noticeVars
  BY DEF OfficeNext, OpenBusiness, RecordsStep, ReverseSpending, OwnershipStep, NextBusinessDay,
         recordVars, officeVars
<1> QED
  BY <1>1, NoticesKept, NoticesUndisturbed

LEMMA DesksFirst == OfficeInit => LedgerOK /\ DesksInv /\ NoticeInv
<1> SUFFICES ASSUME OfficeInit PROVE LedgerOK /\ DesksInv /\ NoticeInv
  OBVIOUS
<1>1. /\ FinanceInit /\ SpendingInit /\ StockInit /\ PayInit /\ SharesInit /\ DividendsInit
      /\ NoticesInit
  BY DEF OfficeInit
<1>2. LedgerOK
  BY <1>1, BoundAssumption DEF FinanceInit, LedgerOK, Days
<1> QED
  BY <1>1, <1>2, SpendingStarts, StockStarts, PayStarts, OwnershipStarts, NoticesStart DEF DesksInv

\* The inductive invariant of the office: every desk's documents, with the entries that
\* paid for them, survive a step of every other desk in the ledger they share.
THEOREM DesksHold == OfficeSpec => [](LedgerOK /\ DesksInv)
<1>1. OfficeInit => LedgerOK /\ DesksInv
  BY DesksFirst
<1>2. (LedgerOK /\ DesksInv) /\ [OfficeNext]_officeVars => (LedgerOK /\ DesksInv)'
  BY DesksNext
<1> QED
  BY <1>1, <1>2, PTL DEF OfficeSpec

\* Documents and ledger never part: whichever desk moves, an expense, a purchase, a
\* payroll, an allowance, a contribution or a dividend says paid exactly while one
\* unreversed entry moved the amount it says.
THEOREM DocumentsNeverPart == OfficeSpec => []DocumentsMatchLedger
<1>1. LedgerOK /\ DesksInv => DocumentsMatchLedger
  BY SpendingSays, StockSays, PaySays, OwnershipSays DEF DesksInv, DocumentsMatchLedger, OfficeTypeOK
<1> QED
  BY <1>1, DesksHold, PTL

\* A due date is drafted once, a day's work is paid once, a receipt is booked once and
\* stock is what its movements add up to.
THEOREM NothingBookedTwice == OfficeSpec => []BookedOnce
<1>1. LedgerOK /\ DesksInv => BookedOnce
  BY SpendingSays, StockSays, PaySays DEF DesksInv, BookedOnce
<1> QED
  BY <1>1, DesksHold, PTL

\* What payrolls took for a loss or an advance is what the incident and the deduction
\* say was recovered.
THEOREM RecoveriesTold == OfficeSpec => []RecoveriesAddUp
<1>1. LedgerOK /\ DesksInv => RecoveriesAddUp
  BY PaySays DEF DesksInv
<1> QED
  BY <1>1, DesksHold, PTL

\* A holding is what the ownership ledger adds up to on any day.
THEOREM HoldingsTold == OfficeSpec => []HoldingsMatchHistory
<1>1. LedgerOK /\ DesksInv => HoldingsMatchHistory
  BY OwnershipSays DEF DesksInv
<1> QED
  BY <1>1, DesksHold, PTL

\* The allocations of a dividend stay the holdings of its record date.
THEOREM SnapshotsTold == OfficeSpec => []SnapshotHolds
<1>1. LedgerOK /\ DesksInv => SnapshotHolds
  BY OwnershipSays DEF DesksInv
<1> QED
  BY <1>1, DesksHold, PTL

\* A notice is pushed at most once, and its document says what became of the push.
THEOREM NoticesTold == OfficeSpec => []NoticesHold
<1>1. OfficeInit => NoticeInv
  BY DesksFirst
<1>2. NoticeInv /\ [OfficeNext]_officeVars => NoticeInv'
  BY NoticesNext
<1>3. NoticeInv => NoticesHold
  BY NoticesSay
<1> QED
  BY <1>1, <1>2, <1>3, PTL DEF OfficeSpec

-----------------------------------------------------------------------------
(* The files of shareholders *)

File == [phone: OwnerPhones \cup {Absent}, identification: Identifications \cup {Absent},
         uid: People \cup {Absent}]

\* The keys the files hold, by shareholder.
PhonesFiled == [h \in Holders |-> files[h].phone]
IdsFiled == [h \in Holders |-> KeyOfId(files[h].identification)]
SignInsFiled == [h \in Holders |-> files[h].uid]

KeysTyped ==
    /\ ownerPhoneKeys \in [OwnerPhones -> Holders \cup {Absent}]
    /\ idKeys \in [IdKeys -> Holders \cup {Absent}]
    /\ signInKeys \in [People -> Holders \cup {Absent}]

KeysAgree ==
    /\ Agree(ownerPhoneKeys, PhonesFiled, Holders)
    /\ Agree(idKeys, IdsFiled, Holders)
    /\ Agree(signInKeys, SignInsFiled, Holders)

FilesInv ==
    /\ files \in [Holders -> File]
    /\ KeysTyped /\ KeysAgree

\* A file is kept for a shareholder, and its sign-in is a user's.
FilesNamed ==
    \A h \in Holders :
        /\ shareholders[h] = "none" => files[h] = NoFile
        /\ files[h].uid # Absent => profiles[files[h].uid].exists

LEMMA AbsentIsNoKey ==
    /\ Absent \notin Holders /\ Absent \notin OwnerPhones /\ Absent \notin Identifications
    /\ Absent \notin IdKeys /\ Absent \notin People
BY OwnersAssumption

LEMMA KeyOfIdTyped ==
    ASSUME NEW id \in Identifications \cup {Absent}
    PROVE  KeyOfId(id) \in IdKeys \cup {Absent}
BY OwnersAssumption DEF KeyOfId

LEMMA KeysFiled ==
    ASSUME NEW kept \in [Holders -> File]
    PROVE  /\ [h \in Holders |-> kept[h].phone] \in [Holders -> OwnerPhones \cup {Absent}]
           /\ [h \in Holders |-> KeyOfId(kept[h].identification)] \in [Holders -> IdKeys \cup {Absent}]
           /\ [h \in Holders |-> kept[h].uid] \in [Holders -> People \cup {Absent}]
<1>1. \A h \in Holders : /\ kept[h].phone \in OwnerPhones \cup {Absent}
                         /\ kept[h].identification \in Identifications \cup {Absent}
                         /\ kept[h].uid \in People \cup {Absent}
  BY DEF File
<1>2. \A h \in Holders : KeyOfId(kept[h].identification) \in IdKeys \cup {Absent}
  BY <1>1, KeyOfIdTyped
<1> QED
  BY <1>1, <1>2

LEMMA FilesSay == FilesInv /\ FilesNamed => OwnersKnown
<1> SUFFICES ASSUME FilesInv, FilesNamed PROVE OwnersKnown
  OBVIOUS
<1>1. /\ DOMAIN ownerPhoneKeys = OwnerPhones /\ DOMAIN idKeys = IdKeys /\ DOMAIN signInKeys = People
  BY DEF FilesInv, KeysTyped
<1>2. \A h \in Holders : /\ PhonesFiled[h] = files[h].phone
                         /\ IdsFiled[h] = KeyOfId(files[h].identification)
                         /\ SignInsFiled[h] = files[h].uid
  BY DEF PhonesFiled, IdsFiled, SignInsFiled
<1>3. KeysAgree
  BY DEF FilesInv
<1> QED
  BY <1>1, <1>2, <1>3 DEF KeysAgree, Agree, OwnersKnown, FilesNamed

LEMMA FilesStart == OwnersInit => FilesInv /\ FilesNamed
<1> SUFFICES ASSUME OwnersInit PROVE FilesInv /\ FilesNamed
  OBVIOUS
<1>1. /\ files = [h \in Holders |-> NoFile]
      /\ ownerPhoneKeys = [p \in OwnerPhones |-> Absent]
      /\ idKeys = [k \in IdKeys |-> Absent]
      /\ signInKeys = [u \in People |-> Absent]
  BY DEF OwnersInit
<1>2. NoFile \in File /\ NoFile.phone = Absent /\ NoFile.identification = Absent /\ NoFile.uid = Absent
  BY DEF NoFile, File
<1>3. files \in [Holders -> File] /\ \A h \in Holders : files[h] = NoFile
  BY <1>1, <1>2
<1>4. KeysTyped
  BY <1>1 DEF KeysTyped
<1>5. \A h \in Holders : PhonesFiled[h] = Absent /\ IdsFiled[h] = Absent /\ SignInsFiled[h] = Absent
  BY <1>2, <1>3 DEF PhonesFiled, IdsFiled, SignInsFiled, KeyOfId
<1>6. KeysAgree
  BY <1>1, <1>5, AbsentIsNoKey DEF KeysAgree, Agree
<1> QED
  BY <1>2, <1>3, <1>4, <1>6 DEF FilesInv, FilesNamed

\* The phone number and the identification move with the file.
Refiled(h, phone, id) ==
    files' = [files EXCEPT ![h].phone = phone, ![h].identification = id]

LEMMA DetailsMove ==
    ASSUME FilesInv, NEW h \in Holders, NEW phone \in OwnerPhones \cup {Absent},
           NEW id \in Identifications \cup {Absent}, KeysMove(h, phone, id),
           Refiled(h, phone, id),
           signInKeys' = signInKeys
    PROVE  FilesInv' /\ (\A g \in Holders : files'[g].uid = files[g].uid)
           /\ \A g \in Holders \ {h} : files'[g] = files[g]
<1>1. files \in [Holders -> File] /\ files[h] \in File
  BY DEF FilesInv
<1>2. files' \in [Holders -> File]
  BY <1>1 DEF File, Refiled
<1>3. /\ files'[h].phone = phone /\ files'[h].identification = id
      /\ \A g \in Holders : files'[g].uid = files[g].uid
      /\ \A g \in Holders \ {h} : files'[g] = files[g]
  BY <1>1 DEF File, Refiled
<1>4. /\ ownerPhoneKeys' = Reserved(ownerPhoneKeys, files[h].phone, phone, h)
      /\ idKeys' = Reserved(idKeys, KeyOfId(files[h].identification), KeyOfId(id), h)
  BY DEF KeysMove
<1>17. phone # Absent => ownerPhoneKeys[phone] \in {Absent, h}
  BY DEF KeysMove, FreeForOwner
<1>18. KeyOfId(id) # Absent => idKeys[KeyOfId(id)] \in {Absent, h}
  BY DEF KeysMove, FreeForOwner
<1>5. /\ ownerPhoneKeys \in [OwnerPhones -> Holders \cup {Absent}]
      /\ idKeys \in [IdKeys -> Holders \cup {Absent}]
      /\ signInKeys \in [People -> Holders \cup {Absent}]
      /\ Agree(ownerPhoneKeys, PhonesFiled, Holders)
      /\ Agree(idKeys, IdsFiled, Holders)
      /\ Agree(signInKeys, SignInsFiled, Holders)
  BY DEF FilesInv, KeysTyped, KeysAgree
<1>6. /\ PhonesFiled \in [Holders -> OwnerPhones \cup {Absent}]
      /\ IdsFiled \in [Holders -> IdKeys \cup {Absent}]
  BY <1>1, KeysFiled DEF PhonesFiled, IdsFiled
<1>7. /\ PhonesFiled' \in [Holders -> OwnerPhones \cup {Absent}]
      /\ IdsFiled' \in [Holders -> IdKeys \cup {Absent}]
  BY <1>2, KeysFiled DEF PhonesFiled, IdsFiled
<1>8. /\ PhonesFiled[h] = files[h].phone /\ PhonesFiled'[h] = phone
      /\ \A g \in Holders \ {h} : PhonesFiled'[g] = PhonesFiled[g]
  BY <1>3 DEF PhonesFiled
<1>9. /\ IdsFiled[h] = KeyOfId(files[h].identification) /\ IdsFiled'[h] = KeyOfId(id)
      /\ \A g \in Holders \ {h} : IdsFiled'[g] = IdsFiled[g]
  BY <1>3 DEF IdsFiled
<1>10. SignInsFiled' = SignInsFiled
  BY <1>3 DEF SignInsFiled
<1>11. /\ Absent \notin OwnerPhones /\ Absent \notin Holders /\ Absent \notin IdKeys
       /\ KeyOfId(id) \in IdKeys \cup {Absent}
  BY AbsentIsNoKey, KeyOfIdTyped
<1>12. ownerPhoneKeys' = Reserved(ownerPhoneKeys, PhonesFiled[h], phone, h)
  BY <1>4, <1>8
<1>13. idKeys' = Reserved(idKeys, IdsFiled[h], KeyOfId(id), h)
  BY <1>4, <1>9
<1>14. /\ ownerPhoneKeys' \in [OwnerPhones -> Holders \cup {Absent}]
       /\ Agree(ownerPhoneKeys', PhonesFiled', Holders)
  <2>1. ownerPhoneKeys \in [OwnerPhones -> Holders \cup {Absent}] /\ Agree(ownerPhoneKeys, PhonesFiled, Holders)
    BY <1>5
  <2>2. PhonesFiled'[h] = phone /\ \A g \in Holders \ {h} : PhonesFiled'[g] = PhonesFiled[g]
    BY <1>8
  <2>3. Absent \notin OwnerPhones /\ Absent \notin Holders
    BY <1>11
  <2>4. PhonesFiled \in [Holders -> OwnerPhones \cup {Absent}]
    BY <1>6
  <2>5. PhonesFiled' \in [Holders -> OwnerPhones \cup {Absent}]
    BY <1>7
  <2> QED
    BY <1>12, <1>17, <2>1, <2>2, <2>3, <2>4, <2>5, KeyMoves
<1>15. idKeys' \in [IdKeys -> Holders \cup {Absent}] /\ Agree(idKeys', IdsFiled', Holders)
  <2> DEFINE key == KeyOfId(id)
  <2>1. idKeys \in [IdKeys -> Holders \cup {Absent}] /\ Agree(idKeys, IdsFiled, Holders)
    BY <1>5
  <2>2. IdsFiled'[h] = key /\ \A g \in Holders \ {h} : IdsFiled'[g] = IdsFiled[g]
    BY <1>9
  <2>3. Absent \notin IdKeys /\ Absent \notin Holders /\ key \in IdKeys \cup {Absent}
    BY <1>11
  <2>4. IdsFiled \in [Holders -> IdKeys \cup {Absent}]
    BY <1>6
  <2>5. IdsFiled' \in [Holders -> IdKeys \cup {Absent}]
    BY <1>7
  <2>6. idKeys' = Reserved(idKeys, IdsFiled[h], key, h) /\ (key # Absent => idKeys[key] \in {Absent, h})
    BY <1>13, <1>18
  <2> HIDE DEF key
  <2> QED
    BY <2>1, <2>2, <2>3, <2>4, <2>5, <2>6, KeyMoves
<1>16. signInKeys' \in [People -> Holders \cup {Absent}] /\ Agree(signInKeys', SignInsFiled', Holders)
  BY <1>5, <1>10
<1> QED
  BY <1>2, <1>3, <1>14, <1>15, <1>16 DEF FilesInv, KeysTyped, KeysAgree

LEMMA SignInMoves ==
    ASSUME FilesInv, NEW h \in Holders, NEW uid \in People \cup {Absent},
           FreeForOwner(signInKeys, uid, h),
           signInKeys' = Reserved(signInKeys, files[h].uid, uid, h),
           files' = [files EXCEPT ![h].uid = uid],
           ownerPhoneKeys' = ownerPhoneKeys, idKeys' = idKeys
    PROVE  FilesInv' /\ files'[h].uid = uid /\ \A g \in Holders \ {h} : files'[g] = files[g]
<1>1. files \in [Holders -> File] /\ files[h] \in File
  BY DEF FilesInv
<1>2. files' \in [Holders -> File]
  BY <1>1 DEF File
<1>3. /\ files'[h].uid = uid
      /\ \A g \in Holders : files'[g].phone = files[g].phone /\ files'[g].identification = files[g].identification
      /\ \A g \in Holders \ {h} : files'[g] = files[g]
  BY <1>1 DEF File
<1>4. uid # Absent => signInKeys[uid] \in {Absent, h}
  BY DEF FreeForOwner
<1>5. /\ ownerPhoneKeys \in [OwnerPhones -> Holders \cup {Absent}]
      /\ idKeys \in [IdKeys -> Holders \cup {Absent}]
      /\ signInKeys \in [People -> Holders \cup {Absent}]
      /\ Agree(ownerPhoneKeys, PhonesFiled, Holders)
      /\ Agree(idKeys, IdsFiled, Holders)
      /\ Agree(signInKeys, SignInsFiled, Holders)
  BY DEF FilesInv, KeysTyped, KeysAgree
<1>6. SignInsFiled \in [Holders -> People \cup {Absent}]
  BY <1>1, KeysFiled DEF SignInsFiled
<1>7. SignInsFiled' \in [Holders -> People \cup {Absent}]
  BY <1>2, KeysFiled DEF SignInsFiled
<1>8. /\ SignInsFiled[h] = files[h].uid /\ SignInsFiled'[h] = uid
      /\ \A g \in Holders \ {h} : SignInsFiled'[g] = SignInsFiled[g]
  BY <1>3 DEF SignInsFiled
<1>9. PhonesFiled' = PhonesFiled /\ IdsFiled' = IdsFiled
  BY <1>3 DEF PhonesFiled, IdsFiled
<1>10. Absent \notin Holders /\ Absent \notin People
  BY AbsentIsNoKey
<1>11. signInKeys' = Reserved(signInKeys, SignInsFiled[h], uid, h)
  BY <1>8
<1>12. signInKeys' \in [People -> Holders \cup {Absent}] /\ Agree(signInKeys', SignInsFiled', Holders)
  BY <1>4, <1>5, <1>6, <1>7, <1>8, <1>10, <1>11, KeyMoves
<1>13. Agree(ownerPhoneKeys', PhonesFiled', Holders) /\ Agree(idKeys', IdsFiled', Holders)
  BY <1>5, <1>9
<1>14. KeysTyped'
  BY <1>5, <1>12 DEF KeysTyped
<1> QED
  BY <1>2, <1>3, <1>12, <1>13, <1>14 DEF FilesInv, KeysAgree

\* A shareholder, once registered, stays one.
HoldersStay == \A h \in Holders : shareholders'[h] = "none" => shareholders[h] = "none"

LEMMA DeskHoldersStay ==
    ASSUME LedgerOK, OwnershipInv,
           \/ SharesStep \/ CorrectionStep \/ ContributionStep
           \/ ClassStep \/ RegisterChange
           \/ \E h \in Holders : CreateShareholder(h)
           \/ DividendsStep \/ AmendStep
    PROVE  HoldersStay
<1>0. SharesInv /\ DividendsInv
  BY DEF OwnershipInv
<1>1. CASE SharesStep \/ CorrectionStep \/ ContributionStep
  BY <1>1, SharesAlone DEF HoldersStay
<1>2. CASE ClassStep \/ RegisterChange \/ \E h \in Holders : CreateShareholder(h)
  <2>1. RegisterMoves
    BY <1>0, <1>2, RegisterStep
  <2> QED
    BY <2>1 DEF RegisterMoves, HoldersStay
<1>3. CASE DividendsStep \/ AmendStep
  <2>1. DividendsKept
    BY <1>0, <1>3, DividendsStepKept
  <2> QED
    BY <2>1 DEF DividendsKept, shareVars, HoldersStay
<1> QED
  BY <1>1, <1>2, <1>3

\* A profile, once made, stays.
ProfilesStay == \A u \in People : profiles[u].exists => profiles'[u].exists

LEMMA UsersProfilesStay == UsersTyped /\ [UsersNext]_userVars => ProfilesStay
<1> SUFFICES ASSUME UsersTyped, [UsersNext]_userVars PROVE ProfilesStay
  OBVIOUS
<1>1. SameStores => ProfilesStay
  BY DEF SameStores, ProfilesStay
<1>2. profiles' = profiles => ProfilesStay
  BY DEF ProfilesStay
<1>3. ASSUME NEW c \in Lanes, CreateProfile(c) PROVE ProfilesStay
  <2>1. ASSUME NEW u \in People, NEW p \in Profile, profiles' = [profiles EXCEPT ![u] = p], p.exists
        PROVE  ProfilesStay
    <3>1. \A v \in People : profiles'[v] = IF v = u THEN p ELSE profiles[v]
      BY <2>1 DEF UsersTyped
    <3> QED
      BY <2>1, <3>1 DEF ProfilesStay
  <2> QED
    BY <1>2, <1>3, <2>1, CreatedProfile
<1>4. ASSUME NEW c \in Lanes, RecordNumber(c) PROVE ProfilesStay
  BY <1>4, RecordFrame DEF ProfilesStay
<1>5. CASE IdentityStep
  BY <1>1, <1>2, <1>3, <1>4, <1>5, IdentityCases, SettingsFrame
<1>6. CASE AppointmentStep \/ AdministrationStep
  BY <1>1, <1>6, SettingsFrame, LinkFrame DEF AppointmentStep, AdministrationStep
<1>7. CASE PasswordStep \/ GrantStep
  BY <1>1, <1>7, PasswordFrame, GrantFrame
<1>8. CASE Tick \/ UNCHANGED userVars
  BY <1>2, <1>8 DEF Tick, userVars
<1> QED
  BY <1>5, <1>6, <1>7, <1>8 DEF UsersNext

\* The people of the office move as users do.
LEMMA PeopleMove == [OfficeNext]_officeVars => [UsersNext]_userVars
<1> SUFFICES ASSUME [OfficeNext]_officeVars PROVE UsersNext \/ UNCHANGED userVars
  OBVIOUS
<1>1. PeopleStep => UsersNext
  BY DEF PeopleStep, UsersNext, IdentityStep, AccountStep
<1>2. PeopleStep \/ UNCHANGED userVars
  BY DEF OfficeNext, OpenBusiness, RecordsStep, ReverseSpending, NextBusinessDay, officeVars
<1> QED
  BY <1>1, <1>2

LEMMA RegisteredFiles ==
    ASSUME FilesInv, FilesNamed, HoldersStay, ProfilesStay,
           shareholders \in [Holders -> {"none", "active", "inactive", "suspended", "exited"}],
           NEW phones, phones \subseteq OwnerPhones, NEW ids, ids \subseteq Identifications,
           Registration(phones, ids)
    PROVE  FilesInv' /\ FilesNamed'
<1>1. PICK h \in Holders, phone \in OwnerPhones \cup {Absent}, id \in Identifications \cup {Absent} :
         RegisterShareholder(h, phone, id)
  BY DEF Registration
<1>2. /\ KeysMove(h, phone, id) /\ Refiled(h, phone, id) /\ signInKeys' = signInKeys
      /\ CreateShareholder(h)
  BY <1>1 DEF RegisterShareholder, Refiled
<1>3. /\ FilesInv' /\ (\A g \in Holders : files'[g].uid = files[g].uid)
      /\ \A g \in Holders \ {h} : files'[g] = files[g]
  BY <1>2, DetailsMove
<1>4. shareholders'[h] = "active"
  BY <1>2 DEF CreateShareholder
<1>5. files \in [Holders -> File]
  BY DEF FilesInv
<1>6. \A g \in Holders : files[g].uid # Absent => files[g].uid \in People
  BY <1>5 DEF File
<1> QED
  BY <1>3, <1>4, <1>6 DEF FilesNamed, HoldersStay, ProfilesStay

LEMMA FilesMove ==
    ASSUME FilesInv, FilesNamed, FileStep, profiles' = profiles
    PROVE  FilesInv' /\ FilesNamed'
<1>1. ASSUME NEW h \in Holders, NEW phone \in OwnerPhones \cup {Absent},
             NEW id \in Identifications \cup {Absent}, UpdateShareholder(h, phone, id)
      PROVE  FilesInv' /\ FilesNamed'
  <2>1. /\ KeysMove(h, phone, id) /\ Refiled(h, phone, id) /\ signInKeys' = signInKeys
        /\ shareholders[h] # "none" /\ shareholders' = shareholders
    BY <1>1 DEF UpdateShareholder, Refiled, ownershipVars
  <2>2. /\ FilesInv' /\ (\A g \in Holders : files'[g].uid = files[g].uid)
        /\ \A g \in Holders \ {h} : files'[g] = files[g]
    BY <2>1, DetailsMove
  <2> QED
    BY <2>1, <2>2 DEF FilesNamed
<1>2. ASSUME NEW h \in Holders, NEW uid \in People \cup {Absent}, LinkShareholderAccount(h, uid)
      PROVE  FilesInv' /\ FilesNamed'
  <2>1. /\ shareholders[h] # "none" /\ shareholders' = shareholders
        /\ uid # Absent => profiles[uid].exists
        /\ FreeForOwner(signInKeys, uid, h)
        /\ signInKeys' = Reserved(signInKeys, files[h].uid, uid, h)
        /\ files' = [files EXCEPT ![h].uid = uid]
        /\ ownerPhoneKeys' = ownerPhoneKeys /\ idKeys' = idKeys
    BY <1>2 DEF LinkShareholderAccount, ownershipVars
  <2>2. FilesInv' /\ files'[h].uid = uid /\ \A g \in Holders \ {h} : files'[g] = files[g]
    BY <2>1, SignInMoves
  <2> QED
    BY <2>1, <2>2 DEF FilesNamed
<1> QED
  BY <1>1, <1>2 DEF FileStep

LEMMA FilesRest ==
    ASSUME FilesInv, FilesNamed, UNCHANGED fileVars, HoldersStay, ProfilesStay
    PROVE  FilesInv' /\ FilesNamed'
<1>1. /\ files' = files /\ ownerPhoneKeys' = ownerPhoneKeys /\ idKeys' = idKeys
      /\ signInKeys' = signInKeys
  BY DEF fileVars
<1>2. PhonesFiled' = PhonesFiled /\ IdsFiled' = IdsFiled /\ SignInsFiled' = SignInsFiled
  BY <1>1 DEF PhonesFiled, IdsFiled, SignInsFiled
<1>3. FilesInv'
  BY <1>1, <1>2 DEF FilesInv, KeysTyped, KeysAgree
<1>4. files \in [Holders -> File]
  BY DEF FilesInv
<1>5. \A h \in Holders : files[h].uid # Absent => files[h].uid \in People
  BY <1>4 DEF File
<1> QED
  BY <1>1, <1>3, <1>5 DEF FilesNamed, HoldersStay, ProfilesStay

\* What the office does to the register of shareholders.
LEMMA OfficeHoldersStay == LedgerOK /\ OwnershipInv /\ [OfficeNext]_officeVars => HoldersStay
<1> SUFFICES ASSUME LedgerOK, OwnershipInv, [OfficeNext]_officeVars PROVE HoldersStay
  OBVIOUS
<1>1. \/ UNCHANGED ownershipVars \/ OwnershipStep \/ Registration(OwnerPhones, Identifications)
  BY DEF OfficeNext, OpenBusiness, RecordsStep, FileStep, UpdateShareholder, LinkShareholderAccount,
         ReverseSpending, NextBusinessDay, officeVars
<1>2. CASE UNCHANGED ownershipVars
  BY <1>2 DEF ownershipVars, HoldersStay
<1>3. CASE OwnershipStep \/ Registration(OwnerPhones, Identifications)
  BY <1>3, OwnershipStepCases, RegistrationCreates, DeskHoldersStay
<1> QED
  BY <1>1, <1>2, <1>3

LEMMA FilesNext ==
    LedgerOK /\ DesksInv /\ UsersInv /\ FilesInv /\ FilesNamed /\ [OfficeNext]_officeVars
        => FilesInv' /\ FilesNamed'
<1> SUFFICES ASSUME LedgerOK, DesksInv, UsersInv, FilesInv, FilesNamed, [OfficeNext]_officeVars
             PROVE  FilesInv' /\ FilesNamed'
  OBVIOUS
<1>1. HoldersStay
  BY OfficeHoldersStay DEF DesksInv
<1>2. ProfilesStay
  BY PeopleMove, UsersProfilesStay DEF UsersInv
<1>3. shareholders \in [Holders -> {"none", "active", "inactive", "suspended", "exited"}]
  BY OwnershipSays DEF DesksInv, SharesTypeOK
<1>4. \/ UNCHANGED fileVars
      \/ FileStep /\ UNCHANGED userVars
      \/ Registration({}, {}) \/ Registration(OwnerPhones, Identifications)
  BY DEF OfficeNext, OpenBusiness, RecordsStep, OwnershipStep, ReverseSpending, NextBusinessDay,
         recordVars, officeVars
<1>5. CASE UNCHANGED fileVars
  BY <1>1, <1>2, <1>5, FilesRest
<1>6. CASE FileStep /\ UNCHANGED userVars
  <2>1. profiles' = profiles
    BY <1>6 DEF userVars
  <2> QED
    BY <1>6, <2>1, FilesMove
<1>7. CASE Registration({}, {})
  BY <1>1, <1>2, <1>3, <1>7, RegisteredFiles
<1>8. CASE Registration(OwnerPhones, Identifications)
  BY <1>1, <1>2, <1>3, <1>8, RegisteredFiles
<1> QED
  BY <1>4, <1>5, <1>6, <1>7, <1>8

\* Who may do what stays in order beside the desks.
LEMMA OfficePeople == OfficeSpec => []UsersInv
<1>1. OfficeInit => UsersInv
  BY InvAtFirst, UsersAssumption DEF OfficeInit
<1>2. UsersInv /\ [OfficeNext]_officeVars => UsersInv'
  BY PeopleMove, InvNext, UsersAssumption
<1> QED
  BY <1>1, <1>2, PTL DEF OfficeSpec

LEMMA OfficeFiles == OfficeSpec => [](FilesInv /\ FilesNamed)
<1>1. OfficeInit => FilesInv /\ FilesNamed
  BY FilesStart DEF OfficeInit
<1>2. (LedgerOK /\ DesksInv) /\ UsersInv /\ (FilesInv /\ FilesNamed) /\ [OfficeNext]_officeVars
         => (FilesInv /\ FilesNamed)'
  BY FilesNext
<1> QED
  BY <1>1, <1>2, DesksHold, OfficePeople, PTL DEF OfficeSpec

\* Who owned what on a day is one story, told by the ownership ledger, the holdings and
\* every dividend that stands; and no phone number, identification or sign-in is in the
\* files of two shareholders.
THEOREM OwnershipIsOneStory == OfficeSpec => []OwnershipHistoryHolds
<1>1. (LedgerOK /\ DesksInv) /\ (FilesInv /\ FilesNamed) => OwnershipHistoryHolds
  BY OwnershipSays, FilesSay DEF DesksInv, OwnershipHistoryHolds
<1> QED
  BY <1>1, DesksHold, OfficeFiles, PTL

\* The desks leave what people may do as it was: whatever they post, the links of staff,
\* the grants and the stores of identities stay in order.
THEOREM OfficeAccess == OfficeSpec => []AccessInOrder
<1>1. UsersInv => AccessInOrder
  BY InvOrders, UsersAssumption
<1> QED
  BY <1>1, OfficePeople, PTL

-----------------------------------------------------------------------------
(* What a batch of entries adds to the summary of its day: a fold, reached as *)
(* sums are (Iterates).                                                       *)

\* g is the recursive function of sets of positions that the fold defines.
Summing(b, es, S, g) ==
    g = [s \in SUBSET S |-> IF s = {} THEN b ELSE Summarised(g[s \ {Max(s)}], es[Max(s)])]

LEMMA MaxOf == ASSUME NEW n \in Nat, NEW s \in SUBSET (1..n), s # {} PROVE Max(s) \in s
<1> DEFINE Good == {T \in SUBSET s : T = {} \/ \E m \in T : \A y \in T : m >= y}
<1>1. IsFiniteSet(s)
  <2>1. IsFiniteSet(1..n)
    BY FS_Interval
  <2> QED
    BY <2>1, FS_Subset
<1>2. {} \in Good
  OBVIOUS
<1>3. ASSUME NEW T \in SUBSET s, NEW x \in s, T \in Good, x \notin T
      PROVE  T \cup {x} \in Good
  <2>1. \A y \in s : y \in Int
    OBVIOUS
  <2>2. T \cup {x} \in SUBSET s
    OBVIOUS
  <2>3. CASE T = {}
    BY <2>1, <2>2, <2>3
  <2>4. CASE T # {}
    <3>1. PICK m \in T : \A y \in T : m >= y
      BY <1>3, <2>4
    <3>2. CASE m >= x
      BY <2>2, <3>1, <3>2
    <3>3. CASE ~(m >= x)
      <4>1. \A y \in T \cup {x} : x >= y
        BY <2>1, <3>1, <3>3
      <4> QED
        BY <2>2, <4>1
    <3> QED
      BY <3>2, <3>3
  <2> QED
    BY <2>3, <2>4
<1> HIDE DEF Good
<1>4. s \in Good
  BY <1>1, <1>2, <1>3, FiniteInduction
<1>5. \E m \in s : \A y \in s : m >= y
  BY <1>4 DEF Good
<1> QED
  BY <1>5 DEF Max

HasLargest(S) == IsFiniteSet(S) /\ \A s \in SUBSET S : s # {} => Max(s) \in s

LEMMA IntervalLargest == ASSUME NEW n \in Nat PROVE HasLargest(1..n)
<1>1. IsFiniteSet(1..n)
  BY FS_Interval
<1>2. ASSUME NEW s \in SUBSET (1..n), s # {} PROVE Max(s) \in s
  BY <1>2, MaxOf
<1> QED
  BY <1>1, <1>2 DEF HasLargest

\* Two such functions agree.
LEMMA SummingAgree ==
    ASSUME NEW S, HasLargest(S), NEW T \in SUBSET S, NEW U \in SUBSET S, NEW b, NEW es,
           NEW g, NEW h, Summing(b, es, T, g), Summing(b, es, U, h),
           NEW r \in SUBSET T, r \in SUBSET U
    PROVE  g[r] = h[r]
<1> DEFINE C == {s \in SUBSET S : s \subseteq T /\ s \subseteq U /\ g[s] # h[s]}
<1>0. IsFiniteSet(S) /\ \A s \in SUBSET S : s # {} => Max(s) \in s
  BY DEF HasLargest
<1>1. ASSUME C # {} PROVE FALSE
  <2>1. PICK s \in C : \A t \in C : t \subseteq s => t = s
    <3>1. C \subseteq SUBSET S
      OBVIOUS
    <3> HIDE DEF C
    <3> QED
      BY <1>0, <1>1, <3>1, SmallestSubset
  <2>2. s \in SUBSET T /\ s \in SUBSET U /\ s \in SUBSET S /\ g[s] # h[s]
    BY <2>1
  <2>3. g[s] = IF s = {} THEN b ELSE Summarised(g[s \ {Max(s)}], es[Max(s)])
    BY <2>2 DEF Summing
  <2>4. h[s] = IF s = {} THEN b ELSE Summarised(h[s \ {Max(s)}], es[Max(s)])
    BY <2>2 DEF Summing
  <2>5. s # {}
    BY <2>2, <2>3, <2>4
  <2>6. Max(s) \in s
    BY <1>0, <2>2, <2>5
  <2>7. s \ {Max(s)} \notin C
    BY <2>1, <2>6
  <2>8. g[s \ {Max(s)}] = h[s \ {Max(s)}]
    BY <2>2, <2>7
  <2> QED
    BY <2>2, <2>3, <2>4, <2>5, <2>8
<1>2. r \in SUBSET S
  OBVIOUS
<1> QED
  BY <1>1, <1>2

LEMMA SummingExists ==
    ASSUME NEW n \in Nat, NEW b, NEW es
    PROVE  \E g : Summing(b, es, 1..n, g)
<1> DEFINE S == 1..n
           C == {T \in SUBSET S : ~\E g : Summing(b, es, T, g)}
<1>0. HasLargest(S) /\ IsFiniteSet(S) /\ \A s \in SUBSET S : s # {} => Max(s) \in s
  BY IntervalLargest DEF HasLargest
<1> HIDE DEF S
<1>1. ASSUME C # {} PROVE FALSE
  <2>1. PICK T \in C : \A U \in C : U \subseteq T => U = T
    <3>1. C \subseteq SUBSET S
      OBVIOUS
    <3> HIDE DEF C
    <3> QED
      BY <1>0, <1>1, <3>1, SmallestSubset
  <2>2. T \in SUBSET S /\ ~\E g : Summing(b, es, T, g)
    BY <2>1
  <2> DEFINE k(U) == CHOOSE g : Summing(b, es, U, g)
             h == [s \in SUBSET T |->
                     IF s # T THEN k(s)[s]
                     ELSE IF T = {} THEN b
                     ELSE Summarised(k(T \ {Max(T)})[T \ {Max(T)}], es[Max(T)])]
  <2>3. ASSUME NEW U \in SUBSET T, U # T PROVE Summing(b, es, U, k(U))
    <3>1. U \in SUBSET S /\ U \notin C
      BY <2>1, <2>2, <2>3
    <3> QED
      BY <3>1
  <2> HIDE DEF k
  <2>4. ASSUME NEW s \in SUBSET T
        PROVE  h[s] = IF s = {} THEN b ELSE Summarised(h[s \ {Max(s)}], es[Max(s)])
    <3>1. s # {} => Max(s) \in s
      BY <1>0, <2>2
    <3> DEFINE t == s \ {Max(s)}
    <3>2. CASE s # T
      <4>1. h[s] = k(s)[s]
        BY <3>2
      <4>2. Summing(b, es, s, k(s))
        BY <2>3, <3>2
      <4>3. k(s)[s] = IF s = {} THEN b ELSE Summarised(k(s)[t], es[Max(s)])
        <5>1. s \in SUBSET s
          OBVIOUS
        <5> QED
          BY <4>2, <5>1 DEF Summing
      <4>4. t \in SUBSET T /\ t # T
        BY <3>2
      <4>5. h[t] = k(t)[t] /\ Summing(b, es, t, k(t))
        BY <2>3, <4>4
      <4>6. k(s)[t] = k(t)[t]
        <5>1. s \in SUBSET S /\ t \in SUBSET S /\ t \in SUBSET s /\ t \in SUBSET t
          BY <2>2
        <5> HIDE DEF t
        <5> QED
          BY <1>0, <4>2, <4>5, <5>1, SummingAgree
      <4> HIDE DEF h
      <4> QED
        BY <4>1, <4>3, <4>5, <4>6
    <3>3. CASE s = T /\ s # {}
      <4>1. t \in SUBSET T /\ t # T
        BY <3>1, <3>3
      <4>2. h[t] = k(t)[t]
        BY <4>1
      <4>3. h[s] = Summarised(k(t)[t], es[Max(s)])
        BY <3>3
      <4> HIDE DEF h
      <4> QED
        BY <3>3, <4>2, <4>3
    <3>4. CASE s = T /\ s = {}
      BY <3>4
    <3> QED
      BY <3>2, <3>3, <3>4
  <2>5. Summing(b, es, T, h)
    <3>1. h = [s \in SUBSET T |-> h[s]]
      OBVIOUS
    <3> HIDE DEF h
    <3>2. [s \in SUBSET T |-> h[s]]
            = [s \in SUBSET T |-> IF s = {} THEN b ELSE Summarised(h[s \ {Max(s)}], es[Max(s)])]
      BY <2>4
    <3> QED
      BY <3>1, <3>2 DEF Summing
  <2> QED
    BY <2>2, <2>5
<1>2. S \in SUBSET S
  OBVIOUS
<1> QED
  BY <1>1, <1>2 DEF S

\* The fold is what that function says of all positions.
LEMMA FoldIs ==
    ASSUME NEW n \in Nat, NEW b, NEW es, DOMAIN es = 1..n
    PROVE  \E g : Summing(b, es, 1..n, g) /\ FoldLeft(Summarised, b, es) = g[1..n]
<1> DEFINE P(g) ==
        g = [s \in SUBSET DOMAIN es |->
                IF s = {} THEN b
                ELSE LET x == Max(s) IN Summarised(g[s \ {x}], es[x])]
<1>1. FoldLeft(Summarised, b, es) = (CHOOSE g : P(g))[DOMAIN es]
  BY DEF FoldLeft, MapThenFoldSet
<1>2. ASSUME NEW g PROVE P(g) <=> Summing(b, es, 1..n, g)
  BY DEF Summing
<1> HIDE DEF P
<1>3. \E g : P(g)
  BY <1>2, SummingExists
<1>4. P(CHOOSE g : P(g))
  BY <1>3
<1> QED
  BY <1>1, <1>2, <1>4

\* Summary t says of customers' payments what s says.
Aside(s, t) ==
    /\ t \in Summary
    /\ t.payments = s.payments
    /\ t.paymentReversals = s.paymentReversals

LEMMA SummarisedAside ==
    ASSUME NEW s \in Summary, NEW e \in Entry, AboutType(e) # "customer_payment"
    PROVE  Aside(s, Summarised(s, e))
<1>1. Summarised(s, e) \in Summary
  BY SummarisedType
<1>2. e.type # "customer_payment" /\ ~(e.type = "reversal" /\ e.reversalOfType = "customer_payment")
  BY DEF AboutType
<1>3. Summarised(s, e).payments = s.payments
  BY <1>2 DEF Summarised, Summary
<1>4. Summarised(s, e).paymentReversals = s.paymentReversals
  BY <1>2 DEF Summarised, Summary
<1> QED
  BY <1>1, <1>3, <1>4 DEF Aside

LEMMA BatchAside ==
    ASSUME NEW n \in Nat, NEW b \in Summary, NEW es, DOMAIN es = 1..n,
           \A i \in 1..n : es[i] \in Entry /\ AboutType(es[i]) # "customer_payment"
    PROVE  Aside(b, FoldLeft(Summarised, b, es))
<1> DEFINE S == 1..n
<1>1. PICK g : Summing(b, es, S, g) /\ FoldLeft(Summarised, b, es) = g[S]
  BY FoldIs
<1>2. /\ IsFiniteSet(S) /\ \A s \in SUBSET S : s # {} => Max(s) \in s
      /\ \A i \in S : es[i] \in Entry /\ AboutType(es[i]) # "customer_payment"
  BY IntervalLargest DEF HasLargest
<1> HIDE DEF S
<1> DEFINE C == {s \in SUBSET S : ~Aside(b, g[s])}
<1>3. ASSUME C # {} PROVE FALSE
  <2>1. PICK s \in C : \A t \in C : t \subseteq s => t = s
    <3>1. C \subseteq SUBSET S
      OBVIOUS
    <3> HIDE DEF C
    <3> QED
      BY <1>2, <1>3, <3>1, SmallestSubset
  <2>2. s \in SUBSET S /\ ~Aside(b, g[s])
    BY <2>1
  <2>3. g[s] = IF s = {} THEN b ELSE Summarised(g[s \ {Max(s)}], es[Max(s)])
    BY <1>1, <2>2 DEF Summing
  <2>4. s # {}
    BY <2>2, <2>3 DEF Aside
  <2> DEFINE x == Max(s)
             t == s \ {x}
  <2>5. x \in s /\ t \in SUBSET S /\ t # s /\ t \subseteq s
    BY <1>2, <2>2, <2>4
  <2>6. g[s] = Summarised(g[t], es[x])
    BY <2>3, <2>4
  <2> HIDE DEF x, t
  <2>7. Aside(b, g[t])
    BY <2>1, <2>5
  <2>8. es[x] \in Entry /\ AboutType(es[x]) # "customer_payment"
    BY <1>2, <2>2, <2>5
  <2>9. Aside(g[t], g[s])
    <3>1. g[t] \in Summary
      BY <2>7 DEF Aside
    <3> QED
      BY <2>6, <2>8, <3>1, SummarisedAside
  <2> QED
    BY <2>2, <2>7, <2>9 DEF Aside
<1>4. S \in SUBSET S
  OBVIOUS
<1> QED
  BY <1>1, <1>3, <1>4

-----------------------------------------------------------------------------
(* What a step does to customers' payments *)

\* Entries in S are marked reversed; nothing a report reads of the others changes.
Keeps(S) ==
    /\ Turns(S)
    /\ \A j \in EntryNumbers : /\ ledger'[j].day = ledger[j].day
                               /\ ledger'[j].reversalOf = ledger[j].reversalOf
                               /\ ledger'[j].reversalOfType = ledger[j].reversalOfType

\* Today's summary counts p more in payments and r more in their reversals.
SummaryAdds(p, r) ==
    /\ daily' \in [Days -> Summary]
    /\ \A d \in Days :
          /\ daily'[d].payments = daily[d].payments + IF d = day THEN p ELSE 0
          /\ daily'[d].paymentReversals = daily[d].paymentReversals + IF d = day THEN r ELSE 0

\* Entry j, which is new, reverses entry i.
Mirrors(j, i) ==
    /\ ledger'[j].type = "reversal" /\ ledger'[j].reversalOf = i
    /\ ledger'[j].reversalOfType = ledger[i].type
    /\ ledger'[j].amount = ledger[i].amount /\ ledger'[j].day = day

\* No payment of a customer is posted or reversed.
Apart ==
    /\ SummaryAdds(0, 0)
    /\ \E S : /\ Keeps(S) /\ \A i \in S : ledger[i].type # "customer_payment"
              /\ \A j \in Added : \/ ledger'[j].type \notin {"customer_payment", "reversal"}
                                  \/ \E i \in S : Mirrors(j, i)

\* A customer pays n.
CustomerPays(n) ==
    /\ SummaryAdds(n, 0) /\ Keeps({}) /\ Added = {Len(ledger) + 1}
    /\ ledger'[Len(ledger) + 1].type = "customer_payment"
    /\ ledger'[Len(ledger) + 1].amount = n /\ ledger'[Len(ledger) + 1].day = day
    /\ ledger'[Len(ledger) + 1].posted

\* Payment i is reversed.
Returns(i) ==
    /\ i \in EntryNumbers /\ ledger[i].type = "customer_payment" /\ ledger[i].posted
    /\ SummaryAdds(0, ledger[i].amount) /\ Keeps({i}) /\ Added = {Len(ledger) + 1}
    /\ Mirrors(Len(ledger) + 1, i)

SummariesOK == daily \in [Days -> Summary]

LEMMA DatedFields ==
    ASSUME LedgerOK, NEW e \in Entry
    PROVE  LET f == [e EXCEPT !.day = day]
           IN  /\ f \in Entry /\ f.day = day
               /\ f.type = e.type /\ f.amount = e.amount /\ f.posted = e.posted
               /\ f.reversalOf = e.reversalOf /\ f.reversalOfType = e.reversalOfType
BY DatedEntry DEF Entry

LEMMA MarkedFields ==
    ASSUME NEW e \in Entry, NEW n \in Nat
    PROVE  LET f == MarkReversed(e, n)
           IN  /\ f \in Entry /\ f.day = e.day /\ f.type = e.type /\ f.amount = e.amount /\ ~f.posted
               /\ f.about = e.about
               /\ f.reversalOf = e.reversalOf /\ f.reversalOfType = e.reversalOfType
BY DEF MarkReversed, Entry

LEMMA MirrorFields ==
    ASSUME NEW e \in Entry, CanReverse(e), NEW i \in Nat
    PROVE  LET f == MirrorOf(e, i)
           IN  /\ f \in Entry /\ f.type = "reversal" /\ f.reversalOf = i
               /\ f.reversalOfType = e.type /\ f.amount = e.amount
<1>1. MirrorOf(e, i) \in Entry
  BY MirrorEntry
<1> QED
  BY <1>1 DEF MirrorOf, NewEntry

\* The entries as a step has them when it adds its own.
Marks(entries, S) ==
    /\ entries \in Seq(Entry) /\ Len(entries) = Len(ledger) /\ S \subseteq EntryNumbers
    /\ \A j \in EntryNumbers :
          /\ entries[j].type = ledger[j].type /\ entries[j].about = ledger[j].about
          /\ entries[j].amount = ledger[j].amount /\ entries[j].day = ledger[j].day
          /\ entries[j].reversalOf = ledger[j].reversalOf
          /\ entries[j].reversalOfType = ledger[j].reversalOfType
          /\ entries[j].posted <=> ledger[j].posted /\ j \notin S

LEMMA MarksNone == LedgerOK => Marks(ledger, {})
BY DEF LedgerOK, Marks

LEMMA MarksOne ==
    ASSUME LedgerOK, NEW i \in EntryNumbers
    PROVE  Marks([ledger EXCEPT ![i] = MarkReversed(@, NextNumber)], {i})
<1> DEFINE f == MarkReversed(ledger[i], NextNumber)
           entries == [ledger EXCEPT ![i] = f]
<1>1. ledger \in Seq(Entry) /\ EntryNumbers = DOMAIN ledger
  BY DEF LedgerOK, EntryNumbers
<1>2. ledger[i] \in Entry /\ NextNumber \in Nat
  BY <1>1, OneOf DEF NextNumber
<1>3. /\ f \in Entry /\ f.day = ledger[i].day /\ f.type = ledger[i].type /\ f.amount = ledger[i].amount
      /\ ~f.posted /\ f.about = ledger[i].about
      /\ f.reversalOf = ledger[i].reversalOf /\ f.reversalOfType = ledger[i].reversalOfType
  BY <1>2, MarkedFields
<1> HIDE DEF f
<1>4. /\ entries \in Seq(Entry) /\ DOMAIN entries = DOMAIN ledger /\ entries[i] = f
      /\ \A j \in DOMAIN ledger : j # i => entries[j] = ledger[j]
  BY <1>1, <1>3, OneEdited
<1>5. Len(entries) = Len(ledger)
  <2>1. entries \in Seq(Entry) /\ ledger \in Seq(Entry) /\ DOMAIN entries = DOMAIN ledger
    BY <1>1, <1>4
  <2> HIDE DEF entries
  <2> QED
    BY <2>1, LenProperties
<1> HIDE DEF entries
<1>6. Marks(entries, {i})
  BY <1>1, <1>3, <1>4, <1>5 DEF Marks
<1> QED
  BY <1>6 DEF entries, f

\* Entries appended to marked ones.
LEMMA AppendedKeeps ==
    ASSUME LedgerOK, NEW entries, NEW S, Marks(entries, S), NEW n \in Nat,
           ledger' \in Seq(Entry), DOMAIN ledger' = 1..(Len(ledger) + n),
           \A j \in 1..Len(ledger) : ledger'[j] = entries[j]
    PROVE  Keeps(S) /\ Added = (Len(ledger) + 1)..(Len(ledger) + n)
<1>1. Len(ledger) \in Nat /\ EntryNumbers = 1..Len(ledger) /\ DOMAIN ledger = 1..Len(ledger)
  BY DayNumber, LenProperties DEF LedgerOK
<1>2. Added = (Len(ledger) + 1)..(Len(ledger) + n)
  BY <1>1 DEF Added
<1>3. EntryNumbers \subseteq DOMAIN ledger'
  BY <1>1
<1>4. Turns(S)
  BY <1>1, <1>3 DEF Turns, Marks
<1>5. Keeps(S)
  BY <1>1, <1>4 DEF Keeps, Marks
<1> QED
  BY <1>2, <1>5

LEMMA CommitKeeps ==
    ASSUME LedgerOK, NEW entries, NEW S, Marks(entries, S), NEW accts, NEW e \in Entry,
           Commit(accts, entries, e)
    PROVE  /\ Keeps(S) /\ Added = {Len(ledger) + 1}
           /\ ledger'[Len(ledger) + 1] = [e EXCEPT !.day = day]
<1>1. entries \in Seq(Entry) /\ Len(entries) = Len(ledger)
  BY DEF Marks
<1>2. /\ ledger' \in Seq(Entry)
      /\ DOMAIN ledger' = 1..(Len(ledger) + 1)
      /\ \A i \in 1..Len(ledger) : ledger'[i] = entries[i]
      /\ ledger'[Len(ledger) + 1] = [e EXCEPT !.day = day]
  BY <1>1, CommitAppends
<1>3. 1 \in Nat /\ Len(ledger) \in Nat
  BY DayNumber
<1>4. Keeps(S) /\ Added = (Len(ledger) + 1)..(Len(ledger) + 1)
  BY <1>2, <1>3, AppendedKeeps
<1> QED
  BY <1>2, <1>3, <1>4

LEMMA SummarisedSays ==
    ASSUME NEW s \in Summary, NEW e \in Entry
    PROVE  LET t == Summarised(s, e)
           IN  /\ t \in Summary
               /\ t.payments = s.payments + IF e.type = "customer_payment" THEN e.amount ELSE 0
               /\ t.paymentReversals = s.paymentReversals
                     + IF e.type = "reversal" /\ e.reversalOfType = "customer_payment"
                       THEN e.amount ELSE 0
<1>1. Summarised(s, e) \in Summary
  BY SummarisedType
<1>2. e.amount \in Nat /\ s.payments \in Nat /\ s.paymentReversals \in Nat
  BY DEF Entry, Amount, Summary
<1>3. Summarised(s, e).payments = IF e.type = "customer_payment" THEN s.payments + e.amount ELSE s.payments
  BY DEF Summarised, Summary
<1>4. Summarised(s, e).paymentReversals
        = IF e.type = "reversal" /\ e.reversalOfType = "customer_payment"
          THEN s.paymentReversals + e.amount ELSE s.paymentReversals
  BY DEF Summarised, Summary
<1>5. \A n \in Nat : n = n + 0
  OBVIOUS
<1> QED
  BY <1>1, <1>2, <1>3, <1>4, <1>5

LEMMA DayChanged ==
    ASSUME LedgerOK, SummariesOK, NEW t \in Summary, daily' = [daily EXCEPT ![day] = t],
           NEW p \in Nat, NEW r \in Nat,
           t.payments = daily[day].payments + p, t.paymentReversals = daily[day].paymentReversals + r
    PROVE  SummaryAdds(p, r)
<1>1. day \in Days /\ daily \in [Days -> Summary]
  BY DEF LedgerOK, SummariesOK
<1>2. daily' \in [Days -> Summary]
  BY <1>1
<1>3. \A d \in Days : daily'[d] = IF d = day THEN t ELSE daily[d]
  BY <1>1
<1>4. \A d \in Days : /\ daily[d].payments \in Nat /\ daily[d].payments + 0 = daily[d].payments
                      /\ daily[d].paymentReversals \in Nat
                      /\ daily[d].paymentReversals + 0 = daily[d].paymentReversals
  BY <1>1 DEF Summary
<1> QED
  BY <1>2, <1>3, <1>4 DEF SummaryAdds

LEMMA CommitSummary ==
    ASSUME LedgerOK, SummariesOK, NEW accts, NEW entries, NEW e \in Entry, Commit(accts, entries, e)
    PROVE  SummaryAdds(IF e.type = "customer_payment" THEN e.amount ELSE 0,
                       IF e.type = "reversal" /\ e.reversalOfType = "customer_payment"
                       THEN e.amount ELSE 0)
<1> DEFINE p == IF e.type = "customer_payment" THEN e.amount ELSE 0
           r == IF e.type = "reversal" /\ e.reversalOfType = "customer_payment"
                THEN e.amount ELSE 0
           t == Summarised(daily[day], e)
<1>1. daily[day] \in Summary
  BY DEF LedgerOK, SummariesOK
<1>2. /\ t \in Summary
      /\ t.payments = daily[day].payments + p /\ t.paymentReversals = daily[day].paymentReversals + r
  BY <1>1, SummarisedSays
<1>3. p \in Nat /\ r \in Nat
  BY DEF Entry, Amount
<1>4. daily' = [daily EXCEPT ![day] = t]
  BY DEF Commit
<1> HIDE DEF p, r, t
<1>5. SummaryAdds(p, r)
  BY <1>2, <1>3, <1>4, DayChanged
<1> QED
  BY <1>5 DEF p, r

\* Steps that leave customers' payments alone.
LEMMA UntouchedApart ==
    ASSUME LedgerOK, SummariesOK, ledger' = ledger, daily' = daily
    PROVE  Apart
<1>1. Turns({}) /\ Added = {}
  BY LedgerStays
<1>2. Keeps({})
  BY <1>1 DEF Keeps, EntryNumbers
<1>3. SummaryAdds(0, 0)
  <2>1. \A d \in Days : /\ daily[d].payments + 0 = daily[d].payments
                        /\ daily[d].paymentReversals + 0 = daily[d].paymentReversals
    BY DEF SummariesOK, Summary
  <2> QED
    BY <2>1 DEF SummaryAdds, SummariesOK
<1> QED
  BY <1>1, <1>2, <1>3 DEF Apart

LEMMA PostApart ==
    ASSUME LedgerOK, SummariesOK, NEW accts, NEW e \in Entry,
           e.type \notin {"customer_payment", "reversal"}, Commit(accts, ledger, e)
    PROVE  Apart
<1>1. /\ Keeps({}) /\ Added = {Len(ledger) + 1}
      /\ ledger'[Len(ledger) + 1] = [e EXCEPT !.day = day]
  BY MarksNone, CommitKeeps
<1>2. ledger'[Len(ledger) + 1].type = e.type
  BY <1>1, DatedFields
<1>3. SummaryAdds(0, 0)
  <2> DEFINE p == IF e.type = "customer_payment" THEN e.amount ELSE 0
             r == IF e.type = "reversal" /\ e.reversalOfType = "customer_payment"
                  THEN e.amount ELSE 0
  <2>1. SummaryAdds(p, r)
    BY CommitSummary
  <2>2. p = 0 /\ r = 0
    OBVIOUS
  <2> HIDE DEF p, r
  <2> QED
    BY <2>1, <2>2
<1> QED
  BY <1>1, <1>2, <1>3 DEF Apart

LEMMA MirrorPosted ==
    ASSUME LedgerOK, SummariesOK, NEW accts, NEW i \in EntryNumbers, PostReversal(accts, i)
    PROVE  /\ Keeps({i}) /\ Added = {Len(ledger) + 1} /\ Mirrors(Len(ledger) + 1, i)
           /\ ledger[i].type # "reversal" /\ ledger[i].posted
           /\ SummaryAdds(0, IF ledger[i].type = "customer_payment" THEN ledger[i].amount ELSE 0)
<1> DEFINE e == MirrorOf(ledger[i], i)
           entries == [ledger EXCEPT ![i] = MarkReversed(@, NextNumber)]
<1>1. CanReverse(ledger[i]) /\ Commit(accts, entries, e)
  BY DEF PostReversal
<1>2. ledger[i] \in Entry /\ i \in Nat
  BY OneOf DEF LedgerOK, EntryNumbers
<1>3. /\ e \in Entry /\ e.type = "reversal" /\ e.reversalOf = i
      /\ e.reversalOfType = ledger[i].type /\ e.amount = ledger[i].amount
  BY <1>1, <1>2, MirrorFields
<1>4. Marks(entries, {i})
  BY MarksOne
<1> HIDE DEF e, entries
<1>5. /\ Keeps({i}) /\ Added = {Len(ledger) + 1}
      /\ ledger'[Len(ledger) + 1] = [e EXCEPT !.day = day]
  BY <1>1, <1>3, <1>4, CommitKeeps
<1>6. Mirrors(Len(ledger) + 1, i)
  BY <1>3, <1>5, DatedFields DEF Mirrors
<1>7. SummaryAdds(0, IF ledger[i].type = "customer_payment" THEN ledger[i].amount ELSE 0)
  <2> DEFINE p == IF e.type = "customer_payment" THEN e.amount ELSE 0
             r == IF e.type = "reversal" /\ e.reversalOfType = "customer_payment"
                  THEN e.amount ELSE 0
             n == IF ledger[i].type = "customer_payment" THEN ledger[i].amount ELSE 0
  <2>1. SummaryAdds(p, r)
    BY <1>1, <1>3, CommitSummary
  <2>2. p = 0 /\ r = n
    BY <1>3
  <2>3. SummaryAdds(0, n)
    <3> HIDE DEF p, r, n
    <3> QED
      BY <2>1, <2>2
  <2> QED
    BY <2>3
<1> QED
  BY <1>1, <1>5, <1>6, <1>7 DEF CanReverse

LEMMA ReversalApart ==
    ASSUME LedgerOK, SummariesOK, NEW accts, NEW i \in EntryNumbers, PostReversal(accts, i),
           ledger[i].type # "customer_payment"
    PROVE  Apart
<1>1. Keeps({i}) /\ Added = {Len(ledger) + 1} /\ Mirrors(Len(ledger) + 1, i)
  BY MirrorPosted
<1>2. SummaryAdds(0, 0)
  <2> DEFINE n == IF ledger[i].type = "customer_payment" THEN ledger[i].amount ELSE 0
  <2>1. SummaryAdds(0, n)
    BY MirrorPosted
  <2>2. n = 0
    OBVIOUS
  <2> HIDE DEF n
  <2> QED
    BY <2>1, <2>2
<1> QED
  BY <1>1, <1>2 DEF Apart

\* Several entries at once.
LEMMA BatchKept ==
    ASSUME LedgerOK, SummariesOK, NEW entries, NEW S, Marks(entries, S), NEW n, NEW es, Batch(es, n),
           PostAll(entries, es), \A i \in 1..n : AboutType(es[i]) # "customer_payment"
    PROVE  /\ Keeps(S) /\ Added = (Len(ledger) + 1)..(Len(ledger) + n)
           /\ \A i \in 1..n : ledger'[Len(ledger) + i] = [es[i] EXCEPT !.day = day]
           /\ SummaryAdds(0, 0)
<1>1. n \in Nat /\ DOMAIN es = 1..n /\ \A i \in 1..n : es[i] \in Entry
  BY DEF Batch
<1>2. entries \in Seq(Entry) /\ Len(entries) = Len(ledger)
  BY DEF Marks
<1>3. Extends(entries, es, n)
  BY <1>2, PostAllAppends
<1>4. /\ ledger' \in Seq(Entry) /\ DOMAIN ledger' = 1..(Len(ledger) + n)
      /\ \A i \in 1..Len(ledger) : ledger'[i] = entries[i]
      /\ \A i \in 1..n : ledger'[Len(ledger) + i] = [es[i] EXCEPT !.day = day]
  BY <1>2, <1>3 DEF Extends
<1>5. Keeps(S) /\ Added = (Len(ledger) + 1)..(Len(ledger) + n)
  BY <1>1, <1>4, AppendedKeeps
<1>6. SummaryAdds(0, 0)
  <2> DEFINE t == FoldLeft(Summarised, daily[day], es)
  <2>1. daily[day] \in Summary
    BY DEF LedgerOK, SummariesOK
  <2>2. Aside(daily[day], t)
    BY <1>1, <2>1, BatchAside
  <2>3. daily' = [daily EXCEPT ![day] = t]
    BY DEF PostAll
  <2> HIDE DEF t
  <2>4. /\ t \in Summary /\ 0 \in Nat
        /\ t.payments = daily[day].payments + 0
        /\ t.paymentReversals = daily[day].paymentReversals + 0
    BY <2>1, <2>2 DEF Aside, Summary
  <2> QED
    BY <2>3, <2>4, DayChanged
<1> QED
  BY <1>4, <1>5, <1>6

\* Each new entry is one of the batch.
LEMMA AddedIs ==
    ASSUME LedgerOK, NEW n \in Nat, NEW j, j \in (Len(ledger) + 1)..(Len(ledger) + n)
    PROVE  \E i \in 1..n : j = Len(ledger) + i
<1>1. Len(ledger) \in Nat
  BY DayNumber
<1>2. j - Len(ledger) \in 1..n /\ j = Len(ledger) + (j - Len(ledger))
  BY <1>1
<1> QED
  BY <1>2

LEMMA BatchApart ==
    ASSUME LedgerOK, SummariesOK, NEW n, NEW es, Batch(es, n), PostAll(ledger, es),
           \A i \in 1..n : es[i].type \notin {"customer_payment", "reversal"}
    PROVE  Apart
<1>1. n \in Nat /\ \A i \in 1..n : es[i] \in Entry /\ AboutType(es[i]) # "customer_payment"
  BY DEF Batch, AboutType
<1>2. /\ Keeps({}) /\ Added = (Len(ledger) + 1)..(Len(ledger) + n)
      /\ \A i \in 1..n : ledger'[Len(ledger) + i] = [es[i] EXCEPT !.day = day]
      /\ SummaryAdds(0, 0)
  BY <1>1, MarksNone, BatchKept
<1>3. ASSUME NEW j \in Added PROVE ledger'[j].type \notin {"customer_payment", "reversal"}
  <2>1. PICK i \in 1..n : j = Len(ledger) + i
    BY <1>1, <1>2, AddedIs
  <2>2. ledger'[j] = [es[i] EXCEPT !.day = day] /\ es[i] \in Entry
    BY <1>1, <1>2, <2>1
  <2>3. ledger'[j].type = es[i].type
    BY <2>2, DatedFields
  <2> QED
    BY <2>3
<1> QED
  BY <1>2, <1>3 DEF Apart

LEMMA AllReversedApart ==
    ASSUME LedgerOK, SummariesOK, NEW S, S \subseteq EntryNumbers, ReverseAll(S),
           \A i \in S : ledger[i].type # "customer_payment"
    PROVE  Apart
<1> DEFINE n == Cardinality(S)
           order == InOrder(S)
           entries == Reversing(S)
           es == MirrorsOf(S)
<1>1. ledger \in Seq(Entry) /\ EntryNumbers = 1..Len(ledger) /\ Len(ledger) \in Nat
  BY DayNumber DEF LedgerOK
<1>2. IsFiniteSet(S)
  <2>1. IsFiniteSet(1..Len(ledger)) /\ S \in SUBSET (1..Len(ledger))
    BY <1>1, FS_Interval
  <2> QED
    BY <2>1, FS_Subset
<1>3. Enumerates(order, S) /\ n \in Nat
  BY <1>2, SetListed DEF InOrder
<1>4. /\ \A i \in S : CanReverse(ledger[i])
      /\ PostAll(entries, es)
  BY DEF ReverseAll
<1>5. \A i \in EntryNumbers : ledger[i] \in Entry /\ i \in Nat
  BY <1>1, OneOf DEF EntryNumbers
<1>6. ASSUME NEW i \in S
      PROVE  Len(ledger) + PlaceOf(S, i) \in Nat
  <2>1. PlaceOf(S, i) \in 1..n
    BY <1>3 DEF PlaceOf, Enumerates
  <2> QED
    BY <1>1, <1>3, <2>1
<1>7. \A i \in EntryNumbers : entries[i] =
          IF i \in S THEN MarkReversed(ledger[i], Len(ledger) + PlaceOf(S, i)) ELSE ledger[i]
  BY DEF Reversing
<1>8. ASSUME NEW i \in EntryNumbers
      PROVE  /\ entries[i] \in Entry
             /\ entries[i].type = ledger[i].type /\ entries[i].about = ledger[i].about
             /\ entries[i].amount = ledger[i].amount /\ entries[i].day = ledger[i].day
             /\ entries[i].reversalOf = ledger[i].reversalOf
             /\ entries[i].reversalOfType = ledger[i].reversalOfType
             /\ entries[i].posted <=> ledger[i].posted /\ i \notin S
  <2>1. CASE i \in S
    <3> DEFINE m == Len(ledger) + PlaceOf(S, i)
    <3>1. ledger[i] \in Entry /\ m \in Nat
      BY <1>5, <1>6, <2>1
    <3>2. entries[i] = MarkReversed(ledger[i], m)
      BY <1>7, <2>1
    <3> HIDE DEF entries, m
    <3> QED
      BY <2>1, <3>1, <3>2, MarkedFields
  <2>2. CASE i \notin S
    <3>1. entries[i] = ledger[i] /\ ledger[i] \in Entry
      BY <1>5, <1>7, <2>2
    <3> HIDE DEF entries
    <3> QED
      BY <2>2, <3>1
  <2> QED
    BY <2>1, <2>2
<1>9. entries \in Seq(Entry) /\ Len(entries) = Len(ledger)
  <2>1. entries \in [1..Len(ledger) -> Entry]
    BY <1>1, <1>8 DEF Reversing
  <2> QED
    BY <1>1, <2>1, SeqDef, LenProperties
<1>10. DOMAIN es = 1..n /\ \A k \in 1..n : es[k] = MirrorOf(ledger[order[k]], order[k])
  BY DEF MirrorsOf
<1> HIDE DEF entries, es, order, n
<1>11. ASSUME NEW k \in 1..n
       PROVE  /\ order[k] \in S /\ es[k] \in Entry /\ es[k].type = "reversal"
              /\ es[k].reversalOf = order[k] /\ es[k].reversalOfType = ledger[order[k]].type
              /\ es[k].amount = ledger[order[k]].amount
              /\ AboutType(es[k]) # "customer_payment"
  <2> DEFINE i == order[k]
  <2>1. i \in S
    BY <1>3 DEF Enumerates, n
  <2>2. ledger[i] \in Entry /\ CanReverse(ledger[i]) /\ i \in Nat
    BY <1>4, <1>5, <2>1
  <2>3. es[k] = MirrorOf(ledger[i], i)
    BY <1>10
  <2> HIDE DEF i
  <2>4. /\ es[k] \in Entry /\ es[k].type = "reversal" /\ es[k].reversalOf = i
        /\ es[k].reversalOfType = ledger[i].type /\ es[k].amount = ledger[i].amount
    BY <2>2, <2>3, MirrorFields
  <2>5. AboutType(es[k]) # "customer_payment"
    BY <2>1, <2>4 DEF AboutType
  <2> QED
    BY <2>1, <2>4, <2>5 DEF i
<1>12. Batch(es, n) /\ Marks(entries, S)
  BY <1>3, <1>8, <1>9, <1>10, <1>11 DEF Batch, Marks
<1>13. /\ Keeps(S) /\ Added = (Len(ledger) + 1)..(Len(ledger) + n)
       /\ \A k \in 1..n : ledger'[Len(ledger) + k] = [es[k] EXCEPT !.day = day]
       /\ SummaryAdds(0, 0)
  BY <1>4, <1>11, <1>12, BatchKept
<1>14. ASSUME NEW j \in Added PROVE \E i \in S : Mirrors(j, i)
  <2>1. PICK k \in 1..n : j = Len(ledger) + k
    BY <1>3, <1>13, AddedIs
  <2>2. ledger'[j] = [es[k] EXCEPT !.day = day] /\ es[k] \in Entry
    BY <1>11, <1>13, <2>1
  <2>3. /\ ledger'[j].type = es[k].type /\ ledger'[j].amount = es[k].amount
        /\ ledger'[j].reversalOf = es[k].reversalOf
        /\ ledger'[j].reversalOfType = es[k].reversalOfType /\ ledger'[j].day = day
    BY <2>2, DatedFields
  <2>4. Mirrors(j, order[k]) /\ order[k] \in S
    BY <1>11, <2>3 DEF Mirrors
  <2> QED
    BY <2>4
<1> QED
  BY <1>13, <1>14 DEF Apart

-----------------------------------------------------------------------------
(* What reports rest on *)

IsPayment(l, i) == l[i].type = "customer_payment"
IsReturn(l, j) == l[j].type = "reversal" /\ l[j].reversalOfType = "customer_payment"

PaymentsOf(l, D) == {i \in DOMAIN l : IsPayment(l, i) /\ l[i].day \in D}
ReturnsOf(l, D) == {j \in DOMAIN l : IsReturn(l, j) /\ l[j].day \in D}

\* A day's summary has the payments of the day and the reversals made on it.
DaysInv ==
    /\ SummariesOK
    /\ \A d \in Days :
          /\ daily[d].payments = AmountsOf(ledger, PaymentsOf(ledger, {d}))
          /\ daily[d].paymentReversals = AmountsOf(ledger, ReturnsOf(ledger, {d}))

\* A reversal names what it reverses; a payment and its one reversal find each other.
ReturnsInv ==
    /\ \A j \in EntryNumbers : ledger[j].type = "reversal" =>
          /\ ledger[j].reversalOf \in EntryNumbers
          /\ ledger[j].reversalOfType = ledger[ledger[j].reversalOf].type
    /\ \A j \in EntryNumbers : IsReturn(ledger, j) =>
          /\ ~ledger[ledger[j].reversalOf].posted
          /\ ledger[ledger[j].reversalOf].amount = ledger[j].amount
    /\ \A j, k \in EntryNumbers :
          IsReturn(ledger, j) /\ IsReturn(ledger, k) /\ ledger[j].reversalOf = ledger[k].reversalOf => j = k
    /\ \A i \in EntryNumbers : IsPayment(ledger, i) /\ ~ledger[i].posted =>
          \E j \in EntryNumbers : IsReturn(ledger, j) /\ ledger[j].reversalOf = i

PaymentsTo(l, at, D) == {i \in PaymentsOf(l, D) : i <= at}
ReturnsTo(l, at, D) == {j \in ReturnsOf(l, D) : j <= at}

\* A report's first figure is that of the entries there were when it was read.
ReportInv ==
    report.open =>
        /\ report.from \in Days /\ report.to \in Days
        /\ report.at \in Nat /\ report.at <= Len(ledger)
        /\ report.revenue = AmountsOf(ledger, PaymentsTo(ledger, report.at, report.from..report.to))
                            - AmountsOf(ledger, ReturnsTo(ledger, report.at, report.from..report.to))

TakingsInv == DaysInv /\ ReturnsInv /\ ReportInv

\* Sets of entries are finite and have amounts.
LEMMA SomeEntries ==
    ASSUME LedgerOK, NEW S, S \subseteq EntryNumbers
    PROVE  /\ IsFiniteSet(S) /\ \A i \in S : ledger[i].amount \in Nat /\ ledger[i].amount \in Int
           /\ AmountsOf(ledger, S) \in Nat
<1>1. EntryNumbers = 1..Len(ledger) /\ Len(ledger) \in Nat
  BY DayNumber
<1>2. IsFiniteSet(S)
  <2>1. IsFiniteSet(1..Len(ledger)) /\ S \in SUBSET (1..Len(ledger))
    BY <1>1, FS_Interval
  <2> QED
    BY <2>1, FS_Subset
<1>3. \A i \in S : ledger[i].amount \in Nat /\ ledger[i].amount \in Int
  <2> SUFFICES ASSUME NEW i \in S PROVE ledger[i].amount \in Nat /\ ledger[i].amount \in Int
    OBVIOUS
  <2>1. ledger[i] \in Entry
    BY OneOf DEF LedgerOK, EntryNumbers
  <2> QED
    BY <2>1 DEF Entry, Amount
<1>4. AmountsOf(ledger, S) \in Nat
  BY <1>2, <1>3, AmountsType
<1> QED
  BY <1>2, <1>3, <1>4

\* Two parts of a set of entries amount to the whole.
LEMMA AmountsParted ==
    ASSUME LedgerOK, NEW S, S \subseteq EntryNumbers, NEW T, T \subseteq S
    PROVE  AmountsOf(ledger, S) = AmountsOf(ledger, T) + AmountsOf(ledger, S \ T)
<1> DEFINE w == [i \in S |-> ledger[i].amount]
           R == S \ T
<1>1. R \subseteq EntryNumbers /\ T \subseteq EntryNumbers
  OBVIOUS
<1>2. /\ IsFiniteSet(S) /\ IsFiniteSet(T) /\ IsFiniteSet(R)
      /\ \A i \in S : ledger[i].amount \in Int
      /\ AmountsOf(ledger, S) \in Nat /\ AmountsOf(ledger, T) \in Nat /\ AmountsOf(ledger, R) \in Nat
  BY <1>1, SomeEntries
<1>3. /\ \A i \in S : w[i] = ledger[i].amount
      /\ \A i \in T : w[i] = ledger[i].amount
      /\ \A i \in R : w[i] = ledger[i].amount
      /\ \A i \in S : w[i] \in Int
  BY <1>2
<1> HIDE DEF w
<1>4. /\ AmountsOf(ledger, S) = Total(w, S) /\ AmountsOf(ledger, T) = Total(w, T)
      /\ AmountsOf(ledger, R) = Total(w, R)
  <2> HIDE DEF R
  <2>1. AmountsOf(ledger, S) = Total(w, S)
    BY <1>2, <1>3, AmountsTotal
  <2>2. AmountsOf(ledger, T) = Total(w, T)
    BY <1>2, <1>3, AmountsTotal
  <2>3. AmountsOf(ledger, R) = Total(w, R)
    BY <1>2, <1>3, AmountsTotal
  <2> QED
    BY <2>1, <2>2, <2>3
<1>5. Total(w, R) = Total(w, S) - Total(w, T)
  <2>1. Weighs(w, S)
    BY <1>2, <1>3 DEF Weighs
  <2> QED
    BY <2>1, TotalWithout
<1> HIDE DEF R
<1>6. AmountsOf(ledger, S) = AmountsOf(ledger, T) + AmountsOf(ledger, R)
  BY <1>2, <1>4, <1>5
<1> QED
  BY <1>6 DEF R

\* Entries keep their amounts.
LEMMA EntriesWorth ==
    ASSUME LedgerOK, NEW M, Keeps(M), NEW S, S \subseteq EntryNumbers
    PROVE  AmountsOf(ledger', S) = AmountsOf(ledger, S)
<1>1. IsFiniteSet(S)
  BY SomeEntries
<1>2. \A i \in S : ledger'[i].amount = ledger[i].amount
  BY DEF Keeps, Turns
<1> QED
  BY <1>1, <1>2, AmountsSame

\* An entry more adds its amount.
LEMMA AmountsOneMore ==
    ASSUME LedgerOK, NEW M, Keeps(M), NEW S, S \subseteq EntryNumbers, Added = {Len(ledger) + 1}
    PROVE  AmountsOf(ledger', S \cup {Len(ledger) + 1})
              = AmountsOf(ledger, S) + ledger'[Len(ledger) + 1].amount
<1> DEFINE l == ledger'
           z == Len(ledger) + 1
<1>1. IsFiniteSet(S) /\ \A i \in S : ledger[i].amount \in Int
  BY SomeEntries
<1>2. \A i \in S : l[i].amount = ledger[i].amount
  BY DEF Keeps, Turns
<1>3. z \notin S
  <2>1. Len(ledger) \in Nat /\ EntryNumbers = 1..Len(ledger)
    BY DayNumber
  <2> QED
    BY <2>1
<1>4. l[z].amount \in Int
  <2>1. l \in Seq(Entry) /\ z \in DOMAIN l
    BY DEF Keeps, Turns, Added
  <2> HIDE DEF l, z
  <2>2. l[z] \in Entry
    BY <2>1, OneOf
  <2> QED
    BY <2>2 DEF Entry, Amount
<1> HIDE DEF l, z
<1>5. AmountsOf(l, S \cup {z}) = AmountsOf(ledger, S) + l[z].amount
  <2>1. Growing(ledger, l, S, z)
    BY <1>1, <1>2, <1>3, <1>4 DEF Growing
  <2> QED
    BY <2>1, AmountsGrow
<1> QED
  BY <1>5 DEF l, z

\* Which payments and reversals there are after a step.
LEMMA NewPayments ==
    ASSUME LedgerOK, NEW M, Keeps(M), NEW D
    PROVE  PaymentsOf(ledger', D)
              = PaymentsOf(ledger, D) \cup {j \in Added : IsPayment(ledger', j) /\ ledger'[j].day \in D}
BY DEF Keeps, Turns, PaymentsOf, IsPayment, Added, EntryNumbers

LEMMA NewReturns ==
    ASSUME LedgerOK, NEW M, Keeps(M), NEW D
    PROVE  ReturnsOf(ledger', D)
              = ReturnsOf(ledger, D) \cup {j \in Added : IsReturn(ledger', j) /\ ledger'[j].day \in D}
BY DEF Keeps, Turns, ReturnsOf, IsReturn, Added, EntryNumbers

LEMMA ListedEntries ==
    ASSUME NEW D
    PROVE  PaymentsOf(ledger, D) \subseteq EntryNumbers /\ ReturnsOf(ledger, D) \subseteq EntryNumbers
BY DEF PaymentsOf, ReturnsOf, EntryNumbers

\* The day's summary when no payment is added, and no reversal of one.
LEMMA DaysApart ==
    ASSUME LedgerOK, DaysInv, Apart
    PROVE  DaysInv'
<1>1. PICK S : /\ Keeps(S) /\ \A i \in S : ledger[i].type # "customer_payment"
               /\ \A j \in Added : \/ ledger'[j].type \notin {"customer_payment", "reversal"}
                                   \/ \E i \in S : Mirrors(j, i)
  BY DEF Apart
<1>2. \A j \in Added : ~IsPayment(ledger', j) /\ ~IsReturn(ledger', j)
  BY <1>1 DEF Mirrors, IsPayment, IsReturn
<1>3. ASSUME NEW d \in Days
      PROVE  /\ daily'[d].payments = AmountsOf(ledger', PaymentsOf(ledger', {d}))
             /\ daily'[d].paymentReversals = AmountsOf(ledger', ReturnsOf(ledger', {d}))
  <2>1. PaymentsOf(ledger', {d}) = PaymentsOf(ledger, {d})
    BY <1>1, <1>2, NewPayments
  <2>2. ReturnsOf(ledger', {d}) = ReturnsOf(ledger, {d})
    BY <1>1, <1>2, NewReturns
  <2>3. AmountsOf(ledger', PaymentsOf(ledger, {d})) = AmountsOf(ledger, PaymentsOf(ledger, {d}))
    BY <1>1, ListedEntries, EntriesWorth
  <2>4. AmountsOf(ledger', ReturnsOf(ledger, {d})) = AmountsOf(ledger, ReturnsOf(ledger, {d}))
    BY <1>1, ListedEntries, EntriesWorth
  <2>5. daily'[d].payments = daily[d].payments /\ daily'[d].paymentReversals = daily[d].paymentReversals
    BY DEF Apart, SummaryAdds, DaysInv, SummariesOK, Summary
  <2> QED
    BY <2>1, <2>2, <2>3, <2>4, <2>5 DEF DaysInv
<1>4. SummariesOK'
  BY DEF Apart, SummaryAdds, SummariesOK
<1> QED
  BY <1>3, <1>4 DEF DaysInv

LEMMA DaysTaken ==
    ASSUME LedgerOK, DaysInv, NEW n \in Nat, CustomerPays(n)
    PROVE  DaysInv'
<1> DEFINE z == Len(ledger) + 1
<1>1. /\ SummaryAdds(n, 0) /\ Keeps({}) /\ Added = {z}
      /\ IsPayment(ledger', z) /\ ~IsReturn(ledger', z)
      /\ ledger'[z].amount = n /\ ledger'[z].day = day
  BY DEF CustomerPays, IsPayment, IsReturn
<1> HIDE DEF z
<1>2. ASSUME NEW d \in Days
      PROVE  /\ daily'[d].payments = AmountsOf(ledger', PaymentsOf(ledger', {d}))
             /\ daily'[d].paymentReversals = AmountsOf(ledger', ReturnsOf(ledger', {d}))
  <2> DEFINE P == PaymentsOf(ledger, {d})
             R == ReturnsOf(ledger, {d})
  <2>1. P \subseteq EntryNumbers /\ R \subseteq EntryNumbers
    BY ListedEntries
  <2>2. /\ daily[d].payments = AmountsOf(ledger, P)
        /\ daily[d].paymentReversals = AmountsOf(ledger, R)
        /\ daily[d].payments \in Nat /\ daily[d].paymentReversals \in Nat
    BY DEF DaysInv, SummariesOK, Summary
  <2>3. /\ daily'[d].payments = daily[d].payments + IF d = day THEN n ELSE 0
        /\ daily'[d].paymentReversals = daily[d].paymentReversals + 0
    BY <1>1 DEF SummaryAdds
  <2>4. ReturnsOf(ledger', {d}) = R
    <3>1. {j \in Added : IsReturn(ledger', j) /\ ledger'[j].day \in {d}} = {}
      BY <1>1
    <3>2. ReturnsOf(ledger', {d}) = ReturnsOf(ledger, {d}) \cup {}
      BY <1>1, <3>1, NewReturns
    <3> QED
      BY <3>2
  <2>5. PaymentsOf(ledger', {d}) = P \cup (IF d = day THEN {z} ELSE {})
    BY <1>1, NewPayments
  <2> HIDE DEF P, R
  <2>6. AmountsOf(ledger', P) = AmountsOf(ledger, P) /\ AmountsOf(ledger', R) = AmountsOf(ledger, R)
    BY <1>1, <2>1, EntriesWorth
  <2>7. AmountsOf(ledger', P \cup {z}) = AmountsOf(ledger, P) + n
    BY <1>1, <2>1, AmountsOneMore DEF z
  <2>8. CASE d = day
    BY <2>2, <2>3, <2>4, <2>5, <2>6, <2>7, <2>8
  <2>9. CASE d # day
    <3>1. PaymentsOf(ledger', {d}) = P
      BY <2>5, <2>9
    <3> QED
      BY <2>2, <2>3, <2>4, <2>6, <2>9, <3>1
  <2> QED
    BY <2>8, <2>9
<1>3. SummariesOK'
  BY <1>1 DEF SummaryAdds, SummariesOK
<1> QED
  BY <1>2, <1>3 DEF DaysInv

LEMMA DaysReturned ==
    ASSUME LedgerOK, DaysInv, NEW i, Returns(i)
    PROVE  DaysInv'
<1> DEFINE z == Len(ledger) + 1
           n == ledger[i].amount
<1>1. /\ SummaryAdds(0, n) /\ Keeps({i}) /\ Added = {z}
      /\ ~IsPayment(ledger', z) /\ IsReturn(ledger', z)
      /\ ledger'[z].amount = n /\ ledger'[z].day = day
  BY DEF Returns, Mirrors, IsPayment, IsReturn
<1>0. n \in Nat
  <2>1. ledger[i] \in Entry
    BY OneOf DEF LedgerOK, EntryNumbers, Returns
  <2> QED
    BY <2>1 DEF Entry, Amount
<1> HIDE DEF z, n
<1>2. ASSUME NEW d \in Days
      PROVE  /\ daily'[d].payments = AmountsOf(ledger', PaymentsOf(ledger', {d}))
             /\ daily'[d].paymentReversals = AmountsOf(ledger', ReturnsOf(ledger', {d}))
  <2> DEFINE P == PaymentsOf(ledger, {d})
             R == ReturnsOf(ledger, {d})
  <2>1. P \subseteq EntryNumbers /\ R \subseteq EntryNumbers
    BY ListedEntries
  <2>2. /\ daily[d].payments = AmountsOf(ledger, P)
        /\ daily[d].paymentReversals = AmountsOf(ledger, R)
        /\ daily[d].payments \in Nat /\ daily[d].paymentReversals \in Nat
    BY DEF DaysInv, SummariesOK, Summary
  <2>3. /\ daily'[d].payments = daily[d].payments + IF d = day THEN 0 ELSE 0
        /\ daily'[d].paymentReversals = daily[d].paymentReversals + IF d = day THEN n ELSE 0
    BY <1>1 DEF SummaryAdds
  <2>4. PaymentsOf(ledger', {d}) = P
    <3>1. {j \in Added : IsPayment(ledger', j) /\ ledger'[j].day \in {d}} = {}
      BY <1>1
    <3>2. PaymentsOf(ledger', {d}) = PaymentsOf(ledger, {d}) \cup {}
      BY <1>1, <3>1, NewPayments
    <3> QED
      BY <3>2
  <2>5. ReturnsOf(ledger', {d}) = R \cup (IF d = day THEN {z} ELSE {})
    BY <1>1, NewReturns
  <2> HIDE DEF P, R
  <2>6. AmountsOf(ledger', P) = AmountsOf(ledger, P) /\ AmountsOf(ledger', R) = AmountsOf(ledger, R)
    BY <1>1, <2>1, EntriesWorth
  <2>7. AmountsOf(ledger', R \cup {z}) = AmountsOf(ledger, R) + n
    BY <1>1, <2>1, AmountsOneMore DEF z
  <2>8. CASE d = day
    BY <2>2, <2>3, <2>4, <2>5, <2>6, <2>7, <2>8
  <2>9. CASE d # day
    <3>1. ReturnsOf(ledger', {d}) = R
      BY <2>5, <2>9
    <3> QED
      BY <2>2, <2>3, <2>4, <2>6, <2>9, <3>1
  <2> QED
    BY <2>8, <2>9
<1>3. SummariesOK'
  BY <1>1 DEF SummaryAdds, SummariesOK
<1> QED
  BY <1>2, <1>3 DEF DaysInv

\* A step that reverses entries S answers each payment among them with one reversal.
Answers(S) ==
    /\ Keeps(S)
    /\ \A j \in Added : ledger'[j].type = "reversal" => \E i \in S : Mirrors(j, i)
    /\ \A j, k \in Added : IsReturn(ledger', j) /\ IsReturn(ledger', k) => j = k
    /\ \A i \in S : IsPayment(ledger, i) => ledger[i].posted /\ \E j \in Added : Mirrors(j, i)
    /\ \A j \in Added : IsPayment(ledger', j) => ledger'[j].posted

LEMMA EntriesAfter ==
    ASSUME NEW S, Keeps(S)
    PROVE  /\ EntryNumbers' = EntryNumbers \cup Added
           /\ S \subseteq EntryNumbers
           /\ \A j \in EntryNumbers :
                 /\ ledger'[j].type = ledger[j].type /\ ledger'[j].amount = ledger[j].amount
                 /\ ledger'[j].day = ledger[j].day
                 /\ ledger'[j].posted <=> (ledger[j].posted /\ j \notin S)
                 /\ ledger'[j].reversalOf = ledger[j].reversalOf
                 /\ ledger'[j].reversalOfType = ledger[j].reversalOfType
BY DEF Keeps, Turns, Added, EntryNumbers

LEMMA ReturnsKept ==
    ASSUME ReturnsInv, NEW S, Answers(S)
    PROVE  ReturnsInv'
<1>1. /\ EntryNumbers' = EntryNumbers \cup Added
      /\ S \subseteq EntryNumbers
      /\ \A j \in EntryNumbers :
            /\ ledger'[j].type = ledger[j].type /\ ledger'[j].amount = ledger[j].amount
            /\ ledger'[j].posted <=> (ledger[j].posted /\ j \notin S)
            /\ ledger'[j].reversalOf = ledger[j].reversalOf
            /\ ledger'[j].reversalOfType = ledger[j].reversalOfType
  BY EntriesAfter DEF Answers
<1>2. \A j \in EntryNumbers : /\ IsReturn(ledger', j) <=> IsReturn(ledger, j)
                              /\ IsPayment(ledger', j) <=> IsPayment(ledger, j)
  BY <1>1 DEF IsReturn, IsPayment
<1>3. ASSUME NEW j \in EntryNumbers, ledger[j].type = "reversal"
      PROVE  /\ ledger[j].reversalOf \in EntryNumbers
             /\ ledger[j].reversalOfType = ledger[ledger[j].reversalOf].type
  BY <1>3 DEF ReturnsInv
<1>4. ASSUME NEW j \in EntryNumbers', ledger'[j].type = "reversal"
      PROVE  /\ ledger'[j].reversalOf \in EntryNumbers
             /\ ledger'[j].reversalOfType = ledger'[ledger'[j].reversalOf].type
  <2>1. CASE j \in EntryNumbers
    BY <1>1, <1>3, <1>4, <2>1
  <2>2. CASE j \in Added
    <3>1. PICK i \in S : Mirrors(j, i)
      BY <1>4, <2>2 DEF Answers
    <3> QED
      BY <1>1, <3>1 DEF Mirrors
  <2> QED
    BY <1>1, <2>1, <2>2
<1>5. ASSUME NEW j \in EntryNumbers', IsReturn(ledger', j)
      PROVE  /\ ~ledger'[ledger'[j].reversalOf].posted
             /\ ledger'[ledger'[j].reversalOf].amount = ledger'[j].amount
  <2>1. CASE j \in EntryNumbers
    <3>1. IsReturn(ledger, j)
      BY <1>2, <1>5, <2>1
    <3>2. /\ ledger[j].reversalOf \in EntryNumbers
          /\ ~ledger[ledger[j].reversalOf].posted
          /\ ledger[ledger[j].reversalOf].amount = ledger[j].amount
      BY <2>1, <3>1 DEF ReturnsInv, IsReturn
    <3> QED
      BY <1>1, <2>1, <3>2
  <2>2. CASE j \in Added
    <3>1. PICK i \in S : Mirrors(j, i)
      BY <1>5, <2>2 DEF Answers, IsReturn
    <3> QED
      BY <1>1, <3>1 DEF Mirrors
  <2> QED
    BY <1>1, <2>1, <2>2
<1>6. ASSUME NEW j \in EntryNumbers, NEW k \in Added, IsReturn(ledger', j), IsReturn(ledger', k)
      PROVE  ledger'[j].reversalOf # ledger'[k].reversalOf
  <2>1. IsReturn(ledger, j)
    BY <1>2, <1>6
  <2>2. ~ledger[ledger[j].reversalOf].posted
    BY <2>1 DEF ReturnsInv
  <2>3. PICK i \in S : Mirrors(k, i)
    BY <1>6 DEF Answers, IsReturn
  <2>4. IsPayment(ledger, i)
    BY <1>6, <2>3 DEF IsReturn, IsPayment, Mirrors
  <2>5. ledger[i].posted /\ ledger'[k].reversalOf = i
    BY <2>3, <2>4 DEF Answers, Mirrors
  <2> QED
    BY <1>1, <2>2, <2>5
<1>7. ASSUME NEW j \in EntryNumbers', NEW k \in EntryNumbers', IsReturn(ledger', j), IsReturn(ledger', k),
             ledger'[j].reversalOf = ledger'[k].reversalOf
      PROVE  j = k
  <2>1. CASE j \in EntryNumbers /\ k \in EntryNumbers
    BY <1>1, <1>2, <1>7, <2>1 DEF ReturnsInv
  <2>2. CASE j \in Added /\ k \in Added
    BY <1>7, <2>2 DEF Answers
  <2>3. CASE j \in EntryNumbers /\ k \in Added
    BY <1>6, <1>7, <2>3
  <2>4. CASE j \in Added /\ k \in EntryNumbers
    BY <1>6, <1>7, <2>4
  <2> QED
    BY <1>1, <2>1, <2>2, <2>3, <2>4
<1>8. ASSUME NEW i \in EntryNumbers', IsPayment(ledger', i), ~ledger'[i].posted
      PROVE  \E j \in EntryNumbers' : IsReturn(ledger', j) /\ ledger'[j].reversalOf = i
  <2>1. i \in EntryNumbers
    BY <1>1, <1>8 DEF Answers
  <2>2. IsPayment(ledger, i)
    BY <1>2, <1>8, <2>1
  <2>3. CASE i \in S
    <3>1. PICK j \in Added : Mirrors(j, i)
      BY <2>2, <2>3 DEF Answers
    <3>2. IsReturn(ledger', j) /\ ledger'[j].reversalOf = i
      BY <2>2, <3>1 DEF IsReturn, IsPayment, Mirrors
    <3> QED
      BY <1>1, <3>2
  <2>4. CASE i \notin S
    <3>1. ~ledger[i].posted
      BY <1>1, <1>8, <2>1, <2>4
    <3>2. PICK j \in EntryNumbers : IsReturn(ledger, j) /\ ledger[j].reversalOf = i
      BY <2>1, <2>2, <3>1 DEF ReturnsInv
    <3> QED
      BY <1>1, <1>2, <3>2
  <2> QED
    BY <2>3, <2>4
<1> QED
  BY <1>1, <1>4, <1>5, <1>7, <1>8 DEF ReturnsInv

LEMMA ApartAnswers == Apart => \E S : Answers(S)
<1> SUFFICES ASSUME Apart PROVE \E S : Answers(S)
  OBVIOUS
<1>1. PICK S : /\ Keeps(S) /\ \A i \in S : ledger[i].type # "customer_payment"
               /\ \A j \in Added : \/ ledger'[j].type \notin {"customer_payment", "reversal"}
                                   \/ \E i \in S : Mirrors(j, i)
  BY DEF Apart
<1>2. \A j \in Added : ~IsPayment(ledger', j) /\ ~IsReturn(ledger', j)
  BY <1>1 DEF Mirrors, IsPayment, IsReturn
<1>3. \A i \in S : ~IsPayment(ledger, i)
  BY <1>1 DEF IsPayment
<1>4. \A j \in Added : ledger'[j].type = "reversal" => \E i \in S : Mirrors(j, i)
  BY <1>1
<1> QED
  BY <1>1, <1>2, <1>3, <1>4 DEF Answers

LEMMA PaymentAnswers == ASSUME NEW n, CustomerPays(n) PROVE Answers({})
BY DEF CustomerPays, Answers, IsReturn, IsPayment

LEMMA ReturnAnswers == ASSUME NEW i, Returns(i) PROVE Answers({i})
<1> DEFINE z == Len(ledger) + 1
<1>1. Keeps({i}) /\ Added = {z} /\ Mirrors(z, i) /\ ledger[i].posted
  BY DEF Returns
<1> HIDE DEF z
<1>2. ~IsPayment(ledger', z)
  BY <1>1 DEF Mirrors, IsPayment
<1> QED
  BY <1>1, <1>2 DEF Answers

\* The report's first read has the payments and the reversals of its period.
LEMMA NetIs ==
    ASSUME LedgerOK, DaysInv, NEW from \in Days, NEW to \in Days
    PROVE  NetCustomerPayments(from, to) = AmountsOf(ledger, PaymentsOf(ledger, from..to))
                                           - AmountsOf(ledger, ReturnsOf(ledger, from..to))
<1> DEFINE D == from..to
           v == [d \in D |-> daily[d].payments - daily[d].paymentReversals]
           P(T) == PaymentsOf(ledger, T)
           R(T) == ReturnsOf(ledger, T)
           Good == {T \in SUBSET D : Total(v, T) = AmountsOf(ledger, P(T)) - AmountsOf(ledger, R(T))}
<1>1. from \in Int /\ to \in Int /\ D \subseteq Days
  BY BoundAssumption DEF Days
<1>2. IsFiniteSet(D)
  BY <1>1, FS_Interval
<1>3. NetCustomerPayments(from, to) = Total(v, D)
  <2>1. NetCustomerPayments(from, to) = SumFunction(v)
    BY DEF NetCustomerPayments
  <2>2. DOMAIN v = D
    OBVIOUS
  <2> HIDE DEF v, D
  <2> QED
    BY <2>1, <2>2, SumIsTotal
<1>4. ASSUME NEW d \in D
      PROVE  /\ v[d] = AmountsOf(ledger, P({d})) - AmountsOf(ledger, R({d})) /\ v[d] \in Int
  <2>1. d \in Days /\ v[d] = daily[d].payments - daily[d].paymentReversals
    BY <1>1
  <2>2. daily[d].payments \in Nat /\ daily[d].paymentReversals \in Nat
    BY <2>1 DEF DaysInv, SummariesOK, Summary
  <2>3. /\ daily[d].payments = AmountsOf(ledger, P({d}))
        /\ daily[d].paymentReversals = AmountsOf(ledger, R({d}))
    BY <2>1 DEF DaysInv
  <2> HIDE DEF v, P, R
  <2> QED
    BY <2>1, <2>2, <2>3
<1>5. Weighs(v, D)
  BY <1>2, <1>4 DEF Weighs
<1> HIDE DEF v, D
<1>6. {} \in Good
  <2>1. P({}) = {} /\ R({}) = {}
    BY DEF PaymentsOf, ReturnsOf
  <2>2. Total(v, {}) = 0 /\ AmountsOf(ledger, {}) = 0
    BY TotalEmpty, AmountsEmpty
  <2> HIDE DEF P, R
  <2> QED
    BY <2>1, <2>2
<1>7. ASSUME NEW T \in SUBSET D, NEW x \in D, T \in Good, x \notin T PROVE T \cup {x} \in Good
  <2> DEFINE U == T \cup {x}
  <2>1. Total(v, U) = Total(v, T) + v[x]
    BY <1>5, <1>7, WeighedAdds
  <2>2. /\ P(U) \subseteq EntryNumbers /\ P(T) \subseteq P(U) /\ P(U) \ P(T) = P({x})
        /\ R(U) \subseteq EntryNumbers /\ R(T) \subseteq R(U) /\ R(U) \ R(T) = R({x})
    BY <1>7 DEF PaymentsOf, ReturnsOf, EntryNumbers
  <2> HIDE DEF P, R
  <2>3. AmountsOf(ledger, P(U)) = AmountsOf(ledger, P(T)) + AmountsOf(ledger, P(U) \ P(T))
    BY <2>2, AmountsParted
  <2>4. AmountsOf(ledger, R(U)) = AmountsOf(ledger, R(T)) + AmountsOf(ledger, R(U) \ R(T))
    BY <2>2, AmountsParted
  <2>5. /\ AmountsOf(ledger, P(T)) \in Nat /\ AmountsOf(ledger, P({x})) \in Nat
        /\ AmountsOf(ledger, R(T)) \in Nat /\ AmountsOf(ledger, R({x})) \in Nat
    <3>1. /\ P(T) \subseteq EntryNumbers /\ P({x}) \subseteq EntryNumbers
          /\ R(T) \subseteq EntryNumbers /\ R({x}) \subseteq EntryNumbers
      BY <2>2
    <3> QED
      BY <3>1, SomeEntries
  <2>6. Total(v, T) = AmountsOf(ledger, P(T)) - AmountsOf(ledger, R(T))
    BY <1>7
  <2>7. v[x] = AmountsOf(ledger, P({x})) - AmountsOf(ledger, R({x}))
    BY <1>4 DEF P, R
  <2>8. Total(v, U) = AmountsOf(ledger, P(U)) - AmountsOf(ledger, R(U))
    <3> HIDE DEF U
    <3> DEFINE a == AmountsOf(ledger, P(T))
               b == AmountsOf(ledger, P({x}))
               c == AmountsOf(ledger, R(T))
               d == AmountsOf(ledger, R({x}))
    <3>1. a \in Nat /\ b \in Nat /\ c \in Nat /\ d \in Nat
      BY <2>5
    <3>2. AmountsOf(ledger, P(U)) = a + b /\ AmountsOf(ledger, R(U)) = c + d
      BY <2>2, <2>3, <2>4
    <3>3. Total(v, U) = (a - c) + (b - d)
      BY <2>1, <2>6, <2>7
    <3> HIDE DEF a, b, c, d
    <3> QED
      BY <3>1, <3>2, <3>3
  <2> QED
    BY <2>8
<1> HIDE DEF Good
<1>8. D \in Good
  BY <1>2, <1>6, <1>7, FiniteInduction
<1> QED
  BY <1>3, <1>8 DEF Good, D

\* A report that was begun is not changed by what is posted meanwhile.
LEMMA ReportStays ==
    ASSUME LedgerOK, ReportInv, report' = report, NEW S, Keeps(S)
    PROVE  ReportInv'
<1> SUFFICES ASSUME report.open PROVE ReportInv'
  BY DEF ReportInv
<1> DEFINE at == report.at
           D == report.from..report.to
           P(l) == PaymentsTo(l, at, D)
           R(l) == ReturnsTo(l, at, D)
<1>1. /\ report.from \in Days /\ report.to \in Days
      /\ at \in Nat /\ at <= Len(ledger)
      /\ report.revenue = AmountsOf(ledger, P(ledger)) - AmountsOf(ledger, R(ledger))
  BY DEF ReportInv
<1>2. /\ EntryNumbers' = EntryNumbers \cup Added
      /\ \A j \in EntryNumbers : /\ ledger'[j].type = ledger[j].type /\ ledger'[j].day = ledger[j].day
                                 /\ ledger'[j].reversalOfType = ledger[j].reversalOfType
  BY EntriesAfter
<1>3. /\ Len(ledger) \in Nat /\ EntryNumbers = 1..Len(ledger) /\ ledger' \in Seq(Entry)
  BY DayNumber DEF Keeps, Turns
<1>4. Len(ledger') \in Nat /\ DOMAIN ledger' = 1..Len(ledger') /\ EntryNumbers' = DOMAIN ledger'
  BY <1>3, LenProperties DEF EntryNumbers
<1>5. at <= Len(ledger')
  BY <1>1, <1>2, <1>3, <1>4
<1>6. \A j \in EntryNumbers' : j <= at => j \in EntryNumbers
  BY <1>1, <1>3, <1>4
<1>7. P(ledger') = P(ledger)
  BY <1>2, <1>6 DEF PaymentsTo, PaymentsOf, IsPayment, EntryNumbers
<1>8. R(ledger') = R(ledger)
  BY <1>2, <1>6 DEF ReturnsTo, ReturnsOf, IsReturn, EntryNumbers
<1>9. P(ledger) \subseteq EntryNumbers /\ R(ledger) \subseteq EntryNumbers
  BY DEF PaymentsTo, ReturnsTo, PaymentsOf, ReturnsOf, EntryNumbers
<1> HIDE DEF P, R
<1>10. /\ AmountsOf(ledger', P(ledger)) = AmountsOf(ledger, P(ledger))
       /\ AmountsOf(ledger', R(ledger)) = AmountsOf(ledger, R(ledger))
  BY <1>9, EntriesWorth
<1>11. report.revenue = AmountsOf(ledger', P(ledger')) - AmountsOf(ledger', R(ledger'))
  BY <1>1, <1>7, <1>8, <1>10
<1> QED
  BY <1>1, <1>5, <1>11 DEF ReportInv, P, R

LEMMA ReportRead ==
    ASSUME LedgerOK, DaysInv, ReportsStep
    PROVE  ReportInv' /\ UNCHANGED financeVars
<1>1. CASE ReadPayments
  BY <1>1 DEF ReadPayments, NoReport, ReportInv
<1>2. ASSUME NEW p \in ReportPeriods, ReadSummaries(p[1], p[2])
      PROVE  ReportInv' /\ UNCHANGED financeVars
  <2> DEFINE from == p[1]
             to == p[2]
             P == PaymentsOf(ledger, from..to)
             R == ReturnsOf(ledger, from..to)
  <2>1. from \in Days /\ to \in Days
    BY DEF ReportPeriods
  <2>2. /\ report'.from = from /\ report'.to = to
        /\ report'.at = Len(ledger) /\ report'.revenue = NetCustomerPayments(from, to)
        /\ ledger' = ledger /\ UNCHANGED financeVars
    BY <1>2 DEF ReadSummaries, financeVars
  <2>3. NetCustomerPayments(from, to) = AmountsOf(ledger, P) - AmountsOf(ledger, R)
    BY <2>1, NetIs
  <2>4. EntryNumbers = 1..Len(ledger) /\ Len(ledger) \in Nat
    BY DayNumber
  <2>5. PaymentsTo(ledger, Len(ledger), from..to) = P /\ ReturnsTo(ledger, Len(ledger), from..to) = R
    BY <2>4 DEF PaymentsTo, ReturnsTo, PaymentsOf, ReturnsOf, EntryNumbers
  <2> HIDE DEF from, to, P, R
  <2>6. /\ report'.from \in Days /\ report'.to \in Days
        /\ report'.at \in Nat /\ report'.at <= Len(ledger')
        /\ report'.revenue = AmountsOf(ledger', PaymentsTo(ledger', report'.at, report'.from..report'.to))
                             - AmountsOf(ledger', ReturnsTo(ledger', report'.at, report'.from..report'.to))
    BY <2>1, <2>2, <2>3, <2>4, <2>5
  <2> QED
    BY <2>2, <2>6 DEF ReportInv
<1> QED
  BY <1>1, <1>2 DEF ReportsStep

\* What a payment posts is an entry, if the ledger it is in has only entries.
LEMMA PostedIsEntry ==
    ASSUME LedgerOK, LedgerOK', NEW accts, NEW t \in PostingTypes, NEW n, NEW from, NEW to, NEW d, NEW q,
           Commit(accts, ledger, [NewEntry(t, n, from, to) EXCEPT !.about = d, !.request = q])
    PROVE  [NewEntry(t, n, from, to) EXCEPT !.about = d, !.request = q] \in Entry
<1> DEFINE e == [NewEntry(t, n, from, to) EXCEPT !.about = d, !.request = q]
           f == [e EXCEPT !.day = day]
<1>1. ledger \in Seq(Entry) /\ ledger' \in Seq(Entry) /\ ledger' = Append(ledger, f)
  BY DEF LedgerOK, Commit
<1> HIDE DEF f
<1>2. f \in Entry
  <2>1. /\ DOMAIN Append(ledger, f) = 1..(Len(ledger) + 1) /\ Append(ledger, f)[Len(ledger) + 1] = f
        /\ Len(ledger) \in Nat
    <3>1. IsSequence(ledger)
      BY <1>1 DEF IsSequence
    <3> QED
      BY <3>1, AppendAny
  <2>2. Len(ledger) + 1 \in DOMAIN ledger'
    BY <1>1, <2>1
  <2>3. ledger'[Len(ledger) + 1] \in Entry
    BY <1>1, <2>2, OneOf
  <2> QED
    BY <1>1, <2>1, <2>3
<1>3. /\ n \in Amount /\ from \in AccountIds \cup {None} /\ to \in AccountIds \cup {None}
      /\ d \in Nat /\ q \in RequestIds \cup {None}
  <2>1. /\ f.amount = n /\ f.from = from /\ f.to = to /\ f.about = d /\ f.request = q
    BY DEF f, NewEntry
  <2>2. /\ f.amount \in Amount /\ f.from \in AccountIds \cup {None} /\ f.to \in AccountIds \cup {None}
        /\ f.about \in Nat /\ f.request \in RequestIds \cup {None}
    BY <1>2 DEF Entry
  <2> QED
    BY <2>1, <2>2
<1> QED
  BY <1>3, NewEntryType

LEMMA PaymentApart ==
    ASSUME LedgerOK, SummariesOK, LedgerOK', NEW accts,
           NEW t \in PostingTypes, t # "customer_payment", NEW n, NEW from, NEW to, NEW d, NEW q,
           Commit(accts, ledger, [NewEntry(t, n, from, to) EXCEPT !.about = d, !.request = q])
    PROVE  Apart
<1> DEFINE e == [NewEntry(t, n, from, to) EXCEPT !.about = d, !.request = q]
<1>1. e \in Entry
  BY PostedIsEntry
<1>2. e.type = t
  BY DEF NewEntry
<1>3. t # "reversal"
  BY DEF PostingTypes, PayTypes, OwnershipTypes
<1>4. Commit(accts, ledger, e)
  OBVIOUS
<1> HIDE DEF e
<1> QED
  BY <1>1, <1>2, <1>3, <1>4, PostApart

LEMMA PostForApart ==
    ASSUME LedgerOK, SummariesOK, LedgerOK', NEW r, NEW t \in PostingTypes, t # "customer_payment",
           NEW n, NEW from, NEW to, NEW d, PostFor(r, t, n, from, to, d)
    PROVE  Apart
<1>1. Commit(accounts, ledger, [NewEntry(t, n, from, to) EXCEPT !.about = d, !.request = r])
  BY DEF PostFor, Post
<1> QED
  BY <1>1, PaymentApart

\* What a document says paid for it is an entry of its type.
LEMMA ClaimIs ==
    ASSUME NEW t, NEW c, Settled(ledger, t, c), NEW d \in DOMAIN c, c[d].txn # 0
    PROVE  c[d].txn \in EntryNumbers /\ ledger[c[d].txn].type = t
BY DEF Settled, LiveIn, EntryNumbers

LEMMA EntryReversedApart ==
    ASSUME LedgerOK, SummariesOK, NEW i \in EntryNumbers, ledger[i].type # "customer_payment",
           ReverseEntry(i) \/ ReverseTransaction(i)
    PROVE  Apart
<1>1. PostReversal(accounts, i) \/ PostReversal(Reopened(accounts, ledger[i]), i)
  BY DEF ReverseEntry, ReverseTransaction
<1>2. CASE PostReversal(accounts, i)
  BY <1>2, ReversalApart
<1>3. CASE PostReversal(Reopened(accounts, ledger[i]), i)
  BY <1>3, ReversalApart
<1> QED
  BY <1>1, <1>2, <1>3

\* No desk takes or returns a customer's payment.
LEMMA SpendingApart ==
    ASSUME LedgerOK, SummariesOK, LedgerOK', SpendingStep
    PROVE  Apart
<1>1. \/ ledger' = ledger /\ daily' = daily
      \/ \E r, n, a, d : PostFor(r, "expense_payment", n, a, None, d)
  BY DEF SpendingStep, CreateExpenseCategory, UpdateExpenseCategory, CreateExpense, CreateRecurringExpense,
         UpdateExpense, UpdateExpenseStatus, PayExpense, UpdateRecurringExpense, SweepRecurring,
         ReminderTimeComes, PayOut, financeVars
<1>2. "expense_payment" \in PostingTypes /\ "expense_payment" # "customer_payment"
  BY DEF PostingTypes
<1> QED
  BY <1>1, <1>2, UntouchedApart, PostForApart

LEMMA StockApart ==
    ASSUME LedgerOK, SummariesOK, LedgerOK', StockStep
    PROVE  Apart
<1>1. \/ ledger' = ledger /\ daily' = daily
      \/ \E r, n, a, d : PostFor(r, "inventory_purchase_payment", n, a, None, d)
  BY DEF StockStep, CreateInventoryItem, UpdateInventoryItem, RecordStockMovement, AdjustStock,
         ReverseStockMovement, CreateSupplier, UpdateSupplier, CreatePurchase, ApprovePurchase,
         CancelPurchase, ReceivePurchase, ReceiveAndPay, PayPurchase, PayOut, financeVars
<1>2. "inventory_purchase_payment" \in PostingTypes /\ "inventory_purchase_payment" # "customer_payment"
  BY DEF PostingTypes
<1> QED
  BY <1>1, <1>2, UntouchedApart, PostForApart

LEMMA AllowanceApart ==
    ASSUME LedgerOK, SummariesOK, LedgerOK', AllowanceStep
    PROVE  Apart
<1>1. \/ ledger' = ledger /\ daily' = daily
      \/ \E r, n, a, d : PostFor(r, "allowance_payment", n, a, None, d)
      \/ \E i \in EntryNumbers : ledger[i].type = "allowance_payment" /\ ReverseEntry(i)
  BY DEF AllowanceStep, RecordAttendance, CorrectAttendance, ClockOut, VerifyAttendance, CalculateAllowance,
         ReviewAllowance, Decide, CancelAllowance, PayAllowances, ReverseAllowancePayment, PayOut, financeVars
<1>2. "allowance_payment" \in PostingTypes /\ "allowance_payment" # "customer_payment"
  BY DEF PostingTypes, PayTypes
<1> QED
  BY <1>1, <1>2, UntouchedApart, PostForApart, EntryReversedApart

LEMMA PayrollApart ==
    ASSUME LedgerOK, SummariesOK, LedgerOK', PayInv, PayrollStep
    PROVE  Apart
<1>1. ASSUME NEW r, NEW p, NEW a, PayPayroll(r, p, a) PROVE Apart
  <2>1. PostFor(r, "payroll_payment", payrolls[p].total, a, None, p) \/ (ledger' = ledger /\ daily' = daily)
    BY <1>1 DEF PayPayroll, PayOut, NothingToPay
  <2>2. "payroll_payment" \in PostingTypes /\ "payroll_payment" # "customer_payment"
    BY DEF PostingTypes, PayTypes
  <2> QED
    BY <2>1, <2>2, UntouchedApart, PostForApart
<1>2. ASSUME NEW p \in DOMAIN payrolls, ReversePayrollPayment(p) PROVE Apart
  <2>1. \/ payrolls[p].txn # 0 /\ ReverseEntry(payrolls[p].txn)
        \/ ledger' = ledger /\ daily' = daily
    BY <1>2 DEF ReversePayrollPayment, financeVars
  <2> DEFINE c == PayrollClaims(payrolls)
  <2>2. /\ Settled(ledger, "payroll_payment", c) /\ p \in DOMAIN c
        /\ c[p].txn = payrolls[p].txn
    BY DEF PayInv, PayrollClaims
  <2> HIDE DEF c
  <2>3. payrolls[p].txn # 0 => /\ payrolls[p].txn \in EntryNumbers
                               /\ ledger[payrolls[p].txn].type # "customer_payment"
    BY <2>2, ClaimIs
  <2> QED
    BY <2>1, <2>3, UntouchedApart, EntryReversedApart
<1>3. PayrollStep => \/ ledger' = ledger /\ daily' = daily
                     \/ \E p, r, a : PayPayroll(r, p, a)
                     \/ \E p \in DOMAIN payrolls : ReversePayrollPayment(p)
  BY DEF PayrollStep, CreatePayroll, PreparePayroll, CorrectPayroll, CancelPayroll, LockPayroll,
         UpdatePayrollStatus, Calculate, NotPayroll, financeVars
<1> QED
  BY <1>1, <1>2, <1>3, UntouchedApart

LEMMA LossesUntouched ==
    LossStep \/ DeductionStep \/ EarningStep \/ SalaryStep => ledger' = ledger /\ daily' = daily
<1>1. LossStep => ledger' = ledger /\ daily' = daily
  BY DEF LossStep, CreateLossIncident, ReviewLossIncident, RejectLossIncident, CancelLossIncident,
         ApproveLossIncident, ScheduleLossRecovery, CancelSalaryDeduction, NotLosses, financeVars
<1>2. DeductionStep => ledger' = ledger /\ daily' = daily
  BY DEF DeductionStep, CreateSalaryDeduction, DecideSalaryDeduction, CancelSalaryDeduction, NotLosses,
         financeVars
<1>3. EarningStep => ledger' = ledger /\ daily' = daily
  BY DEF EarningStep, AddPayrollEarning, RemovePayrollEarning, Calculate, NotPayroll, financeVars
<1>4. SalaryStep => ledger' = ledger /\ daily' = daily
  BY DEF SalaryStep, SetSalaryProfile, financeVars
<1> QED
  BY <1>1, <1>2, <1>3, <1>4

LEMMA PayApart ==
    ASSUME LedgerOK, SummariesOK, LedgerOK', PayInv, PayStep
    PROVE  Apart
<1>1. \/ Hiring \/ AllowanceStep \/ LossStep \/ DeductionStep \/ EarningStep
      \/ PayrollStep \/ SalaryStep
  BY DEF PayStep
<1>2. CASE Hiring
  <2>1. ledger' = ledger /\ daily' = daily
    BY <1>2 DEF Hiring, SetSalaryProfile, financeVars
  <2> QED
    BY <2>1, UntouchedApart
<1>3. CASE LossStep \/ DeductionStep \/ EarningStep \/ SalaryStep
  BY <1>3, LossesUntouched, UntouchedApart
<1> QED
  BY <1>1, <1>2, <1>3, AllowanceApart, PayrollApart

\* Money for shares comes in as capital, or there is none.
CapitalTaken ==
    \/ ledger' = ledger /\ daily' = daily
    \/ \E n, a, r : Post(PaidIn(n, a, r))

LEMMA PostSharesTakes == ASSUME NEW t, NEW k, NEW r, PostShares(t, k, r) PROVE CapitalTaken
BY DEF PostShares, TakeContribution, CapitalTaken

LEMMA SubmitTakes == ASSUME NEW r, NEW t, NEW policy, Submit(r, t, policy) PROVE CapitalTaken
BY PostSharesTakes DEF Submit, CapitalTaken

LEMMA SharesTake ==
    SharesStep \/ CorrectionStep =>
        CapitalTaken \/ \E r, k : k \in DOMAIN shareTxns /\ ReverseShareTransaction(r, k)
<1>1. ASSUME NEW r, NEW h, NEW c, NEW n, NEW effective, NEW source, NEW payment, NEW a, NEW policy,
             IssueShares(r, h, c, n, effective, source, payment, a, policy)
      PROVE  CapitalTaken
  BY <1>1, SubmitTakes DEF IssueShares
<1>2. ASSUME NEW r, NEW from, NEW to, NEW c, NEW n, NEW effective, NEW policy,
             TransferShares(r, from, to, c, n, effective, policy)
      PROVE  CapitalTaken
  BY <1>2, SubmitTakes DEF TransferShares
<1>3. ASSUME NEW r, NEW h, NEW c, NEW delta, NEW commitment, NEW effective, NEW policy,
             AdjustShares(r, h, c, delta, commitment, effective, policy)
      PROVE  CapitalTaken
  BY <1>3, SubmitTakes DEF AdjustShares
<1>4. ASSUME NEW k, NEW policy, ApproveShareTransaction(k, policy) PROVE CapitalTaken
  BY <1>4, PostSharesTakes DEF ApproveShareTransaction
<1>5. ASSUME NEW k, RejectShareTransaction(k) PROVE CapitalTaken
  BY <1>5 DEF RejectShareTransaction, CapitalTaken, financeVars
<1>6. CorrectionStep => CapitalTaken
  BY <1>3 DEF CorrectionStep
<1>7. SharesStep => CapitalTaken \/ \E r, k : k \in DOMAIN shareTxns /\ ReverseShareTransaction(r, k)
  BY <1>1, <1>2, <1>4, <1>5 DEF SharesStep
<1> QED
  BY <1>6, <1>7

LEMMA CapitalApart ==
    ASSUME LedgerOK, SummariesOK, LedgerOK', CapitalTaken
    PROVE  Apart
<1>1. ASSUME NEW n, NEW a, NEW r, Post(PaidIn(n, a, r)) PROVE Apart
  <2>1. Commit(accounts, ledger,
               [NewEntry("share_capital_contribution", n, None, a) EXCEPT
                   !.about = Len(contributions) + 1, !.request = r])
    BY <1>1 DEF Post, PaidIn
  <2>2. "share_capital_contribution" \in PostingTypes /\ "share_capital_contribution" # "customer_payment"
    BY DEF PostingTypes, OwnershipTypes
  <2> QED
    BY <2>1, <2>2, PaymentApart
<1> QED
  BY <1>1, UntouchedApart DEF CapitalTaken

\* The entry of a contribution that stands.
LEMMA ContributionEntry ==
    ASSUME SharesInv, NEW j \in DOMAIN contributions, contributions[j].posted, contributions[j].entry # 0
    PROVE  /\ contributions[j].entry \in EntryNumbers
           /\ ledger[contributions[j].entry].type # "customer_payment"
<1> DEFINE c == ContributionClaims(contributions)
<1>1. /\ Settled(ledger, CapitalType, c) /\ j \in DOMAIN c
      /\ c[j].txn = contributions[j].entry
  BY DEF SharesInv, ContributionClaims
<1> HIDE DEF c
<1>2. contributions[j].entry \in EntryNumbers /\ ledger[contributions[j].entry].type = CapitalType
  BY <1>1, ClaimIs
<1> QED
  BY <1>2 DEF CapitalType

LEMMA SharesReversedApart ==
    ASSUME LedgerOK, SummariesOK, SharesInv, NEW r, NEW k, ReverseShareTransaction(r, k)
    PROVE  Apart
<1> DEFINE T == TakenBack(k)
           S == {contributions[j].entry : j \in T} \ {0}
<1>1. ReverseAll(S)
  BY DEF ReverseShareTransaction
<1>2. \A j \in T : j \in DOMAIN contributions /\ contributions[j].posted
  BY DEF TakenBack, LiveContributions
<1> HIDE DEF T
<1>3. ASSUME NEW i \in S PROVE i \in EntryNumbers /\ ledger[i].type # "customer_payment"
  <2>1. PICK j \in T : i = contributions[j].entry /\ i # 0
    OBVIOUS
  <2> QED
    BY <1>2, <2>1, ContributionEntry
<1> HIDE DEF S
<1>4. S \subseteq EntryNumbers /\ \A i \in S : ledger[i].type # "customer_payment"
  BY <1>3
<1> QED
  BY <1>1, <1>4, AllReversedApart

LEMMA ContributionApart ==
    ASSUME LedgerOK, SummariesOK, LedgerOK', SharesInv, ContributionStep
    PROVE  Apart
<1>1. ASSUME NEW r, NEW k, NEW n, NEW source, NEW a, NEW policy,
             RecordShareContribution(r, k, n, source, a, policy)
      PROVE  Apart
  <2>1. CapitalTaken
    BY <1>1 DEF RecordShareContribution, TakeContribution, CapitalTaken
  <2> QED
    BY <2>1, CapitalApart
<1>2. ASSUME NEW j \in DOMAIN contributions, ReverseShareContribution(j) PROVE Apart
  <2>1. /\ contributions[j].posted
        /\ \/ contributions[j].entry # 0 /\ ReverseEntry(contributions[j].entry)
           \/ ledger' = ledger /\ daily' = daily
    BY <1>2 DEF ReverseShareContribution, financeVars
  <2> QED
    BY <2>1, ContributionEntry, UntouchedApart, EntryReversedApart
<1> QED
  BY <1>1, <1>2 DEF ContributionStep

LEMMA DividendsPaidApart ==
    ASSUME LedgerOK, SummariesOK, DividendsInv, NEW r, NEW k, NEW a \in AccountIds, NEW batch,
           PayDividend(r, k, batch, a)
    PROVE  Apart
<1> DEFINE order == SetToSeq(batch)
           n == Cardinality(batch)
           es == [i \in DOMAIN order |->
                     [NewEntry("dividend_payment", allocations[order[i]].net, a, None) EXCEPT
                         !.about = order[i]]]
<1>1. batch \subseteq StillUnpaid(k) /\ PostAll(ledger, es)
  BY DEF PayDividend
<1>2. allocations \in Seq(Allocation)
  BY DEF DividendsInv, DividendsShape
<1>3. batch \subseteq DOMAIN allocations /\ \A j \in batch : allocations[j].net > 0
  BY <1>1 DEF StillUnpaid, PaysOut, Current
<1>4. \A j \in batch : j \in Nat /\ allocations[j].net \in Amount
  <2> SUFFICES ASSUME NEW j \in batch PROVE j \in Nat /\ allocations[j].net \in Amount
    OBVIOUS
  <2>1. allocations[j] \in Allocation /\ j \in Nat /\ allocations[j].net > 0
    BY <1>2, <1>3, OneOf
  <2> QED
    BY <2>1 DEF Allocation, Amount
<1>5. IsFiniteSet(batch)
  BY <1>2, <1>3, SomeAllocations
<1>6. Enumerates(order, batch) /\ n \in Nat
  BY <1>5, SetListed, FS_CardinalityType
<1>7. DOMAIN order = 1..n /\ \A i \in 1..n : order[i] \in batch
  BY <1>6 DEF Enumerates
<1> HIDE DEF order, n
<1>8. /\ DOMAIN es = 1..n
      /\ \A i \in 1..n : es[i] = [NewEntry("dividend_payment", allocations[order[i]].net, a, None)
                                     EXCEPT !.about = order[i]]
  BY <1>7
<1> HIDE DEF es
<1>9. \A i \in 1..n : PaysFor(es[i], order[i], allocations[order[i]].net)
  BY <1>4, <1>7, <1>8, PayingEntry
<1>10. \A i \in 1..n : es[i] \in Entry /\ es[i].type = "dividend_payment"
  BY <1>9 DEF PaysFor, DividendType
<1>11. Batch(es, n) /\ \A i \in 1..n : es[i].type \notin {"customer_payment", "reversal"}
  BY <1>6, <1>8, <1>10 DEF Batch
<1> QED
  BY <1>1, <1>11, BatchApart

LEMMA DividendsApart ==
    ASSUME LedgerOK, SummariesOK, DividendsInv, DividendsStep \/ AmendStep
    PROVE  Apart
<1>1. \/ ledger' = ledger /\ daily' = daily
      \/ \E k, r, batch : \E a \in AccountIds : PayDividend(r, k, batch, a)
      \/ \E j \in DOMAIN allocations : ReverseDividendPayment(j)
  BY DEF DividendsStep, AmendStep, CreateDividend, UpdateDividend, CalculateDividend, CancelDividend,
         UpdateDividendStatus, NotDividends, financeVars
<1>2. ASSUME NEW j \in DOMAIN allocations, ReverseDividendPayment(j) PROVE Apart
  <2> DEFINE c == DividendClaims(allocations)
  <2>1. allocations[j].entry # 0 /\ ReverseEntry(allocations[j].entry)
    BY <1>2 DEF ReverseDividendPayment
  <2>2. /\ Settled(ledger, DividendType, c) /\ j \in DOMAIN c
        /\ c[j].txn = allocations[j].entry
    BY DEF DividendsInv, DividendClaims
  <2> HIDE DEF c
  <2>3. allocations[j].entry \in EntryNumbers /\ ledger[allocations[j].entry].type = DividendType
    BY <2>1, <2>2, ClaimIs
  <2> QED
    BY <2>1, <2>3, EntryReversedApart DEF DividendType
<1> QED
  BY <1>1, <1>2, UntouchedApart, DividendsPaidApart

LEMMA OwnershipApart ==
    ASSUME LedgerOK, SummariesOK, LedgerOK', OwnershipInv,
           \/ SharesStep \/ CorrectionStep \/ ContributionStep
           \/ ClassStep \/ RegisterChange
           \/ \E h \in Holders : CreateShareholder(h)
           \/ DividendsStep \/ AmendStep
    PROVE  Apart
<1>1. SharesInv /\ DividendsInv
  BY DEF OwnershipInv
<1>2. CASE SharesStep \/ CorrectionStep
  BY <1>1, <1>2, SharesTake, CapitalApart, SharesReversedApart
<1>3. CASE ContributionStep
  BY <1>1, <1>3, ContributionApart
<1>4. CASE ClassStep \/ RegisterChange \/ \E h \in Holders : CreateShareholder(h)
  <2>1. ledger' = ledger /\ daily' = daily
    BY <1>4 DEF ClassStep, RegisterChange, CreateShareholder, CreateShareClass, UpdateShareClass,
                SetShareholderStatus, financeVars
  <2> QED
    BY <2>1, UntouchedApart
<1>5. CASE DividendsStep \/ AmendStep
  BY <1>1, <1>5, DividendsApart
<1> QED
  BY <1>2, <1>3, <1>4, <1>5

\* A customer's payment, and its reversal.
LEMMA PaymentTaken ==
    ASSUME LedgerOK, SummariesOK, Payments
    PROVE  \E n \in Nat : CustomerPays(n)
<1>1. PICK n \in Amounts, a \in AccountIds : Post(NewEntry("customer_payment", n, None, a))
  BY DEF Payments, PostCustomerPayment
<1> DEFINE e == NewEntry("customer_payment", n, None, a)
           z == Len(ledger) + 1
           f == [e EXCEPT !.day = day]
<1>2. "customer_payment" \in PostingTypes /\ n \in Amount /\ n \in Nat
  BY BoundAssumption DEF PostingTypes, Amount
<1>3. e \in Entry
  BY <1>2, NewEntryType
<1>4. e.posted /\ e.type = "customer_payment" /\ e.amount = n
  BY DEF NewEntry
<1>5. Commit(accounts, ledger, e)
  BY <1>1 DEF Post
<1> HIDE DEF e
<1>6. Keeps({}) /\ Added = {z} /\ ledger'[z] = f
  BY <1>3, <1>5, MarksNone, CommitKeeps
<1>7. f.day = day /\ f.type = e.type /\ f.amount = e.amount /\ f.posted = e.posted
  BY <1>3, DatedFields
<1>8. SummaryAdds(n, 0)
  <2>1. SummaryAdds(IF e.type = "customer_payment" THEN e.amount ELSE 0,
                    IF e.type = "reversal" /\ e.reversalOfType = "customer_payment" THEN e.amount ELSE 0)
    BY <1>3, <1>5, CommitSummary
  <2> QED
    BY <1>4, <2>1
<1> HIDE DEF f
<1> QED
  BY <1>2, <1>4, <1>6, <1>7, <1>8 DEF CustomerPays

LEMMA PaymentReturned ==
    ASSUME LedgerOK, SummariesOK, NEW i \in EntryNumbers, ReverseCustomerPayment(i)
    PROVE  Returns(i)
<1>1. PostReversal(accounts, i) /\ ledger[i].type = "customer_payment"
  BY DEF ReverseCustomerPayment
<1>2. /\ Keeps({i}) /\ Added = {Len(ledger) + 1} /\ Mirrors(Len(ledger) + 1, i) /\ ledger[i].posted
      /\ SummaryAdds(0, ledger[i].amount)
  BY <1>1, MirrorPosted
<1> QED
  BY <1>1, <1>2 DEF Returns

LEMMA OpeningApart ==
    ASSUME LedgerOK, SummariesOK, OpenBusiness
    PROVE  Apart
<1> DEFINE e == NewEntry("opening_balance", Capital, None, Cash)
<1>1. "opening_balance" \in PostingTypes /\ Capital \in Amount /\ Cash \in AccountIds
  BY OfficeAssumption DEF PostingTypes, AccountIds, Defaults
<1>2. e \in Entry
  BY <1>1, NewEntryType
<1>3. e.type \notin {"customer_payment", "reversal"}
  BY DEF NewEntry
<1>4. PICK accts : Commit(accts, ledger, e)
  BY DEF OpenBusiness, RecordOpeningBalance
<1> HIDE DEF e
<1> QED
  BY <1>2, <1>3, <1>4, PostApart

\* Every step of the office with a report's first read kept takes a payment, returns
\* one, or does neither.
Takings == Apart \/ (\E n \in Nat : CustomerPays(n)) \/ (\E i : Returns(i))

LEMMA TakingsKept ==
    ASSUME LedgerOK, TakingsInv, Takings, report' = report
    PROVE  TakingsInv'
<1>0. DaysInv /\ ReturnsInv /\ ReportInv
  BY DEF TakingsInv
<1>1. PICK S : Answers(S)
  BY ApartAnswers, PaymentAnswers, ReturnAnswers DEF Takings
<1>2. ReturnsInv'
  BY <1>0, <1>1, ReturnsKept
<1>3. Keeps(S)
  BY <1>1 DEF Answers
<1>4. ReportInv'
  BY <1>0, <1>3, ReportStays
<1>5. DaysInv'
  BY <1>0, DaysApart, DaysTaken, DaysReturned DEF Takings
<1> QED
  BY <1>2, <1>4, <1>5 DEF TakingsInv

LEMMA TakingsRead ==
    ASSUME LedgerOK, TakingsInv, ReportsStep
    PROVE  TakingsInv'
<1>1. DaysInv /\ ReturnsInv /\ ReportInv
  BY DEF TakingsInv
<1>2. ReportInv' /\ UNCHANGED financeVars
  BY <1>1, ReportRead
<1>3. SummariesOK /\ ledger' = ledger /\ daily' = daily
  BY <1>1, <1>2 DEF DaysInv, financeVars
<1>4. Apart
  BY <1>3, UntouchedApart
<1>5. DaysInv'
  BY <1>1, <1>4, DaysApart
<1>6. PICK S : Answers(S)
  BY <1>4, ApartAnswers
<1>7. ReturnsInv'
  BY <1>1, <1>6, ReturnsKept
<1> QED
  BY <1>2, <1>5, <1>7 DEF TakingsInv

LEMMA OfficeTakings ==
    ASSUME LedgerOK, DesksInv, SummariesOK, [OfficeNext]_officeVars
    PROVE  (Takings /\ report' = report) \/ ReportsStep
<1>0. LedgerOK' /\ SpendingInv /\ StockInv /\ PayInv /\ OwnershipInv
  BY DesksNext DEF DesksInv
<1>1. CASE OpenBusiness
  <2>1. report' = report
    BY <1>1 DEF OpenBusiness
  <2> QED
    BY <1>1, <2>1, OpeningApart DEF Takings
<1>2. CASE /\ RecordsStep \/ ("people" \in busy /\ PeopleStep)
           /\ UNCHANGED financeVars /\ UNCHANGED report
  <2>1. ledger' = ledger /\ daily' = daily
    BY <1>2 DEF financeVars
  <2> QED
    BY <1>2, <2>1, UntouchedApart DEF Takings
<1>3. CASE Registration(OwnerPhones, Identifications) /\ UNCHANGED report
  BY <1>0, <1>3, RegistrationCreates, OwnershipApart DEF Takings
<1>4. CASE \E i \in EntryNumbers : ReverseSpending(i)
  <2>1. PICK i \in EntryNumbers : ReverseSpending(i)
    BY <1>4
  <2>2. ReverseTransaction(i) /\ report' = report
    BY <2>1 DEF ReverseSpending
  <2>3. ledger[i].type # "customer_payment"
    BY <2>2 DEF ReverseTransaction, ReversedElsewhere
  <2> QED
    BY <2>2, <2>3, EntryReversedApart DEF Takings
<1>5. CASE SpendingStep /\ UNCHANGED report
  BY <1>0, <1>5, SpendingApart DEF Takings
<1>6. CASE StockStep /\ UNCHANGED report
  BY <1>0, <1>6, StockApart DEF Takings
<1>7. CASE PayStep /\ UNCHANGED report
  BY <1>0, <1>7, PayApart DEF Takings
<1>8. CASE OwnershipStep /\ UNCHANGED report
  BY <1>0, <1>8, OwnershipStepCases, OwnershipApart DEF Takings
<1>9. CASE TakingsStep
  <2>1. CASE Payments /\ UNCHANGED report
    BY <2>1, PaymentTaken DEF Takings
  <2>2. CASE (\E i \in EntryNumbers : ReverseCustomerPayment(i)) /\ UNCHANGED report
    BY <2>2, PaymentReturned DEF Takings
  <2> QED
    BY <1>9, <2>1, <2>2 DEF TakingsStep
<1>10. CASE NextBusinessDay
  <2>1. ledger' = ledger /\ daily' = daily /\ report' = report
    BY <1>10 DEF NextBusinessDay, NextDay
  <2> QED
    BY <2>1, UntouchedApart DEF Takings
<1>11. CASE UNCHANGED officeVars
  <2>1. ledger' = ledger /\ daily' = daily /\ report' = report
    BY <1>11 DEF officeVars, financeVars
  <2> QED
    BY <2>1, UntouchedApart DEF Takings
<1> QED
  BY <1>1, <1>2, <1>3, <1>4, <1>5, <1>6, <1>7, <1>8, <1>9, <1>10, <1>11 DEF OfficeNext

LEMMA TakingsNext == LedgerOK /\ DesksInv /\ TakingsInv /\ [OfficeNext]_officeVars => TakingsInv'
<1> SUFFICES ASSUME LedgerOK, DesksInv, TakingsInv, [OfficeNext]_officeVars PROVE TakingsInv'
  OBVIOUS
<1>1. SummariesOK
  BY DEF TakingsInv, DaysInv
<1> QED
  BY <1>1, OfficeTakings, TakingsKept, TakingsRead

LEMMA TakingsFirst == OfficeInit => TakingsInv
<1> SUFFICES ASSUME OfficeInit PROVE TakingsInv
  OBVIOUS
<1>1. ledger = << >> /\ daily = [d \in Days |-> EmptySummary] /\ report = NoReport
  BY DEF OfficeInit, FinanceInit, ReportsInit
<1>2. DOMAIN ledger = {}
  BY <1>1
<1>3. \A D : PaymentsOf(ledger, D) = {} /\ ReturnsOf(ledger, D) = {}
  BY <1>2 DEF PaymentsOf, ReturnsOf
<1>4. EmptySummary \in Summary /\ EmptySummary.payments = 0 /\ EmptySummary.paymentReversals = 0
  BY DEF EmptySummary, Summary
<1>5. AmountsOf(ledger, {}) = 0
  BY AmountsEmpty
<1>6. DaysInv
  BY <1>1, <1>3, <1>4, <1>5 DEF DaysInv, SummariesOK
<1>7. ReturnsInv
  BY <1>2 DEF ReturnsInv, EntryNumbers
<1>8. ReportInv
  BY <1>1 DEF ReportInv, NoReport
<1> QED
  BY <1>6, <1>7, <1>8 DEF TakingsInv

\* The reversals of payments are worth what the reversed payments are.
LEMMA ReturnsWorth ==
    ASSUME LedgerOK, ReturnsInv, NEW P, P \subseteq EntryNumbers, \A i \in P : IsPayment(ledger, i)
    PROVE  AmountsOf(ledger, ReversalsOf(P)) = AmountsOf(ledger, {i \in P : ~ledger[i].posted})
<1> DEFINE V == ReversalsOf(P)
           B == {i \in P : ~ledger[i].posted}
           w == [i \in EntryNumbers |-> ledger[i].amount]
           h == [j \in V |-> ledger[j].reversalOf]
<1>1. V \subseteq EntryNumbers /\ B \subseteq EntryNumbers
  BY DEF ReversalsOf
<1>2. \A j \in V : IsReturn(ledger, j) /\ ledger[j].reversalOf \in P
  BY DEF ReversalsOf, ReturnsInv, IsReturn, IsPayment
<1>3. \A j \in V : h[j] \in B /\ w[h[j]] = w[j]
  BY <1>1, <1>2 DEF ReturnsInv
<1>4. \A j, k \in V : h[j] = h[k] => j = k
  BY <1>1, <1>2 DEF ReturnsInv
<1>5. ASSUME NEW i \in B PROVE \E j \in V : h[j] = i
  <2>1. PICK j \in EntryNumbers : IsReturn(ledger, j) /\ ledger[j].reversalOf = i
    BY <1>1 DEF ReturnsInv
  <2>2. j \in V
    BY <2>1 DEF IsReturn, ReversalsOf
  <2> QED
    BY <2>1, <2>2
<1>6. {h[j] : j \in V} = B
  <2>1. \A j \in V : h[j] \in B
    BY <1>3
  <2>2. \A i \in B : \E j \in V : h[j] = i
    BY <1>5
  <2> HIDE DEF h, V, B
  <2> QED
    BY <2>1, <2>2
<1>7. IsFiniteSet(V) /\ IsFiniteSet(B) /\ \A i \in V \cup B : ledger[i].amount \in Int
  BY <1>1, SomeEntries
<1>8. \A i \in V \cup B : w[i] = ledger[i].amount
  BY <1>1
<1> HIDE DEF V, B, w, h
<1>9. Weighs(w, V)
  BY <1>7, <1>8 DEF Weighs
<1>10. Total(w, {h[j] : j \in V}) = Total(w, V)
  <2>1. \A j \in V : w[h[j]] = w[j]
    BY <1>3
  <2> QED
    BY <1>4, <1>9, <2>1, TotalRenamed
<1>11. AmountsOf(ledger, V) = Total(w, V) /\ AmountsOf(ledger, B) = Total(w, B)
  BY <1>7, <1>8, AmountsTotal
<1> QED
  BY <1>6, <1>10, <1>11 DEF V, B

LEMMA ReportSays == LedgerOK /\ TakingsInv => ReportsAddUp
<1> SUFFICES ASSUME LedgerOK, TakingsInv, report.open
    PROVE  LET payments == PaymentsIn(report.from, report.to)
               taken == {i \in payments : i > report.at}
               counted == {j \in 1..report.at :
                              /\ ledger[j].type = "reversal"
                              /\ ledger[j].reversalOfType = "customer_payment"
                              /\ ledger[j].day \in report.from..report.to}
           IN  NetOf(payments) = report.revenue
                                 + AmountOf(taken)
                                 - AmountOf(ReversalsOf(payments) \ counted)
                                 + AmountOf(counted \ ReversalsOf(payments))
  BY DEF ReportsAddUp
<1> DEFINE at == report.at
           D == report.from..report.to
           A(S) == AmountsOf(ledger, S)
           P == PaymentsIn(report.from, report.to)
           T == {i \in P : i > at}
           C == {j \in 1..at : /\ ledger[j].type = "reversal"
                               /\ ledger[j].reversalOfType = "customer_payment"
                               /\ ledger[j].day \in D}
           V == ReversalsOf(P)
           L == {i \in P : ledger[i].posted}
           B == {i \in P : ~ledger[i].posted}
           Q == PaymentsTo(ledger, at, D)
<1>1. /\ at \in Nat /\ at <= Len(ledger)
      /\ report.revenue = A(Q) - A(ReturnsTo(ledger, at, D))
  BY DEF TakingsInv, ReportInv
<1>2. EntryNumbers = 1..Len(ledger) /\ Len(ledger) \in Nat
  BY DayNumber
<1>3. P \subseteq EntryNumbers /\ \A i \in P : IsPayment(ledger, i)
  BY DEF PaymentsIn, IsPayment
<1>4. C = ReturnsTo(ledger, at, D) /\ C \subseteq EntryNumbers
  <2>1. \A j : j \in 1..at <=> j \in EntryNumbers /\ j <= at
    BY <1>1, <1>2
  <2> QED
    BY <2>1 DEF ReturnsTo, ReturnsOf, IsReturn, EntryNumbers
<1>5. Q = P \ T
  <2>1. \A i \in EntryNumbers : i <= at <=> ~(i > at)
    BY <1>1, <1>2
  <2> QED
    BY <2>1 DEF PaymentsTo, PaymentsOf, PaymentsIn, IsPayment, EntryNumbers
<1>6. L = P \ B /\ T \subseteq P /\ B \subseteq P /\ L \subseteq P
  OBVIOUS
<1>7. V \subseteq EntryNumbers
  BY DEF ReversalsOf
<1>8. A(V) = A(B)
  BY <1>3, ReturnsWorth DEF TakingsInv
<1> HIDE DEF P, T, C, V, L, B, Q, D, at
<1>9. A(P) = A(B) + A(L) /\ A(P) = A(T) + A(Q)
  BY <1>3, <1>5, <1>6, AmountsParted
<1>10. A(V) = A(V \ C) + A(V \cap C) /\ A(C) = A(C \ V) + A(V \cap C)
  <2>1. V \ C \subseteq V /\ C \ V \subseteq C /\ V \ (V \ C) = V \cap C /\ C \ (C \ V) = V \cap C
    OBVIOUS
  <2> QED
    BY <1>4, <1>7, <2>1, AmountsParted
<1>11. /\ A(P) \in Nat /\ A(T) \in Nat /\ A(Q) \in Nat /\ A(B) \in Nat /\ A(L) \in Nat
       /\ A(V) \in Nat /\ A(C) \in Nat /\ A(V \ C) \in Nat /\ A(C \ V) \in Nat /\ A(V \cap C) \in Nat
  <2>1. /\ T \subseteq EntryNumbers /\ Q \subseteq EntryNumbers /\ B \subseteq EntryNumbers
        /\ L \subseteq EntryNumbers /\ V \ C \subseteq EntryNumbers /\ C \ V \subseteq EntryNumbers
        /\ V \cap C \subseteq EntryNumbers
    BY <1>3, <1>4, <1>5, <1>6, <1>7
  <2> QED
    BY <1>3, <1>4, <1>7, <2>1, SomeEntries
<1>12. report.revenue = A(Q) - A(C)
  BY <1>1, <1>4 DEF Q, D, at
<1>13. A(L) = report.revenue + A(T) - A(V \ C) + A(C \ V)
  <2> DEFINE p == A(P)
             t == A(T)
             q == A(Q)
             b == A(B)
             l == A(L)
             v == A(V)
             c == A(C)
             x == A(V \ C)
             y == A(C \ V)
             m == A(V \cap C)
             r == report.revenue
  <2>1. /\ p \in Nat /\ t \in Nat /\ q \in Nat /\ b \in Nat /\ l \in Nat /\ v \in Nat /\ c \in Nat
        /\ x \in Nat /\ y \in Nat /\ m \in Nat
    BY <1>11
  <2>2. p = b + l /\ p = t + q /\ v = b /\ v = x + m /\ c = y + m /\ r = q - c
    BY <1>8, <1>9, <1>10, <1>12
  <2> HIDE DEF p, t, q, b, l, v, c, x, y, m, r
  <2>3. l = r + t - x + y
    BY <2>1, <2>2
  <2> QED
    BY <2>3 DEF t, l, x, y, r
<1>14. \A S : AmountOf(S) = A(S)
  BY DEF AmountOf, AmountsOf
<1>15. NetOf(P) = A(L)
  BY <1>14 DEF NetOf, L
<1> QED
  BY <1>13, <1>14, <1>15 DEF P, T, C, V, D, at

\* What a report's two revenue figures differ by is explained, whatever is posted or
\* reversed at any desk between its two reads.
THEOREM ReportsExplained == OfficeSpec => []ReportsAddUp
<1> DEFINE Inv == LedgerOK /\ DesksInv /\ TakingsInv
<1>1. OfficeInit => Inv
  BY DesksFirst, TakingsFirst
<1>2. Inv /\ [OfficeNext]_officeVars => Inv'
  BY DesksNext, TakingsNext
<1>3. Inv => ReportsAddUp
  BY ReportSays
<1> QED
  BY <1>1, <1>2, <1>3, PTL DEF OfficeSpec
=============================================================================
