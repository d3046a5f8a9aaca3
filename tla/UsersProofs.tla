----------------------------- MODULE UsersProofs -----------------------------
(* Theorems about Users and Registry, for every value of their constants:  *)
(* what is kept in two places is kept the same, an administrator always    *)
(* remains, few wrong passwords are tried before a number is closed; and   *)
(* the records of reception agree with their unique keys.                  *)
EXTENDS Users, Registry, SequenceTheorems, FiniteSetTheorems, TLAPS

-----------------------------------------------------------------------------
(* The inductive invariant *)

\* The calls between two of their steps, by what they have read.
PhoneCall == [kind: {"phone"}, step: {"asked", "moved", "refused"}, caller: People, uid: People,
              number: Numbers, old: Numbers \cup {Unset}]
CreateCall == [kind: {"create"}, step: {"made", "orphan"}, caller: People, uid: People,
               number: Numbers, role: {"admin", "manager", "worker"},
               staffId: StaffIds \cup {Unset}, new: BOOLEAN]
SignInCall == [kind: {"signIn"}, step: {"checking", "failed"}, number: Numbers]
OwnCall == [kind: {"own"}, step: {"checking", "changing", "failed"}, number: Numbers, uid: People]
Call == PhoneCall \cup CreateCall \cup SignInCall \cup OwnCall \cup {Idle}

UsersTyped ==
    /\ profiles \in [People -> Profile]
    /\ logins \in [People -> Numbers \cup {Unset}]
    /\ staffUser \in [StaffIds -> People \cup {Unset}]
    /\ inFlight \in [Lanes -> Call]
    /\ crossed \subseteq People
    /\ tempGrants \in Seq(TemporaryGrant)
    /\ clock \in Nat
    /\ sweep \in [stage: {"idle", "ended", "ending"}, at: Nat, list: SUBSET (DOMAIN tempGrants)]

-----------------------------------------------------------------------------
(* Documents keep their shape *)

\* The first state is typed.
LEMMA TypedAtFirst ==
    ASSUME UsersAssumption, UsersInit
    PROVE  UsersTyped
<1>1. profiles \in [People -> Profile]
  <2>1. NoProfile \in Profile /\ \A u \in Founders : Founder(u) \in Profile
    BY DEF UsersAssumption, Founder, NoProfile, NewProfile, Profile
  <2> QED
    BY <2>1 DEF UsersInit, UsersAssumption
<1>2. tempGrants \in Seq(TemporaryGrant)
  BY DEF UsersInit
<1>3. sweep \in [stage: {"idle", "ended", "ending"}, at: Nat, list: SUBSET (DOMAIN tempGrants)]
  BY DEF UsersInit, NotSweeping
<1> QED
  BY <1>1, <1>2, <1>3 DEF UsersInit, UsersTyped, UsersAssumption, Call

\* A grant added to the record, or one changed in it, leaves it typed.
LEMMA GrantsTyped ==
    ASSUME UsersTyped
    PROVE  /\ \A g \in DOMAIN tempGrants, new \in TemporaryGrant :
                 /\ [tempGrants EXCEPT ![g] = new] \in Seq(TemporaryGrant)
                 /\ DOMAIN [tempGrants EXCEPT ![g] = new] = DOMAIN tempGrants
           /\ DOMAIN tempGrants = 1..Len(tempGrants)
           /\ Len(tempGrants) \in Nat
           /\ \A g \in DOMAIN tempGrants : tempGrants[g] \in TemporaryGrant
<1>1. tempGrants \in Seq(TemporaryGrant)
  BY DEF UsersTyped
<1> QED
  BY <1>1, ExceptSeq, LenProperties

\* A change of one profile is typed when what it writes is.
LEMMA ProfilesTyped ==
    ASSUME UsersTyped, NEW u \in People
    PROVE  /\ profiles[u] \in Profile
           /\ \A x \in {"admin", "manager", "worker"} : [profiles EXCEPT ![u].role = x] \in [People -> Profile]
           /\ \A x \in BOOLEAN : /\ [profiles EXCEPT ![u].active = x] \in [People -> Profile]
                                 /\ [profiles EXCEPT ![u].mustChange = x] \in [People -> Profile]
           /\ \A x \in StaffIds \cup {Unset} : [profiles EXCEPT ![u].staffId = x] \in [People -> Profile]
           /\ \A x \in Numbers : [profiles EXCEPT ![u].phone = x] \in [People -> Profile]
           /\ \A x \in {"default", "granted", "denied"} :
                 [profiles EXCEPT ![u].standing = x] \in [People -> Profile]
<1>0. profiles \in [People -> Profile] /\ profiles[u] \in Profile
  BY DEF UsersTyped
<1>1. \A x \in {"admin", "manager", "worker"} : [profiles[u] EXCEPT !.role = x] \in Profile
  BY <1>0 DEF Profile
<1>2. \A x \in BOOLEAN : [profiles[u] EXCEPT !.active = x] \in Profile
  BY <1>0 DEF Profile
<1>3. \A x \in BOOLEAN : [profiles[u] EXCEPT !.mustChange = x] \in Profile
  BY <1>0 DEF Profile
<1>4. \A x \in StaffIds \cup {Unset} : [profiles[u] EXCEPT !.staffId = x] \in Profile
  BY <1>0 DEF Profile
<1>5. \A x \in Numbers : [profiles[u] EXCEPT !.phone = x] \in Profile
  BY <1>0 DEF Profile
<1>6. \A x \in {"default", "granted", "denied"} : [profiles[u] EXCEPT !.standing = x] \in Profile
  BY <1>0 DEF Profile
<1> QED
  BY <1>0, <1>1, <1>2, <1>3, <1>4, <1>5, <1>6

\* So is naming a grant in it.
LEMMA TemporaryTyped ==
    ASSUME UsersTyped, NEW u \in People, NEW x \in Nat
    PROVE  [profiles EXCEPT ![u].temporary = x] \in [People -> Profile]
<1>1. profiles[u] \in Profile
  BY DEF UsersTyped
<1>2. [profiles[u] EXCEPT !.temporary = x] \in Profile
  BY <1>1 DEF Profile
<1> QED
  BY <1>2 DEF UsersTyped

\* Forgetting a grant names another, or none, in one profile.
LEMMA ForgottenNamed ==
    ASSUME UsersTyped, NEW g \in DOMAIN tempGrants
    PROVE  \E v \in People, x \in Nat : Forgotten(g) = [profiles EXCEPT ![v].temporary = x]
<1> DEFINE u == tempGrants[g].uid
           left == IF profiles[u].temporary = g THEN 0 ELSE profiles[u].temporary
<1>1. u \in People
  BY GrantsTyped DEF TemporaryGrant
<1>2. left \in Nat
  BY <1>1, ProfilesTyped DEF Profile
<1>3. Forgotten(g) = [profiles EXCEPT ![u].temporary = left]
  BY DEF Forgotten
<1> QED
  BY <1>1, <1>2, <1>3, Zenon

\* It leaves the profiles typed.
LEMMA ForgottenTyped ==
    ASSUME UsersTyped, NEW g \in DOMAIN tempGrants
    PROVE  Forgotten(g) \in [People -> Profile]
<1>1. PICK v \in People, x \in Nat : Forgotten(g) = [profiles EXCEPT ![v].temporary = x]
  BY ForgottenNamed
<1> QED
  BY <1>1, TemporaryTyped

\* A call begun is typed when the call is.
LEMMA BeginTyped ==
    ASSUME UsersTyped, NEW c \in Lanes, NEW call \in PhoneCall \cup CreateCall, Begin(c, call)
    PROVE  inFlight' \in [Lanes -> Call] /\ crossed' \subseteq People
<1>1. call.uid \in People /\ call \in Call
  BY DEF PhoneCall, CreateCall, Call
<1>2. \A d \in Meets(call) : inFlight[d].uid \in People
  BY DEF Meets, ChangesIdentity, UsersTyped, Call, PhoneCall, CreateCall, SignInCall, OwnCall, Idle
<1> QED
  BY <1>1, <1>2 DEF Begin, UsersTyped

\* The steps of calls about accounts and their numbers keep every document typed.
LEMMA IdentityTyped ==
    ASSUME UsersAssumption, UsersTyped, IdentityStep
    PROVE  UsersTyped'
<1>1. ASSUME NEW c \in Lanes, NEW caller \in Clerks, NEW u \in People, NEW n \in Numbers,
             AskForNumber(c, caller, u, n)
      PROVE  UsersTyped'
  <2> DEFINE call == [kind |-> "phone", step |-> "asked", caller |-> caller, uid |-> u,
                      number |-> n, old |-> profiles[u].phone]
  <2>1. call \in PhoneCall
    BY ProfilesTyped DEF UsersAssumption, PhoneCall, Profile
  <2>2. Begin(c, call)
    BY <1>1 DEF AskForNumber
  <2> HIDE DEF call
  <2> QED
    BY <2>1, <2>2, <1>1, BeginTyped DEF AskForNumber, UsersTyped, throttleVars, grantVars
<1>2. ASSUME NEW c \in Lanes, NEW caller \in Clerks, NEW u \in People, NEW n \in Numbers,
             NEW role \in NewRoles, NEW id \in StaffIds \cup {Unset},
             CreateLogin(c, caller, u, n, role, id)
      PROVE  UsersTyped'
  <2> DEFINE call == [kind |-> "create", step |-> "made", caller |-> caller, uid |-> u,
                      number |-> n, role |-> role, staffId |-> id, new |-> logins[u] = Unset]
  <2>1. call \in CreateCall
    BY DEF UsersAssumption, CreateCall
  <2>2. Begin(c, call)
    BY <1>2 DEF CreateLogin
  <2> HIDE DEF call
  <2> QED
    BY <2>1, <2>2, <1>2, BeginTyped DEF CreateLogin, UsersTyped, throttleVars, grantVars
<1>3. ASSUME NEW c \in Lanes, MoveNumber(c)
      PROVE  UsersTyped'
  <2>1. inFlight[c] \in PhoneCall
    BY <1>3 DEF MoveNumber, At, UsersTyped, Call, CreateCall, SignInCall, OwnCall, Idle
  <2>2. [inFlight[c] EXCEPT !.step = "moved"] \in Call /\ Idle \in Call
    BY <2>1 DEF PhoneCall, Call
  <2>3. inFlight[c].number \in Numbers
    BY <2>1 DEF PhoneCall
  <2> QED
    BY <1>3, <2>2, <2>3 DEF MoveNumber, UsersTyped, throttleVars, grantVars
<1>4. ASSUME NEW c \in Lanes, RecordNumber(c)
      PROVE  UsersTyped'
  <2>1. inFlight[c] \in PhoneCall
    BY <1>4 DEF RecordNumber, At, UsersTyped, Call, CreateCall, SignInCall, OwnCall, Idle
  <2>2. Refused(inFlight[c]) \in Call /\ Idle \in Call
    BY <2>1 DEF PhoneCall, Call, Refused
  <2>3. inFlight[c].number \in Numbers /\ inFlight[c].uid \in People
    BY <2>1 DEF PhoneCall
  <2>4. profiles' \in [People -> Profile]
    BY <1>4, <2>3, ProfilesTyped DEF RecordNumber, UsersTyped
  <2> QED
    BY <1>4, <2>2, <2>4 DEF RecordNumber, UsersTyped, throttleVars, grantVars
<1>5. ASSUME NEW c \in Lanes, PutNumberBack(c)
      PROVE  UsersTyped'
  <2>1. inFlight[c] \in PhoneCall
    BY <1>5 DEF PutNumberBack, At, UsersTyped, Call, CreateCall, SignInCall, OwnCall, Idle
  <2>2. inFlight[c].old \in Numbers \cup {Unset} /\ Idle \in Call
    BY <2>1 DEF PhoneCall, Call
  <2> QED
    BY <1>5, <2>2 DEF PutNumberBack, UsersTyped, throttleVars, grantVars, Ended
<1>6. ASSUME NEW c \in Lanes, CreateProfile(c)
      PROVE  UsersTyped'
  <2> DEFINE call == inFlight[c]
  <2>1. call \in CreateCall
    BY <1>6 DEF CreateProfile, At, UsersTyped, Call, PhoneCall, SignInCall, OwnCall, Idle
  <2>2. [call EXCEPT !.step = "orphan"] \in Call /\ Idle \in Call
    BY <2>1 DEF CreateCall, Call
  <2>3. NewProfile(call.number, call.role, call.staffId) \in Profile /\ call.uid \in People
    BY <2>1 DEF CreateCall, NewProfile, Profile
  <2>4. inFlight' \in [Lanes -> Call]
    BY <1>6, <2>2 DEF CreateProfile, UsersTyped, Ended
  <2>5. profiles' \in [People -> Profile]
    BY <1>6, <2>3 DEF CreateProfile, UsersTyped
  <2>6. staffUser' \in [StaffIds -> People \cup {Unset}]
    BY <1>6, <2>3 DEF CreateProfile, UsersTyped
  <2> QED
    BY <1>6, <2>4, <2>5, <2>6 DEF CreateProfile, UsersTyped, throttleVars, grantVars
<1>7. ASSUME NEW c \in Lanes, DeleteOrphan(c)
      PROVE  UsersTyped'
  BY <1>7 DEF DeleteOrphan, UsersTyped, throttleVars, grantVars, Ended, Call
<1>8. ASSUME NEW c \in Lanes, CutOff(c)
      PROVE  UsersTyped'
  <2>1. ChangesIdentity(inFlight[c]) => inFlight[c].uid \in People
    BY DEF ChangesIdentity, UsersTyped, Call, PhoneCall, CreateCall, SignInCall, OwnCall, Idle
  <2> QED
    BY <1>8, <2>1 DEF CutOff, UsersTyped, throttleVars, grantVars, Ended, Call
<1>9. ASSUME NEW caller \in People, NEW u \in People, NEW active \in BOOLEAN,
             SetUserActive(caller, u, active)
      PROVE  UsersTyped'
  BY <1>9, ProfilesTyped DEF SetUserActive, UsersTyped, identityVars, throttleVars, grantVars
<1> QED
  BY <1>1, <1>2, <1>3, <1>4, <1>5, <1>6, <1>7, <1>8, <1>9 DEF IdentityStep, AccountStep, CrashStep

\* So do those about roles, staff links and forgotten passwords.
LEMMA AdministrationTyped ==
    ASSUME UsersAssumption, UsersTyped, AppointmentStep \/ AdministrationStep
    PROVE  UsersTyped'
<1>1. ASSUME NEW caller \in People, NEW u \in People, NEW role \in Roles, SetUserRole(caller, u, role)
      PROVE  UsersTyped'
  <2>1. role \in {"admin", "manager", "worker"}
    BY DEF UsersAssumption
  <2> QED
    BY <1>1, <2>1, ProfilesTyped DEF SetUserRole, UsersTyped, identityVars, throttleVars, grantVars
<1>2. ASSUME NEW caller \in People, NEW u \in People, ResetUserPassword(caller, u)
      PROVE  UsersTyped'
  BY <1>2, ProfilesTyped DEF ResetUserPassword, UsersTyped, identityVars, throttleVars, grantVars
<1>3. ASSUME NEW caller \in People, NEW u \in People, NEW id \in StaffIds \cup {Unset},
             LinkStaff(caller, u, id)
      PROVE  UsersTyped'
  <2>1. staffUser' \in [StaffIds -> People \cup {Unset}]
    BY <1>3 DEF LinkStaff, UsersTyped
  <2> QED
    BY <1>3, <2>1, ProfilesTyped DEF LinkStaff, UsersTyped, identityVars, throttleVars, grantVars
<1> QED
  BY <1>1, <1>2, <1>3 DEF AppointmentStep, AdministrationStep

\* So do passwords tried and changed, and the throttle.
LEMMA PasswordTyped ==
    ASSUME UsersAssumption, UsersTyped, PasswordStep
    PROVE  UsersTyped'
<1> SUFFICES ASSUME NEW c \in Lanes,
                    \/ \E n \in Tried : TryPassword(c, n)
                    \/ \E u \in People : logins[u] \in Tried /\ TryOwnPassword(c, u)
                    \/ RightPassword(c) \/ RightOwnPassword(c) \/ ChangeOwnPassword(c)
                    \/ WrongPassword(c) \/ RecordFailure(c)
             PROVE  UsersTyped'
  BY DEF PasswordStep
<1>0. Idle \in Call
  BY DEF Call
<1>1. CASE \E n \in Tried : TryPassword(c, n)
  <2> PICK n \in Tried : TryPassword(c, n)
    BY <1>1
  <2>1. [kind |-> "signIn", step |-> "checking", number |-> n] \in Call
    BY DEF UsersAssumption, Call, SignInCall
  <2> QED
    BY <2>1 DEF TryPassword, UsersTyped, throttleVars, grantVars
<1>2. CASE \E u \in People : logins[u] \in Tried /\ TryOwnPassword(c, u)
  <2> PICK u \in People : logins[u] \in Tried /\ TryOwnPassword(c, u)
    BY <1>2
  <2>1. [kind |-> "own", step |-> "checking", number |-> logins[u], uid |-> u] \in Call
    BY DEF UsersAssumption, Call, OwnCall
  <2> QED
    BY <2>1 DEF TryOwnPassword, UsersTyped, throttleVars, grantVars
<1>3. CASE RightPassword(c) \/ RecordFailure(c)
  BY <1>0, <1>3 DEF RightPassword, RecordFailure, UsersTyped, throttleVars, grantVars, Ended
<1>4. CASE RightOwnPassword(c) \/ ChangeOwnPassword(c) \/ WrongPassword(c)
  <2>1. inFlight[c] \in SignInCall \cup OwnCall
    BY <1>4 DEF RightOwnPassword, ChangeOwnPassword, WrongPassword, At, UsersTyped, Call,
                PhoneCall, CreateCall, Idle
  <2>2. /\ [inFlight[c] EXCEPT !.step = "failed"] \in Call
        /\ inFlight[c].kind = "own" => /\ [inFlight[c] EXCEPT !.step = "changing"] \in Call
                                       /\ inFlight[c].uid \in People
    BY <2>1 DEF SignInCall, OwnCall, Call
  <2>3. CASE ChangeOwnPassword(c)
    BY <1>0, <2>2, <2>3, ProfilesTyped
    DEF ChangeOwnPassword, At, UsersTyped, throttleVars, grantVars, Ended
  <2> QED
    BY <1>4, <2>2, <2>3 DEF RightOwnPassword, WrongPassword, At, UsersTyped, throttleVars, grantVars
<1> QED
  BY <1>1, <1>2, <1>3, <1>4

\* So do temporary permissions, given, taken back and swept.
LEMMA GrantTyped ==
    ASSUME UsersAssumption, UsersTyped, GrantStep
    PROVE  UsersTyped'
<1>1. ASSUME NEW caller \in People, NEW u \in People, NEW window \in Grantable,
             GrantTemporaryPermission(caller, u, window)
      PROVE  UsersTyped'
  <2> DEFINE former == profiles[u].temporary
             kept == [g \in DOMAIN tempGrants |->
                         IF g = former /\ tempGrants[g].status = "active"
                         THEN [tempGrants[g] EXCEPT !.status = "superseded"] ELSE tempGrants[g]]
             new == [uid |-> u, from |-> window.from, until |-> window.until,
                     warned |-> FALSE, status |-> "active"]
  <2>1. \A g \in DOMAIN tempGrants : kept[g] \in TemporaryGrant
    BY GrantsTyped DEF TemporaryGrant
  <2>2. kept \in Seq(TemporaryGrant) /\ Len(kept) = Len(tempGrants)
    <3> HIDE DEF kept
    <3>1. DOMAIN kept = 1..Len(tempGrants) /\ kept = [g \in 1..Len(tempGrants) |-> kept[g]]
      BY GrantsTyped DEF kept
    <3> QED
      BY <2>1, <3>1, GrantsTyped, SeqDef, LenProperties
  <2>3. new \in TemporaryGrant
    BY DEF UsersAssumption, TemporaryGrant
  <2>4. tempGrants' = Append(kept, new)
    BY <1>1 DEF GrantTemporaryPermission
  <2>5. profiles' \in [People -> Profile]
    <3> DEFINE place == Len(tempGrants) + 1
    <3>1. place \in Nat
      BY GrantsTyped
    <3>2. profiles' = [profiles EXCEPT ![u].temporary = place]
      BY <1>1 DEF GrantTemporaryPermission
    <3> HIDE DEF place
    <3> QED
      BY <3>1, <3>2, TemporaryTyped, Zenon
  <2> HIDE DEF kept, new
  <2>6. tempGrants' \in Seq(TemporaryGrant) /\ Len(tempGrants') = Len(tempGrants) + 1
    BY <2>2, <2>3, <2>4, AppendProperties
  <2>7. DOMAIN tempGrants \subseteq DOMAIN tempGrants'
    BY <2>6, GrantsTyped, LenProperties
  <2> QED
    BY <1>1, <2>5, <2>6, <2>7
    DEF GrantTemporaryPermission, UsersTyped, identityVars, throttleVars
<1>2. ASSUME NEW caller \in People, NEW u \in People,
             NEW standing \in {"default", "granted", "denied"}, SetUserPermissions(caller, u, standing)
      PROVE  UsersTyped'
  BY <1>2, ProfilesTyped DEF SetUserPermissions, UsersTyped, identityVars, throttleVars, grantVars
<1>3. ASSUME NEW g \in DOMAIN tempGrants, NEW x \in {"revoked", "expired"}
      PROVE  /\ [tempGrants EXCEPT ![g].status = x] \in Seq(TemporaryGrant)
             /\ DOMAIN [tempGrants EXCEPT ![g].status = x] = DOMAIN tempGrants
  <2>1. [tempGrants[g] EXCEPT !.status = x] \in TemporaryGrant
    BY GrantsTyped DEF TemporaryGrant
  <2> QED
    BY <2>1, GrantsTyped
<1>4. ASSUME NEW caller \in People, NEW g \in DOMAIN tempGrants, RevokeTemporaryPermission(caller, g)
      PROVE  UsersTyped'
  BY <1>3, <1>4, ForgottenTyped
  DEF RevokeTemporaryPermission, UsersTyped, identityVars, throttleVars
<1>5. CASE SweepEnded \/ SweepEnding \/ SweepOver
  <2>1. sweep' \in [stage: {"idle", "ended", "ending"}, at: Nat, list: SUBSET (DOMAIN tempGrants)]
    <3>1. CASE SweepEnded
      BY <3>1 DEF SweepEnded, ActiveGrants, UsersTyped
    <3>2. CASE SweepEnding
      BY <3>2 DEF SweepEnding, ActiveGrants, UsersTyped
    <3>3. CASE SweepOver
      BY <3>3 DEF SweepOver, NotSweeping
    <3> QED
      BY <1>5, <3>1, <3>2, <3>3
  <2>2. UNCHANGED <<profiles, staffUser, identityVars, throttleVars, clock, tempGrants>>
    BY <1>5 DEF SweepEnded, SweepEnding, SweepOver
  <2> QED
    BY <2>1, <2>2 DEF UsersTyped, identityVars, throttleVars
<1>6. ASSUME NEW g \in sweep.list, Expire(g)
      PROVE  UsersTyped'
  <2>1. g \in DOMAIN tempGrants
    BY DEF UsersTyped
  <2>2. /\ tempGrants' \in Seq(TemporaryGrant) /\ DOMAIN tempGrants' = DOMAIN tempGrants
        /\ profiles' \in [People -> Profile]
    BY <1>3, <1>6, <2>1, ForgottenTyped DEF Expire, UsersTyped
  <2>3. sweep' \in [stage: {"idle", "ended", "ending"}, at: Nat, list: SUBSET (DOMAIN tempGrants)]
    BY <1>6 DEF Expire, UsersTyped
  <2> QED
    BY <1>6, <2>2, <2>3 DEF Expire, UsersTyped, identityVars, throttleVars
<1>7. ASSUME NEW g \in sweep.list, Warn(g)
      PROVE  UsersTyped'
  <2>1. g \in DOMAIN tempGrants
    BY DEF UsersTyped
  <2>2. [tempGrants[g] EXCEPT !.warned = TRUE] \in TemporaryGrant
    BY <2>1, GrantsTyped DEF TemporaryGrant
  <2>3. tempGrants' \in Seq(TemporaryGrant) /\ DOMAIN tempGrants' = DOMAIN tempGrants
    BY <1>7, <2>1, <2>2, GrantsTyped DEF Warn
  <2>4. sweep' \in [stage: {"idle", "ended", "ending"}, at: Nat, list: SUBSET (DOMAIN tempGrants)]
    BY <1>7 DEF Warn, UsersTyped
  <2> QED
    BY <1>7, <2>3, <2>4 DEF Warn, UsersTyped, identityVars, throttleVars
<1> QED
  BY <1>1, <1>2, <1>4, <1>5, <1>6, <1>7 DEF GrantStep

\* Every step keeps every document typed.
LEMMA TypedNext ==
    ASSUME UsersAssumption, UsersTyped, [UsersNext]_userVars
    PROVE  UsersTyped'
<1>1. CASE Tick
  BY <1>1 DEF Tick, UsersTyped, identityVars, grantVars
<1>2. CASE UNCHANGED userVars
  BY <1>2 DEF userVars, identityVars, throttleVars, grantVars, UsersTyped
<1> QED
  BY <1>1, <1>2, IdentityTyped, AdministrationTyped, PasswordTyped, GrantTyped DEF UsersNext

-----------------------------------------------------------------------------
(* What each kind of step leaves alone *)

SameLinks == staffUser' = staffUser /\ \A u \in People : profiles'[u].staffId = profiles[u].staffId
SameGrants == tempGrants' = tempGrants /\ \A u \in People : profiles'[u].temporary = profiles[u].temporary
SameCalls ==
    \A c \in Lanes : IF ChangesIdentity(inFlight[c]) THEN inFlight'[c] = inFlight[c]
                    ELSE ~ChangesIdentity(inFlight'[c])
SameStores ==
    /\ logins' = logins /\ crossed' = crossed
    /\ \A u \in People : /\ profiles'[u].exists <=> profiles[u].exists
                         /\ profiles'[u].phone = profiles[u].phone
    /\ SameCalls

\* Roles, activity, forgotten passwords and standing permissions touch neither links
\* nor grants nor stores.
LEMMA SettingsFrame ==
    ASSUME UsersTyped, NEW caller \in People, NEW u \in People,
           \/ \E active \in BOOLEAN : SetUserActive(caller, u, active)
           \/ \E role \in Roles : SetUserRole(caller, u, role)
           \/ ResetUserPassword(caller, u)
           \/ \E standing \in {"default", "granted", "denied"} : SetUserPermissions(caller, u, standing)
    PROVE  SameLinks /\ SameGrants /\ SameStores
<1>1. PICK p : /\ profiles' = [profiles EXCEPT ![u] = p]
               /\ p.staffId = profiles[u].staffId /\ p.temporary = profiles[u].temporary
               /\ p.exists <=> profiles[u].exists
               /\ p.phone = profiles[u].phone
  <2>1. CASE \E active \in BOOLEAN : SetUserActive(caller, u, active)
    <3> PICK active \in BOOLEAN : SetUserActive(caller, u, active)
      BY <2>1
    <3> WITNESS [profiles[u] EXCEPT !.active = active]
    <3> QED
      BY ProfilesTyped DEF SetUserActive, Profile
  <2>2. CASE \E role \in Roles : SetUserRole(caller, u, role)
    <3> PICK role \in Roles : SetUserRole(caller, u, role)
      BY <2>2
    <3> WITNESS [profiles[u] EXCEPT !.role = role]
    <3> QED
      BY ProfilesTyped DEF SetUserRole, Profile
  <2>3. CASE ResetUserPassword(caller, u)
    <3> WITNESS [profiles[u] EXCEPT !.mustChange = TRUE]
    <3> QED
      BY <2>3, ProfilesTyped DEF ResetUserPassword, Profile
  <2>4. CASE \E standing \in {"default", "granted", "denied"} : SetUserPermissions(caller, u, standing)
    <3> PICK standing \in {"default", "granted", "denied"} : SetUserPermissions(caller, u, standing)
      BY <2>4
    <3> WITNESS [profiles[u] EXCEPT !.standing = standing]
    <3> QED
      BY ProfilesTyped DEF SetUserPermissions, Profile
  <2> QED
    BY <2>1, <2>2, <2>3, <2>4
<1>2. UNCHANGED <<staffUser, identityVars, tempGrants>>
  BY DEF SetUserActive, SetUserRole, ResetUserPassword, SetUserPermissions, grantVars
<1>3. \A v \in People : profiles'[v] = IF v = u THEN p ELSE profiles[v]
  BY <1>1 DEF UsersTyped
<1> QED
  BY <1>1, <1>2, <1>3 DEF SameLinks, SameGrants, SameStores, SameCalls, identityVars

\* Nor does trying or changing a password.
LEMMA PasswordFrame ==
    ASSUME UsersTyped, PasswordStep
    PROVE  SameLinks /\ SameGrants /\ SameStores
<1>1. /\ UNCHANGED <<staffUser, logins, crossed, tempGrants>>
      /\ \A u \in People : /\ profiles'[u].staffId = profiles[u].staffId
                           /\ profiles'[u].temporary = profiles[u].temporary
                           /\ profiles'[u].exists <=> profiles[u].exists
                           /\ profiles'[u].phone = profiles[u].phone
  <2>1. CASE \E c \in Lanes : ChangeOwnPassword(c)
    <3> PICK c \in Lanes : ChangeOwnPassword(c)
      BY <2>1
    <3> QED
      BY ProfilesTyped DEF ChangeOwnPassword, grantVars, UsersTyped, Profile
  <2> QED
    BY <2>1 DEF PasswordStep, TryPassword, TryOwnPassword, RightPassword, RightOwnPassword,
                WrongPassword, RecordFailure, grantVars
<1>2. SameCalls
  <2>0. PICK d \in Lanes : \/ \E n \in Tried : TryPassword(d, n)
                           \/ \E u \in People : TryOwnPassword(d, u)
                           \/ RightPassword(d) \/ RightOwnPassword(d) \/ ChangeOwnPassword(d)
                           \/ WrongPassword(d) \/ RecordFailure(d)
    BY DEF PasswordStep
  <2>1. ~ChangesIdentity(inFlight[d])
    BY <2>0 DEF TryPassword, TryOwnPassword, NextLane, Idle, RightPassword, RightOwnPassword,
           ChangeOwnPassword, WrongPassword, RecordFailure, At, ChangesIdentity
  <2>2. \E call : inFlight' = [inFlight EXCEPT ![d] = call] /\ ~ChangesIdentity(call)
    <3>1. CASE RightPassword(d) \/ ChangeOwnPassword(d) \/ RecordFailure(d)
      <4> WITNESS Idle
      <4> QED
        BY <3>1 DEF RightPassword, ChangeOwnPassword, RecordFailure, Ended, Idle, ChangesIdentity
    <3>2. CASE RightOwnPassword(d)
      <4> WITNESS [inFlight[d] EXCEPT !.step = "changing"]
      <4>1. [inFlight[d] EXCEPT !.step = "changing"].kind = inFlight[d].kind
        <5>1. inFlight[d] \in SignInCall \cup OwnCall
          BY <3>2 DEF RightOwnPassword, At, UsersTyped, Call, PhoneCall, CreateCall, Idle
        <5> QED
          BY <5>1 DEF SignInCall, OwnCall
      <4> QED
        BY <2>1, <4>1, <3>2 DEF RightOwnPassword, ChangesIdentity
    <3>3. CASE WrongPassword(d)
      <4> WITNESS [inFlight[d] EXCEPT !.step = "failed"]
      <4>1. [inFlight[d] EXCEPT !.step = "failed"].kind = inFlight[d].kind
        <5>1. inFlight[d] \in SignInCall \cup OwnCall
          BY <3>3 DEF WrongPassword, At, UsersTyped, Call, PhoneCall, CreateCall, Idle
        <5> QED
          BY <5>1 DEF SignInCall, OwnCall
      <4> QED
        BY <2>1, <4>1, <3>3 DEF WrongPassword, ChangesIdentity
    <3>4. CASE \E n \in Tried : TryPassword(d, n)
      <4> PICK n \in Tried : TryPassword(d, n)
        BY <3>4
      <4> WITNESS [kind |-> "signIn", step |-> "checking", number |-> n]
      <4> QED
        BY DEF TryPassword, ChangesIdentity
    <3>5. CASE \E u \in People : TryOwnPassword(d, u)
      <4> PICK u \in People : TryOwnPassword(d, u)
        BY <3>5
      <4> WITNESS [kind |-> "own", step |-> "checking", number |-> logins[u], uid |-> u]
      <4> QED
        BY DEF TryOwnPassword, ChangesIdentity
    <3> QED
      BY <2>0, <3>1, <3>2, <3>3, <3>4, <3>5
  <2>3. PICK call : inFlight' = [inFlight EXCEPT ![d] = call] /\ ~ChangesIdentity(call)
    BY <2>2
  <2>4. \A c \in Lanes : inFlight'[c] = IF c = d THEN call ELSE inFlight[c]
    BY <2>3 DEF UsersTyped
  <2> QED
    BY <2>1, <2>3, <2>4, Zenon DEF SameCalls
<1> QED
  BY <1>1, <1>2 DEF SameLinks, SameGrants, SameStores

\* A staff link touches neither grants nor stores.
LEMMA LinkFrame ==
    ASSUME UsersTyped, NEW caller \in People, NEW u \in People, NEW id \in StaffIds \cup {Unset},
           LinkStaff(caller, u, id)
    PROVE  SameGrants /\ SameStores
<1>1. \A v \in People : profiles'[v] = IF v = u THEN [profiles[u] EXCEPT !.staffId = id] ELSE profiles[v]
  BY DEF LinkStaff, UsersTyped
<1>2. \A v \in People : /\ profiles'[v].temporary = profiles[v].temporary
                        /\ profiles'[v].exists <=> profiles[v].exists
                        /\ profiles'[v].phone = profiles[v].phone
  <2>1. profiles[u] \in Profile
    BY DEF UsersTyped
  <2>2. /\ [profiles[u] EXCEPT !.staffId = id].temporary = profiles[u].temporary
        /\ [profiles[u] EXCEPT !.staffId = id].exists <=> profiles[u].exists
        /\ [profiles[u] EXCEPT !.staffId = id].phone = profiles[u].phone
    BY <2>1 DEF Profile
  <2> QED
    BY <1>1, <2>2, Zenon
<1> QED
  BY <1>2 DEF LinkStaff, SameGrants, SameStores, SameCalls, identityVars, grantVars

\* Temporary permissions touch neither links nor stores.
LEMMA GrantFrame ==
    ASSUME UsersTyped, GrantStep
    PROVE  SameLinks /\ SameStores
<1>1. CASE \E caller, u \in People, standing \in {"default", "granted", "denied"} :
              SetUserPermissions(caller, u, standing)
  BY <1>1, SettingsFrame
<1>2. ASSUME UNCHANGED <<staffUser, identityVars>>,
             \/ UNCHANGED profiles
             \/ \E u \in People, x \in Nat : profiles' = [profiles EXCEPT ![u].temporary = x]
      PROVE  SameLinks /\ SameStores
  <2>1. ASSUME NEW v \in People
        PROVE  /\ profiles'[v].staffId = profiles[v].staffId
               /\ profiles'[v].exists <=> profiles[v].exists
               /\ profiles'[v].phone = profiles[v].phone
    <3>1. CASE UNCHANGED profiles
      BY <3>1
    <3>2. CASE \E u \in People, x \in Nat : profiles' = [profiles EXCEPT ![u].temporary = x]
      <4>1. PICK u \in People, x \in Nat : profiles' = [profiles EXCEPT ![u].temporary = x]
        BY <3>2
      <4>2. profiles[u] \in Profile /\ profiles \in [People -> Profile]
        BY DEF UsersTyped
      <4> QED
        BY <4>1, <4>2 DEF Profile
    <3> QED
      BY <1>2, <3>1, <3>2
  <2>2. staffUser' = staffUser /\ logins' = logins /\ inFlight' = inFlight /\ crossed' = crossed
    BY <1>2, Zenon DEF identityVars
  <2>3. SameCalls
    BY <2>2 DEF SameCalls
  <2>4. SameLinks
    BY <2>1, <2>2 DEF SameLinks
  <2>5. SameStores
    BY <2>1, <2>2, <2>3 DEF SameStores
  <2> QED
    BY <2>4, <2>5
<1>3. ASSUME NEW g \in DOMAIN tempGrants
      PROVE  \E u \in People, x \in Nat : Forgotten(g) = [profiles EXCEPT ![u].temporary = x]
  BY ForgottenNamed
<1>4. CASE \E caller \in People, g \in DOMAIN tempGrants : RevokeTemporaryPermission(caller, g)
  BY <1>2, <1>3, <1>4 DEF RevokeTemporaryPermission
<1>5. CASE SweepEnded \/ SweepEnding \/ SweepOver \/ \E g \in sweep.list : Warn(g)
  BY <1>2, <1>5 DEF SweepEnded, SweepEnding, SweepOver, Warn
<1>6. CASE \E g \in sweep.list : Expire(g)
  <2> PICK g \in sweep.list : Expire(g)
    BY <1>6
  <2>1. g \in DOMAIN tempGrants
    BY DEF UsersTyped
  <2> QED
    BY <1>2, <1>3, <2>1 DEF Expire
<1>7. CASE \E caller, u \in People, window \in Grantable : GrantTemporaryPermission(caller, u, window)
  <2> PICK caller \in People, u \in People, window \in Grantable :
           GrantTemporaryPermission(caller, u, window)
    BY <1>7
  <2>1. Len(tempGrants) + 1 \in Nat
    BY GrantsTyped
  <2>2. /\ profiles' = [profiles EXCEPT ![u].temporary = Len(tempGrants) + 1]
        /\ UNCHANGED <<staffUser, identityVars>>
    BY DEF GrantTemporaryPermission
  <2> QED
    BY <1>2, <2>1, <2>2
<1> QED
  BY <1>1, <1>4, <1>5, <1>6, <1>7 DEF GrantStep

-----------------------------------------------------------------------------
(* An administrator remains *)

Administrator(u) == AccountLive(u) /\ profiles[u].role = "admin"

\* Of an administrator who can act, the edit makes one who can.
StaysLive(p, q) ==
    /\ q.exists <=> p.exists
    /\ q.active <=> p.active
    /\ p.mustChange \/ ~q.mustChange
    /\ q.role = p.role

\* Edits of the fields that do not decide who may act.
LEMMA EditsStayLive ==
    ASSUME NEW p \in Profile, NEW x
    PROVE  /\ StaysLive(p, [p EXCEPT !.phone = x])
           /\ StaysLive(p, [p EXCEPT !.staffId = x])
           /\ StaysLive(p, [p EXCEPT !.temporary = x])
           /\ StaysLive(p, [p EXCEPT !.mustChange = FALSE])
BY DEF StaysLive, Profile

\* Who demotes, deactivates or resets another is live, and an administrator stays one.
LEMMA AdministratorNext ==
    ASSUME UsersAssumption, UsersTyped, AdministratorRemains, [UsersNext]_userVars
    PROVE  AdministratorRemains'
<1>0. PICK a \in People : Administrator(a)
  BY DEF AdministratorRemains, Administrator
<1>1. ASSUME NEW v \in People, NEW w \in People, NEW p, v # w, Administrator(v),
             profiles' = [profiles EXCEPT ![w] = p]
      PROVE  AdministratorRemains'
  <2>1. profiles'[v] = profiles[v]
    BY <1>1 DEF UsersTyped
  <2> QED
    BY <1>1, <2>1 DEF AdministratorRemains, Administrator, AccountLive, AccountEnabled
<1>2. ASSUME NEW w \in People, NEW p, profiles' = [profiles EXCEPT ![w] = p],
             StaysLive(profiles[w], p)
      PROVE  AdministratorRemains'
  <2>1. CASE a = w
    <3>1. profiles'[a] = p
      BY <1>2, <2>1 DEF UsersTyped
    <3> QED
      BY <1>0, <1>2, <2>1, <3>1 DEF AdministratorRemains, Administrator, AccountLive, AccountEnabled, StaysLive
  <2> QED
    BY <1>0, <1>1, <1>2, <2>1
<1>3. CASE UNCHANGED profiles
  BY <1>0, <1>3 DEF AdministratorRemains, Administrator, AccountLive, AccountEnabled
<1>4. CASE IdentityStep
  <2>1. ASSUME NEW c \in Lanes, RecordNumber(c)
        PROVE  AdministratorRemains'
    <3>1. inFlight[c].uid \in People
      BY <2>1 DEF RecordNumber, At, UsersTyped, Call, PhoneCall, CreateCall, SignInCall, OwnCall, Idle
    <3> DEFINE u == inFlight[c].uid
    <3>2. CASE profiles' = [profiles EXCEPT ![u].phone = inFlight[c].number]
      <4>1. \E p : profiles' = [profiles EXCEPT ![u] = p] /\ StaysLive(profiles[u], p)
        <5> WITNESS [profiles[u] EXCEPT !.phone = inFlight[c].number]
        <5> QED
          BY <3>1, <3>2, ProfilesTyped, EditsStayLive, Zenon
      <4> QED
        BY <1>2, <3>1, <4>1, Zenon
    <3> QED
      BY <1>3, <2>1, <3>2 DEF RecordNumber
  <2>2. ASSUME NEW c \in Lanes, CreateProfile(c)
        PROVE  AdministratorRemains'
    <3>1. inFlight[c].uid \in People
      BY <2>2 DEF CreateProfile, At, UsersTyped, Call, PhoneCall, CreateCall, SignInCall, OwnCall, Idle
    <3> DEFINE call == inFlight[c]
               p == NewProfile(call.number, call.role, call.staffId)
    <3>2. CASE profiles' = [profiles EXCEPT ![call.uid] = p] /\ ~profiles[call.uid].exists
      <4>1. a # call.uid
        BY <1>0, <3>2 DEF Administrator, AccountLive, AccountEnabled
      <4> QED
        BY <1>0, <1>1, <3>1, <3>2, <4>1, Zenon
    <3> QED
      BY <1>3, <2>2, <3>2 DEF CreateProfile
  <2>3. ASSUME NEW caller \in People, NEW u \in People, NEW active \in BOOLEAN,
               SetUserActive(caller, u, active)
        PROVE  AdministratorRemains'
    <3>1. caller # u /\ Administrator(caller)
      BY <2>3 DEF SetUserActive, MayTarget, Administrator
    <3>2. PICK p : profiles' = [profiles EXCEPT ![u] = p]
      BY <2>3 DEF SetUserActive
    <3> QED
      BY <1>1, <3>1, <3>2
  <2>4. ASSUME NEW c \in Lanes, MoveNumber(c) \/ PutNumberBack(c) \/ DeleteOrphan(c) \/ CutOff(c)
        PROVE  UNCHANGED profiles
    BY <2>4 DEF MoveNumber, PutNumberBack, DeleteOrphan, CutOff
  <2>5. ASSUME NEW c \in Lanes, NEW caller \in Clerks, NEW u \in People, NEW n \in Numbers,
               \/ AskForNumber(c, caller, u, n)
               \/ \E role \in NewRoles, id \in StaffIds \cup {Unset} : CreateLogin(c, caller, u, n, role, id)
        PROVE  UNCHANGED profiles
    BY <2>5 DEF AskForNumber, CreateLogin
  <2> QED
    BY <1>3, <1>4, <2>1, <2>2, <2>3, <2>4, <2>5 DEF IdentityStep, AccountStep, CrashStep
<1>5. CASE AppointmentStep
  <2> PICK caller \in People, u \in People, role \in Roles : SetUserRole(caller, u, role)
    BY <1>5 DEF AppointmentStep
  <2>1. caller # u /\ Administrator(caller)
    BY DEF SetUserRole, MayTarget, Administrator
  <2>2. PICK p : profiles' = [profiles EXCEPT ![u] = p]
    BY DEF SetUserRole
  <2> QED
    BY <1>1, <2>1, <2>2
<1>6. CASE AdministrationStep
  <2>1. ASSUME NEW caller \in People, NEW u \in People, ResetUserPassword(caller, u)
        PROVE  AdministratorRemains'
    <3>1. \E v \in People : v # u /\ Administrator(v)
      BY <1>0, <2>1 DEF ResetUserPassword, MayTarget, Administrator
    <3>2. PICK p : profiles' = [profiles EXCEPT ![u] = p]
      BY <2>1 DEF ResetUserPassword
    <3> QED
      BY <1>1, <3>1, <3>2
  <2>2. ASSUME NEW caller \in People, NEW u \in People, NEW id \in StaffIds \cup {Unset},
               LinkStaff(caller, u, id)
        PROVE  AdministratorRemains'
    <3>1. \E p : profiles' = [profiles EXCEPT ![u] = p] /\ StaysLive(profiles[u], p)
      <4> WITNESS [profiles[u] EXCEPT !.staffId = id]
      <4>1. profiles' = [profiles EXCEPT ![u].staffId = id]
        BY <2>2 DEF LinkStaff
      <4> QED
        BY <4>1, ProfilesTyped, EditsStayLive, Zenon
    <3> QED
      BY <1>2, <3>1, Zenon
  <2> QED
    BY <1>6, <2>1, <2>2 DEF AdministrationStep
<1>7. CASE PasswordStep
  <2>1. ASSUME NEW c \in Lanes, ChangeOwnPassword(c)
        PROVE  AdministratorRemains'
    <3>1. inFlight[c].uid \in People
      BY <2>1 DEF ChangeOwnPassword, At, UsersTyped, Call, PhoneCall, CreateCall, SignInCall, OwnCall, Idle
    <3> DEFINE u == inFlight[c].uid
    <3>2. \E p : profiles' = [profiles EXCEPT ![u] = p] /\ StaysLive(profiles[u], p)
      <4> WITNESS [profiles[u] EXCEPT !.mustChange = FALSE]
      <4>1. profiles' = [profiles EXCEPT ![u].mustChange = FALSE]
        BY <2>1 DEF ChangeOwnPassword
      <4> QED
        BY <3>1, <4>1, ProfilesTyped, EditsStayLive, Zenon
    <3> QED
      BY <1>2, <3>1, <3>2, Zenon
  <2> QED
    BY <1>3, <1>7, <2>1 DEF PasswordStep, TryPassword, TryOwnPassword, RightPassword,
       RightOwnPassword, WrongPassword, RecordFailure
<1>8. CASE GrantStep
  <2>1. ASSUME NEW u \in People, NEW x \in Nat, profiles' = [profiles EXCEPT ![u].temporary = x]
        PROVE  AdministratorRemains'
    <3>1. \E p : profiles' = [profiles EXCEPT ![u] = p] /\ StaysLive(profiles[u], p)
      <4> WITNESS [profiles[u] EXCEPT !.temporary = x]
      <4> QED
        BY <2>1, ProfilesTyped, EditsStayLive, Zenon
    <3> QED
      BY <1>2, <3>1, Zenon
  <2>2. ASSUME NEW g \in DOMAIN tempGrants, profiles' = profiles \/ profiles' = Forgotten(g)
        PROVE  AdministratorRemains'
    BY <1>3, <2>1, <2>2, ForgottenNamed
  <2>3. ASSUME NEW caller \in People, NEW u \in People, NEW window \in Grantable,
               GrantTemporaryPermission(caller, u, window)
        PROVE  AdministratorRemains'
    <3>1. Len(tempGrants) + 1 \in Nat
      BY GrantsTyped
    <3>2. profiles' = [profiles EXCEPT ![u].temporary = Len(tempGrants) + 1]
      BY <2>3 DEF GrantTemporaryPermission
    <3> QED
      BY <2>1, <3>1, <3>2
  <2>4. ASSUME NEW caller \in People, NEW u \in People,
               NEW standing \in {"default", "granted", "denied"}, SetUserPermissions(caller, u, standing)
        PROVE  AdministratorRemains'
    <3>1. caller # u /\ Administrator(caller)
      BY <2>4 DEF SetUserPermissions, MayTarget, Administrator
    <3>2. PICK p : profiles' = [profiles EXCEPT ![u] = p]
      BY <2>4 DEF SetUserPermissions
    <3> QED
      BY <1>1, <3>1, <3>2
  <2>5. CASE \E caller \in People, g \in DOMAIN tempGrants : RevokeTemporaryPermission(caller, g)
    BY <2>2, <2>5 DEF RevokeTemporaryPermission
  <2>6. CASE \E g \in sweep.list : Expire(g)
    <3> PICK g \in sweep.list : Expire(g)
      BY <2>6
    <3>1. g \in DOMAIN tempGrants
      BY DEF UsersTyped
    <3> QED
      BY <2>2, <3>1 DEF Expire
  <2>7. CASE SweepEnded \/ SweepEnding \/ SweepOver \/ \E g \in sweep.list : Warn(g)
    BY <1>3, <2>7 DEF SweepEnded, SweepEnding, SweepOver, Warn
  <2> QED
    BY <1>8, <2>3, <2>4, <2>5, <2>6, <2>7 DEF GrantStep
<1> QED
  BY <1>3, <1>4, <1>5, <1>6, <1>7, <1>8 DEF UsersNext, Tick, userVars

-----------------------------------------------------------------------------
(* Links and grants *)

\* Who has no profile yet has nothing that a profile names.
Made(p) == IF p.exists THEN p.phone \in Numbers ELSE p.staffId = Unset /\ p.temporary = 0
ProfilesMade == \A u \in People : Made(profiles[u])

\* GrantsIndexed, grant by grant.
Indexed ==
    \A u \in People :
        /\ profiles[u].temporary \in DOMAIN tempGrants \cup {0}
        /\ \A g \in DOMAIN tempGrants :
              tempGrants[g].status = "active" /\ tempGrants[g].uid = u <=> g = profiles[u].temporary

\* It says what GrantsIndexed says.
LEMMA IndexedIsGrantsIndexed ==
    ASSUME UsersTyped, Indexed
    PROVE  GrantsIndexed
<1> SUFFICES ASSUME NEW u \in People
             PROVE  {g \in ActiveGrants : tempGrants[g].uid = u} =
                        IF profiles[u].temporary = 0 THEN {} ELSE {profiles[u].temporary}
  BY DEF GrantsIndexed
<1>1. 0 \notin DOMAIN tempGrants
  BY GrantsTyped
<1> QED
  BY <1>1 DEF Indexed, ActiveGrants

\* A call that takes a number on the way makes or changes one profile.
LEMMA IdentityCases ==
    ASSUME UsersTyped, IdentityStep
    PROVE  \/ UNCHANGED <<profiles, staffUser, tempGrants>>
           \/ \E caller, u \in People, active \in BOOLEAN : SetUserActive(caller, u, active)
           \/ \E c \in Lanes : RecordNumber(c) \/ CreateProfile(c)
<1>1. ASSUME NEW c \in Lanes, MoveNumber(c) \/ PutNumberBack(c) \/ DeleteOrphan(c) \/ CutOff(c)
      PROVE  UNCHANGED <<profiles, staffUser, tempGrants>>
  BY <1>1 DEF MoveNumber, PutNumberBack, DeleteOrphan, CutOff, grantVars
<1>2. ASSUME NEW c \in Lanes, NEW caller \in Clerks, NEW u \in People, NEW n \in Numbers,
             \/ AskForNumber(c, caller, u, n)
             \/ \E role \in NewRoles, id \in StaffIds \cup {Unset} : CreateLogin(c, caller, u, n, role, id)
      PROVE  UNCHANGED <<profiles, staffUser, tempGrants>>
  BY <1>2 DEF AskForNumber, CreateLogin, grantVars
<1> QED
  BY <1>1, <1>2 DEF IdentityStep, AccountStep, CrashStep

\* Recording a number touches neither links nor grants.
LEMMA RecordFrame ==
    ASSUME UsersTyped, NEW c \in Lanes, RecordNumber(c)
    PROVE  /\ SameLinks /\ SameGrants
           /\ \A v \in People : /\ profiles'[v].exists <=> profiles[v].exists
                                /\ profiles'[v].phone # profiles[v].phone => profiles'[v].phone \in Numbers
<1>1. inFlight[c].uid \in People /\ inFlight[c].number \in Numbers
  BY DEF RecordNumber, At, UsersTyped, Call, PhoneCall, CreateCall, SignInCall, OwnCall, Idle
<1>2. ASSUME NEW v \in People
      PROVE  /\ profiles'[v].exists <=> profiles[v].exists
             /\ profiles'[v].phone # profiles[v].phone => profiles'[v].phone \in Numbers
             /\ profiles'[v].staffId = profiles[v].staffId
             /\ profiles'[v].temporary = profiles[v].temporary
  <2>1. CASE profiles' = [profiles EXCEPT ![inFlight[c].uid].phone = inFlight[c].number]
    <3>1. profiles[v] \in Profile /\ profiles \in [People -> Profile]
      BY DEF UsersTyped
    <3> QED
      BY <1>1, <2>1, <3>1 DEF Profile
  <2> QED
    BY <2>1 DEF RecordNumber
<1>3. UNCHANGED <<staffUser, tempGrants>>
  BY DEF RecordNumber, grantVars
<1> QED
  BY <1>2, <1>3 DEF SameLinks, SameGrants

\* A staff record and its account keep naming each other.
LEMMA LinksNext ==
    ASSUME UsersAssumption, UsersTyped, ProfilesMade, StaffLinksAgree, [UsersNext]_userVars
    PROVE  StaffLinksAgree'
<1>1. CASE SameLinks
  BY <1>1 DEF SameLinks, StaffLinksAgree
<1>2. ASSUME NEW caller \in People, NEW u \in People, NEW id \in StaffIds \cup {Unset},
             LinkStaff(caller, u, id)
      PROVE  StaffLinksAgree'
  <2>1. \A v \in People : profiles'[v].staffId = IF v = u THEN id ELSE profiles[v].staffId
    BY <1>2, ProfilesTyped DEF LinkStaff, UsersTyped, Profile
  <2>2. \A s \in StaffIds :
           staffUser'[s] = IF s = id THEN u
                           ELSE IF s = profiles[u].staffId /\ staffUser[s] = u THEN Unset
                           ELSE staffUser[s]
    BY <1>2 DEF LinkStaff
  <2>3. id # Unset => staffUser[id] \in {Unset, u}
    BY <1>2 DEF LinkStaff
  <2> QED
    BY <2>1, <2>2, <2>3 DEF StaffLinksAgree, UsersAssumption
<1>3. ASSUME NEW c \in Lanes, CreateProfile(c)
      PROVE  StaffLinksAgree'
  <2> DEFINE call == inFlight[c]
  <2>1. call \in CreateCall
    BY <1>3 DEF CreateProfile, At, UsersTyped, Call, PhoneCall, SignInCall, OwnCall, Idle
  <2>2. call.uid \in People /\ call.staffId \in StaffIds \cup {Unset}
    BY <2>1 DEF CreateCall
  <2>3. CASE UNCHANGED <<profiles, staffUser>>
    BY <2>3 DEF StaffLinksAgree
  <2>4. CASE ~UNCHANGED <<profiles, staffUser>>
    <3>1. /\ ~profiles[call.uid].exists
          /\ call.staffId # Unset => staffUser[call.staffId] \in {Unset, call.uid}
          /\ profiles' = [profiles EXCEPT ![call.uid] = NewProfile(call.number, call.role, call.staffId)]
          /\ staffUser' = [s \in StaffIds |-> IF s = call.staffId THEN call.uid ELSE staffUser[s]]
      BY <1>3, <2>4 DEF CreateProfile
    <3>2. profiles[call.uid].staffId = Unset
      BY <2>2, <3>1 DEF ProfilesMade, Made
    <3>3. NewProfile(call.number, call.role, call.staffId).staffId = call.staffId
      BY DEF NewProfile
    <3>4. \A v \in People : profiles'[v].staffId = IF v = call.uid THEN call.staffId ELSE profiles[v].staffId
      BY <2>2, <3>1, <3>3 DEF UsersTyped
    <3>5. \A s \in StaffIds : staffUser'[s] = IF s = call.staffId THEN call.uid ELSE staffUser[s]
      BY <3>1
    <3>6. call.staffId # Unset => staffUser[call.staffId] \in {Unset, call.uid}
      BY <3>1
    <3> HIDE DEF call
    <3> QED
      BY <2>2, <3>2, <3>4, <3>5, <3>6 DEF StaffLinksAgree, UsersAssumption
  <2> QED
    BY <2>3, <2>4
<1>4. CASE IdentityStep
  <2>1. CASE UNCHANGED <<profiles, staffUser, tempGrants>>
    BY <1>1, <2>1 DEF SameLinks
  <2> QED
    BY <1>1, <1>3, <1>4, <2>1, IdentityCases, SettingsFrame, RecordFrame
<1>5. CASE AppointmentStep \/ AdministrationStep
  BY <1>1, <1>2, <1>5, SettingsFrame DEF AppointmentStep, AdministrationStep
<1>6. CASE Tick \/ UNCHANGED userVars
  BY <1>1, <1>6 DEF Tick, userVars, SameLinks
<1> QED
  BY <1>1, <1>4, <1>5, <1>6, PasswordFrame, GrantFrame DEF UsersNext

\* The profile createUser writes is made, and names no grant.
LEMMA CreatedProfile ==
    ASSUME UsersTyped, NEW c \in Lanes, CreateProfile(c)
    PROVE  \/ UNCHANGED <<profiles, staffUser, tempGrants>>
           \/ \E u \in People, p \in Profile :
                 /\ u = inFlight[c].uid /\ ~profiles[u].exists
                 /\ profiles' = [profiles EXCEPT ![u] = p]
                 /\ p.exists /\ p.temporary = 0 /\ p.phone = inFlight[c].number
                 /\ p.phone \in Numbers
                 /\ tempGrants' = tempGrants
<1> DEFINE call == inFlight[c]
           p == NewProfile(call.number, call.role, call.staffId)
<1>1. call \in CreateCall
  BY DEF CreateProfile, At, UsersTyped, Call, PhoneCall, SignInCall, OwnCall, Idle
<1>2. /\ call.uid \in People /\ p \in Profile
      /\ p.exists /\ p.temporary = 0 /\ p.phone = call.number /\ p.phone \in Numbers
  BY <1>1 DEF CreateCall, NewProfile, Profile
<1>3. tempGrants' = tempGrants
  BY DEF CreateProfile, grantVars
<1>4. \/ UNCHANGED <<profiles, staffUser>>
      \/ ~profiles[call.uid].exists /\ profiles' = [profiles EXCEPT ![call.uid] = p]
  BY DEF CreateProfile
<1> HIDE DEF p
<1> QED
  BY <1>2, <1>3, <1>4

\* Profiles stay made.
LEMMA MadeNext ==
    ASSUME UsersAssumption, UsersTyped, ProfilesMade, [UsersNext]_userVars
    PROVE  ProfilesMade'
<1>1. ASSUME SameLinks, SameStores,
             \A u \in People : ~profiles[u].exists => profiles'[u].temporary = profiles[u].temporary
      PROVE  ProfilesMade'
  BY <1>1 DEF ProfilesMade, Made, SameLinks, SameStores
<1>2. ASSUME SameLinks, SameGrants, SameStores
      PROVE  ProfilesMade'
  BY <1>1, <1>2 DEF SameGrants
<1>3. ASSUME NEW c \in Lanes, CreateProfile(c)
      PROVE  ProfilesMade'
  <2>1. CASE UNCHANGED <<profiles, staffUser, tempGrants>>
    BY <2>1 DEF ProfilesMade, Made
  <2>2. ASSUME NEW u \in People, NEW p \in Profile, profiles' = [profiles EXCEPT ![u] = p],
               p.exists, p.phone \in Numbers
        PROVE  ProfilesMade'
    <3>1. \A v \in People : profiles'[v] = IF v = u THEN p ELSE profiles[v]
      BY <2>2 DEF UsersTyped
    <3> QED
      BY <2>2, <3>1 DEF ProfilesMade, Made
  <2> QED
    BY <1>3, <2>1, <2>2, CreatedProfile
<1>4. ASSUME NEW c \in Lanes, RecordNumber(c)
      PROVE  ProfilesMade'
  <2> SUFFICES ASSUME NEW v \in People
               PROVE  Made(profiles'[v])
    BY DEF ProfilesMade
  <2>1. /\ profiles'[v].exists <=> profiles[v].exists
        /\ profiles'[v].phone # profiles[v].phone => profiles'[v].phone \in Numbers
        /\ profiles'[v].staffId = profiles[v].staffId
        /\ profiles'[v].temporary = profiles[v].temporary
    BY <1>4, RecordFrame DEF SameLinks, SameGrants
  <2>2. Made(profiles[v])
    BY DEF ProfilesMade
  <2> QED
    BY <2>1, <2>2 DEF Made
<1>5. CASE IdentityStep
  <2>1. CASE UNCHANGED <<profiles, staffUser, tempGrants>>
    BY <2>1 DEF ProfilesMade, Made
  <2> QED
    BY <1>2, <1>3, <1>4, <1>5, <2>1, IdentityCases, SettingsFrame
<1>6. ASSUME NEW caller \in People, NEW u \in People, NEW id \in StaffIds \cup {Unset},
             LinkStaff(caller, u, id)
      PROVE  ProfilesMade'
  <2>1. \A v \in People : v # u => profiles'[v].staffId = profiles[v].staffId
    BY <1>6 DEF LinkStaff, UsersTyped
  <2>2. profiles[u].exists
    BY <1>6 DEF LinkStaff
  <2> QED
    BY <1>6, <2>1, <2>2, LinkFrame DEF ProfilesMade, Made, SameGrants, SameStores
<1>7. CASE AppointmentStep \/ AdministrationStep
  BY <1>2, <1>6, <1>7, SettingsFrame DEF AppointmentStep, AdministrationStep
<1>8. CASE GrantStep
  <2>1. ASSUME NEW u \in People, ~profiles[u].exists
        PROVE  profiles'[u].temporary = profiles[u].temporary
    <3>1. ASSUME NEW g \in DOMAIN tempGrants
          PROVE  Forgotten(g)[u].temporary \in {0, profiles[u].temporary}
      <4>1. tempGrants[g].uid \in People /\ profiles[tempGrants[g].uid] \in Profile
        BY GrantsTyped DEF TemporaryGrant, UsersTyped
      <4> QED
        BY <4>1 DEF Forgotten, UsersTyped, Profile
    <3>2. profiles[u].temporary = 0
      BY <2>1 DEF ProfilesMade, Made
    <3>3. CASE \E g \in DOMAIN tempGrants : profiles' \in {profiles, Forgotten(g)}
      BY <3>1, <3>2, <3>3
    <3>4. CASE \E caller, v \in People, window \in Grantable : GrantTemporaryPermission(caller, v, window)
      <4>1. PICK v \in People : /\ profiles[v].exists
                                /\ profiles' = [profiles EXCEPT ![v].temporary = Len(tempGrants) + 1]
        BY <3>4 DEF GrantTemporaryPermission, AccountLive, AccountEnabled
      <4>2. u # v
        BY <2>1, <4>1
      <4> QED
        BY <4>1, <4>2 DEF UsersTyped
    <3>5. CASE \E caller, v \in People, standing \in {"default", "granted", "denied"} :
                  SetUserPermissions(caller, v, standing)
      BY <3>5, SettingsFrame DEF SameGrants
    <3>6. CASE \E caller \in People, g \in DOMAIN tempGrants : RevokeTemporaryPermission(caller, g)
      BY <3>3, <3>6 DEF RevokeTemporaryPermission
    <3>7. CASE \E g \in sweep.list : Expire(g)
      <4> PICK g \in sweep.list : Expire(g)
        BY <3>7
      <4>1. g \in DOMAIN tempGrants
        BY DEF UsersTyped
      <4> QED
        BY <3>3, <4>1 DEF Expire
    <3>8. CASE SweepEnded \/ SweepEnding \/ SweepOver \/ \E g \in sweep.list : Warn(g)
      BY <3>8 DEF SweepEnded, SweepEnding, SweepOver, Warn
    <3> QED
      BY <1>8, <3>4, <3>5, <3>6, <3>7, <3>8 DEF GrantStep
  <2> QED
    BY <1>1, <1>8, <2>1, GrantFrame
<1>9. CASE Tick \/ UNCHANGED userVars
  BY <1>9 DEF Tick, userVars, ProfilesMade, Made
<1> QED
  BY <1>2, <1>5, <1>7, <1>8, <1>9, PasswordFrame DEF UsersNext

\* Ending grants that name themselves in their profiles: no others name them.
LEMMA EndedIndexed ==
    ASSUME UsersTyped, Indexed, NEW g \in DOMAIN tempGrants, NEW x \in {"revoked", "expired"},
           tempGrants[g].status = "active",
           tempGrants' = [tempGrants EXCEPT ![g].status = x],
           profiles' = Forgotten(g)
    PROVE  Indexed'
<1> DEFINE u == tempGrants[g].uid
<1>1. u \in People /\ profiles[u].temporary = g
  BY GrantsTyped DEF Indexed, TemporaryGrant
<1>2. \A v \in People : profiles'[v].temporary = IF v = u THEN 0 ELSE profiles[v].temporary
  <2> SUFFICES ASSUME NEW v \in People
               PROVE  profiles'[v].temporary = IF v = u THEN 0 ELSE profiles[v].temporary
    OBVIOUS
  <2>1. profiles[v] \in Profile /\ profiles \in [People -> Profile]
    BY DEF UsersTyped
  <2> QED
    BY <1>1, <2>1 DEF Forgotten, Profile
<1>3. DOMAIN tempGrants' = DOMAIN tempGrants
  BY GrantsTyped
<1>4. \A h \in DOMAIN tempGrants : /\ tempGrants'[h].uid = tempGrants[h].uid
                                   /\ tempGrants'[h].status = IF h = g THEN x ELSE tempGrants[h].status
  <2> SUFFICES ASSUME NEW h \in DOMAIN tempGrants
               PROVE  /\ tempGrants'[h].uid = tempGrants[h].uid
                      /\ tempGrants'[h].status = IF h = g THEN x ELSE tempGrants[h].status
    OBVIOUS
  <2>1. tempGrants[h] \in TemporaryGrant
    BY GrantsTyped
  <2>2. tempGrants'[h] = IF h = g THEN [tempGrants[g] EXCEPT !.status = x] ELSE tempGrants[h]
    OBVIOUS
  <2> QED
    BY <2>1, <2>2 DEF TemporaryGrant
<1>5. 0 \notin DOMAIN tempGrants
  BY GrantsTyped
<1> HIDE DEF u
<1>6. u = tempGrants[g].uid
  BY DEF u
<1> QED
  BY <1>1, <1>2, <1>3, <1>4, <1>5, <1>6 DEF Indexed

\* A profile keeps naming the one active grant of its person.
LEMMA IndexedNext ==
    ASSUME UsersAssumption, UsersTyped, ProfilesMade, Indexed, [UsersNext]_userVars
    PROVE  Indexed'
<1>1. CASE SameGrants
  BY <1>1 DEF SameGrants, Indexed
<1>2. ASSUME NEW c \in Lanes, CreateProfile(c)
      PROVE  Indexed'
  <2>1. CASE UNCHANGED <<profiles, staffUser, tempGrants>>
    BY <2>1 DEF Indexed
  <2>2. ASSUME NEW u \in People, NEW p \in Profile, ~profiles[u].exists,
               profiles' = [profiles EXCEPT ![u] = p], p.temporary = 0, tempGrants' = tempGrants
        PROVE  Indexed'
    <3>1. profiles[u].temporary = 0
      BY <2>2 DEF ProfilesMade, Made
    <3>2. \A v \in People : profiles'[v].temporary = profiles[v].temporary
      BY <2>2, <3>1 DEF UsersTyped
    <3> QED
      BY <1>1, <2>2, <3>2 DEF SameGrants
  <2> QED
    BY <1>2, <2>1, <2>2, CreatedProfile
<1>3. CASE IdentityStep
  <2>1. CASE UNCHANGED <<profiles, staffUser, tempGrants>>
    BY <1>1, <2>1 DEF SameGrants
  <2> QED
    BY <1>1, <1>2, <1>3, <2>1, IdentityCases, SettingsFrame, RecordFrame
<1>4. CASE AppointmentStep \/ AdministrationStep
  BY <1>1, <1>4, SettingsFrame, LinkFrame DEF AppointmentStep, AdministrationStep
<1>5. CASE GrantStep
  <2>1. ASSUME NEW caller \in People, NEW g \in DOMAIN tempGrants, RevokeTemporaryPermission(caller, g)
        PROVE  Indexed'
    BY <2>1, EndedIndexed DEF RevokeTemporaryPermission
  <2>2. ASSUME NEW g \in sweep.list, Expire(g)
        PROVE  Indexed'
    <3>1. g \in DOMAIN tempGrants
      BY DEF UsersTyped
    <3>2. CASE tempGrants[g].status = "active"
      BY <2>2, <3>1, <3>2, EndedIndexed DEF Expire
    <3>3. CASE tempGrants[g].status # "active"
      BY <1>1, <2>2, <3>3 DEF Expire, SameGrants
    <3> QED
      BY <3>2, <3>3
  <2>3. ASSUME NEW g \in sweep.list, Warn(g)
        PROVE  Indexed'
    <3>1. g \in DOMAIN tempGrants
      BY DEF UsersTyped
    <3>2. DOMAIN tempGrants' = DOMAIN tempGrants /\ profiles' = profiles
      BY <2>3 DEF Warn
    <3>3. ASSUME NEW h \in DOMAIN tempGrants
          PROVE  tempGrants'[h].uid = tempGrants[h].uid /\ tempGrants'[h].status = tempGrants[h].status
      <4>1. tempGrants[h] \in TemporaryGrant
        BY GrantsTyped
      <4> QED
        BY <2>3, <3>1, <4>1 DEF Warn, TemporaryGrant
    <3> QED
      BY <3>2, <3>3 DEF Indexed
  <2>4. CASE SweepEnded \/ SweepEnding \/ SweepOver
    BY <1>1, <2>4 DEF SweepEnded, SweepEnding, SweepOver, SameGrants
  <2>5. ASSUME NEW caller \in People, NEW u \in People, NEW window \in Grantable,
               GrantTemporaryPermission(caller, u, window)
        PROVE  Indexed'
    <3> DEFINE former == profiles[u].temporary
               n == Len(tempGrants)
               kept == [g \in DOMAIN tempGrants |->
                           IF g = former /\ tempGrants[g].status = "active"
                           THEN [tempGrants[g] EXCEPT !.status = "superseded"] ELSE tempGrants[g]]
               new == [uid |-> u, from |-> window.from, until |-> window.until,
                       warned |-> FALSE, status |-> "active"]
    <3>1. ASSUME NEW g \in DOMAIN tempGrants
          PROVE  /\ kept[g] \in TemporaryGrant /\ kept[g].uid = tempGrants[g].uid
                 /\ kept[g].status = "active" <=> tempGrants[g].status = "active" /\ g # former
      <4>1. tempGrants[g] \in TemporaryGrant
        BY GrantsTyped
      <4> QED
        BY <4>1 DEF TemporaryGrant
    <3>2. /\ kept \in Seq(TemporaryGrant) /\ Len(kept) = n /\ n \in Nat
          /\ DOMAIN kept = DOMAIN tempGrants /\ DOMAIN tempGrants = 1..n
      <4>1. DOMAIN kept = 1..n /\ kept = [g \in 1..n |-> kept[g]]
        BY GrantsTyped
      <4> HIDE DEF kept
      <4> QED
        BY <3>1, <4>1, GrantsTyped, SeqDef, LenProperties
    <3>3. new \in TemporaryGrant /\ new.uid = u /\ new.status = "active"
      BY DEF UsersAssumption, TemporaryGrant
    <3>4. tempGrants' = Append(kept, new)
      BY <2>5 DEF GrantTemporaryPermission
    <3>5. \A v \in People : profiles'[v].temporary = IF v = u THEN n + 1 ELSE profiles[v].temporary
      <4>1. profiles' = [profiles EXCEPT ![u].temporary = n + 1]
        BY <2>5 DEF GrantTemporaryPermission
      <4>2. profiles[u] \in Profile /\ profiles \in [People -> Profile]
        BY DEF UsersTyped
      <4> QED
        BY <4>1, <4>2 DEF Profile
    <3> HIDE DEF kept, new, n
    <3>6. /\ DOMAIN tempGrants' = 1..(n + 1)
          /\ \A g \in 1..n : tempGrants'[g] = kept[g]
          /\ tempGrants'[n + 1] = new
      <4>1. /\ Append(kept, new) \in Seq(TemporaryGrant) /\ Len(Append(kept, new)) = n + 1
            /\ \A g \in 1..n : Append(kept, new)[g] = kept[g]
            /\ Append(kept, new)[n + 1] = new
        BY <3>2, <3>3, AppendProperties
      <4>2. DOMAIN Append(kept, new) = 1..(n + 1)
        BY <4>1, LenProperties
      <4> QED
        BY <3>4, <4>1, <4>2
    <3>7. \A v \in People : profiles[v].temporary \in (1..n) \cup {0}
      BY <3>2 DEF Indexed
    <3>8. ASSUME NEW v \in People, NEW g \in 1..n
          PROVE  tempGrants'[g].status = "active" /\ tempGrants'[g].uid = v
                     <=> v # u /\ g = profiles[v].temporary
      BY <3>1, <3>2, <3>6 DEF Indexed
    <3>9. ASSUME NEW v \in People, NEW g \in 1..(n + 1)
          PROVE  tempGrants'[g].status = "active" /\ tempGrants'[g].uid = v
                     <=> g = profiles'[v].temporary
      <4>1. CASE g = n + 1
        BY <3>2, <3>3, <3>5, <3>6, <3>7, <4>1
      <4>2. CASE g # n + 1
        BY <3>2, <3>5, <3>8, <4>2
      <4> QED
        BY <4>1, <4>2
    <3> QED
      BY <3>2, <3>5, <3>6, <3>7, <3>9 DEF Indexed
  <2> QED
    BY <1>1, <1>5, <2>1, <2>2, <2>3, <2>4, <2>5, SettingsFrame DEF GrantStep
<1>6. CASE Tick \/ UNCHANGED userVars
  BY <1>1, <1>6 DEF Tick, userVars, SameGrants, grantVars
<1> QED
  BY <1>1, <1>3, <1>4, <1>5, <1>6, PasswordFrame DEF UsersNext

-----------------------------------------------------------------------------
(* The two stores *)

\* No number is two people's.
Distinct == \A u, v \in People : logins[u] = logins[v] /\ u # v => logins[u] = Unset

\* A call that met no other shares neither its person nor its numbers.
Alone(c) ==
    \A d \in Lanes \ {c} : ChangesIdentity(inFlight[d]) =>
        /\ inFlight[d].uid # inFlight[c].uid
        /\ NumbersOf(inFlight[d]) \cap NumbersOf(inFlight[c]) = {}

\* What such a call has done so far: the login is where its step says, and the number
\* it would put back is free.
PhoneRight(call) ==
    /\ profiles[call.uid].exists /\ profiles[call.uid].phone = call.old
    /\ logins[call.uid] = IF call.step = "asked" THEN call.old ELSE call.number
    /\ FreeFor(call.uid, call.old)
CreateRight(call) == ~profiles[call.uid].exists /\ call.new /\ logins[call.uid] = call.number
OnTheWay(c) ==
    /\ Alone(c)
    /\ inFlight[c].kind = "phone" => PhoneRight(inFlight[c])
    /\ inFlight[c].kind = "create" => CreateRight(inFlight[c])

Agrees(u) == logins[u] = IF profiles[u].exists THEN profiles[u].phone ELSE Unset

StoresInv ==
    /\ Distinct
    /\ \A c \in Lanes : ChangesIdentity(inFlight[c]) /\ inFlight[c].uid \notin crossed => OnTheWay(c)
    /\ \A u \in People \ crossed : Quiet(u) => Agrees(u)

\* What is about nobody's account leaves the stores alone.
LEMMA SameStoresKeep ==
    ASSUME UsersTyped, StoresInv, SameStores
    PROVE  StoresInv'
<1>1. Distinct'
  BY DEF StoresInv, Distinct, SameStores
<1>2. \A d \in Lanes : ChangesIdentity(inFlight'[d]) => ChangesIdentity(inFlight[d]) /\ inFlight'[d] = inFlight[d]
  BY DEF SameStores, SameCalls
<1>3. ASSUME NEW c \in Lanes, ChangesIdentity(inFlight'[c]), inFlight'[c].uid \notin crossed'
      PROVE  OnTheWay(c)'
  <2>1. inFlight'[c] = inFlight[c] /\ OnTheWay(c)
    BY <1>2, <1>3 DEF StoresInv, SameStores
  <2>2. Alone(c)'
    BY <1>2, <2>1 DEF OnTheWay, Alone
  <2>3. inFlight[c] \in PhoneCall \cup CreateCall
    BY <1>2, <1>3 DEF ChangesIdentity, UsersTyped, Call, SignInCall, OwnCall, Idle
  <2>4. inFlight[c].uid \in People
    BY <2>3 DEF PhoneCall, CreateCall
  <2>5. inFlight[c].kind = "phone" => PhoneRight(inFlight[c])'
    BY <2>1, <2>4 DEF OnTheWay, PhoneRight, FreeFor, SameStores
  <2>6. inFlight[c].kind = "create" => CreateRight(inFlight[c])'
    BY <2>1, <2>4 DEF OnTheWay, CreateRight, SameStores
  <2> QED
    BY <2>1, <2>2, <2>5, <2>6 DEF OnTheWay
<1>4. ASSUME NEW u \in People \ crossed', Quiet(u)'
      PROVE  Agrees(u)'
  <2>1. Quiet(u)
    BY <1>4 DEF Quiet, SameStores, SameCalls
  <2> QED
    BY <1>4, <2>1 DEF StoresInv, Agrees, SameStores
<1> QED
  BY <1>1, <1>3, <1>4 DEF StoresInv

\* What a step does to one call, one login, the profiles of others.
OneCall(c, next) == \A d \in Lanes : inFlight'[d] = IF d = c THEN next ELSE inFlight[d]
OneLogin(w, x) == \A v \in People : logins'[v] = IF v = w THEN x ELSE logins[v]
OthersKept(w) == \A v \in People \ {w} : profiles'[v] = profiles[v]

\* The call goes on about the same, as it should be or at its end.
Continues(call, next) ==
    ChangesIdentity(next) => next.uid = call.uid /\ NumbersOf(next) = NumbersOf(call)
RightAfter(w, next) ==
    /\ next.kind = "phone" => PhoneRight(next)'
    /\ next.kind = "create" => CreateRight(next)'
    /\ ~ChangesIdentity(next) => Agrees(w)'

\* The functions behind OneCall and OneLogin.
LEMMA OneOfMany ==
    ASSUME UsersTyped
    PROVE  /\ \A c \in Lanes : \A next : inFlight' = [inFlight EXCEPT ![c] = next] => OneCall(c, next)
           /\ \A w \in People : \A x : logins' = [logins EXCEPT ![w] = x] => OneLogin(w, x)
           /\ \A w \in People : logins' = logins => OneLogin(w, logins[w])
           /\ \A w : profiles' = profiles => OthersKept(w)
           /\ \A w \in People : \A p : profiles' = [profiles EXCEPT ![w] = p] =>
                  OthersKept(w) /\ profiles'[w] = p
BY DEF UsersTyped, OneCall, OneLogin, OthersKept

\* A call under way is of one of the two kinds.
LEMMA IdentityCalls ==
    ASSUME UsersTyped, NEW c \in Lanes, ChangesIdentity(inFlight[c])
    PROVE  /\ inFlight[c] \in PhoneCall \cup CreateCall
           /\ inFlight[c].uid \in People
           /\ NumbersOf(inFlight[c]) \subseteq Numbers \cup {Unset}
           /\ inFlight[c].number \in NumbersOf(inFlight[c])
           /\ inFlight[c].kind = "phone" => inFlight[c].old \in NumbersOf(inFlight[c])
<1>1. inFlight[c] \in PhoneCall \cup CreateCall
  BY DEF ChangesIdentity, UsersTyped, Call, SignInCall, OwnCall, Idle
<1> QED
  BY <1>1 DEF PhoneCall, CreateCall, NumbersOf

\* A step of a call changes the login and the profile of its person only, and gives the
\* login a number of its own that is free, or none.
LEMMA CallStepKeeps ==
    ASSUME UsersAssumption, UsersTyped, ProfilesMade, StoresInv,
           NEW c \in Lanes, ChangesIdentity(inFlight[c]), NEW w, w = inFlight[c].uid,
           NEW next, OneCall(c, next), Continues(inFlight[c], next), crossed' = crossed,
           NEW x, OneLogin(w, x),
           x = logins[w] \/ x = Unset \/ (x \in NumbersOf(inFlight[c]) /\ FreeFor(w, x)),
           OthersKept(w),
           w \notin crossed => RightAfter(w, next)
    PROVE  StoresInv'
<1>0. w \in People
  BY IdentityCalls
<1>1. \A v \in People : logins'[v] = IF v = w THEN x ELSE logins[v]
  BY DEF OneLogin
<1>2. \A d \in Lanes : inFlight'[d] = IF d = c THEN next ELSE inFlight[d]
  BY DEF OneCall
<1>3. Distinct'
  BY <1>0, <1>1 DEF StoresInv, Distinct, FreeFor
<1>4. ASSUME NEW d \in Lanes, ChangesIdentity(inFlight'[d]), inFlight'[d].uid \notin crossed'
      PROVE  OnTheWay(d)'
  <2>1. CASE d = c
    <3>1. next.uid = w /\ NumbersOf(next) = NumbersOf(inFlight[c]) /\ w \notin crossed
      BY <1>2, <1>4, <2>1 DEF Continues
    <3>2. Alone(c)
      BY <3>1 DEF StoresInv, OnTheWay
    <3>3. Alone(c)'
      BY <1>2, <3>1, <3>2 DEF Alone
    <3> QED
      BY <1>2, <2>1, <3>1, <3>3 DEF OnTheWay, RightAfter
  <2>2. CASE d # c
    <3> DEFINE call == inFlight[d]
    <3>1. inFlight'[d] = call /\ ChangesIdentity(call) /\ call.uid \notin crossed
      BY <1>2, <1>4, <2>2
    <3>2. OnTheWay(d)
      BY <3>1 DEF StoresInv
    <3>3. call.uid # w /\ NumbersOf(inFlight[c]) \cap NumbersOf(call) = {}
      BY <2>2, <3>2 DEF OnTheWay, Alone
    <3>4. Alone(d)'
      BY <1>2, <2>2, <3>1, <3>2 DEF OnTheWay, Alone, Continues
    <3>5. call.uid \in People /\ profiles'[call.uid] = profiles[call.uid] /\ logins'[call.uid] = logins[call.uid]
      BY <1>1, <3>1, <3>3, IdentityCalls DEF OthersKept
    <3>6. ASSUME call.kind = "phone"
          PROVE  PhoneRight(call)'
      <4>1. PhoneRight(call) /\ call.old \in NumbersOf(call)
        BY <3>1, <3>2, <3>6, IdentityCalls DEF OnTheWay
      <4>2. call.old # Unset
        BY <3>5, <4>1 DEF PhoneRight, ProfilesMade, Made, UsersAssumption
      <4>3. logins[w] # call.old
        BY <1>0, <3>3, <4>1 DEF PhoneRight, FreeFor
      <4>4. x # call.old
        BY <3>3, <4>1, <4>2, <4>3
      <4>5. FreeFor(call.uid, call.old)'
        BY <1>1, <3>1, <4>1, <4>4 DEF PhoneRight, FreeFor
      <4> QED
        BY <3>1, <3>5, <4>1, <4>5 DEF PhoneRight
    <3>7. ASSUME call.kind = "create"
          PROVE  CreateRight(call)'
      BY <3>1, <3>2, <3>5, <3>7 DEF OnTheWay, CreateRight
    <3> QED
      BY <3>1, <3>4, <3>6, <3>7 DEF OnTheWay
  <2> QED
    BY <2>1, <2>2
<1>5. ASSUME NEW u \in People \ crossed', Quiet(u)'
      PROVE  Agrees(u)'
  <2>1. CASE u = w
    BY <1>2, <1>5, <2>1 DEF Quiet, Continues, RightAfter
  <2>2. CASE u # w
    <3>1. Quiet(u)
      BY <1>2, <1>5, <2>2 DEF Quiet
    <3> QED
      BY <1>1, <1>5, <2>2, <3>1 DEF StoresInv, Agrees, OthersKept
  <2> QED
    BY <2>1, <2>2
<1> QED
  BY <1>3, <1>4, <1>5 DEF StoresInv

\* A call that begins meets those it shares something with.
LEMMA BeginKeeps ==
    ASSUME UsersAssumption, UsersTyped, ProfilesMade, StoresInv,
           NEW c \in Lanes, NEW call \in PhoneCall \cup CreateCall, Begin(c, call),
           NEW x, OneLogin(call.uid, x),
           x = logins[call.uid] \/ (x = call.number /\ FreeFor(call.uid, x)),
           profiles' = profiles,
           call.uid \notin crossed /\ Agrees(call.uid) =>
              /\ call.kind = "phone" => PhoneRight(call)'
              /\ call.kind = "create" => CreateRight(call)'
    PROVE  StoresInv'
<1> DEFINE w == call.uid
<1>0. w \in People /\ ChangesIdentity(call) /\ call.number \in NumbersOf(call)
  BY DEF PhoneCall, CreateCall, ChangesIdentity, NumbersOf
<1>1. \A v \in People : logins'[v] = IF v = w THEN x ELSE logins[v]
  BY DEF OneLogin
<1>2. \A d \in Lanes : inFlight'[d] = IF d = c THEN call ELSE inFlight[d]
  BY DEF UsersTyped, Begin
<1>3. ~ChangesIdentity(inFlight[c])
  BY DEF Begin, NextLane, Idle, ChangesIdentity
<1>4. /\ crossed \subseteq crossed'
      /\ \A d \in Meets(call) : w \in crossed' /\ inFlight[d].uid \in crossed'
  BY DEF Begin
<1>5. \A d \in Lanes : ChangesIdentity(inFlight[d]) /\ d \notin Meets(call) =>
         inFlight[d].uid # w /\ NumbersOf(inFlight[d]) \cap NumbersOf(call) = {}
  BY DEF Meets
<1>6. Distinct'
  BY <1>0, <1>1 DEF StoresInv, Distinct, FreeFor
<1>7. ASSUME NEW d \in Lanes, ChangesIdentity(inFlight'[d]), inFlight'[d].uid \notin crossed'
      PROVE  OnTheWay(d)'
  <2>1. CASE d = c
    <3>1. w \notin crossed /\ Meets(call) = {}
      BY <1>2, <1>4, <1>7, <2>1
    <3>2. Alone(c)'
      BY <1>2, <1>5, <3>1 DEF Alone
    <3>3. Quiet(w)
      BY <1>5, <3>1 DEF Quiet
    <3>4. Agrees(w)
      BY <1>0, <3>1, <3>3 DEF StoresInv
    <3> QED
      BY <1>2, <2>1, <3>1, <3>2, <3>4 DEF OnTheWay
  <2>2. CASE d # c
    <3> DEFINE other == inFlight[d]
    <3>1. inFlight'[d] = other /\ ChangesIdentity(other) /\ other.uid \notin crossed'
      BY <1>2, <1>7, <2>2
    <3>2. OnTheWay(d)
      BY <1>4, <3>1 DEF StoresInv
    <3>3. other.uid # w /\ NumbersOf(other) \cap NumbersOf(call) = {}
      BY <1>4, <1>5, <3>1
    <3>4. Alone(d)'
      BY <1>2, <2>2, <3>1, <3>2, <3>3 DEF OnTheWay, Alone
    <3>5. other.uid \in People /\ logins'[other.uid] = logins[other.uid]
      BY <1>1, <3>1, <3>3, IdentityCalls
    <3>6. ASSUME other.kind = "phone"
          PROVE  PhoneRight(other)'
      <4>1. PhoneRight(other) /\ other.old \in NumbersOf(other)
        BY <3>1, <3>2, <3>6, IdentityCalls DEF OnTheWay
      <4>2. logins[w] # other.old
        BY <1>0, <3>3, <4>1 DEF PhoneRight, FreeFor
      <4>3. x # other.old
        BY <1>0, <3>3, <4>1, <4>2
      <4>4. FreeFor(other.uid, other.old)'
        BY <1>1, <3>1, <4>1, <4>3 DEF PhoneRight, FreeFor
      <4> QED
        BY <3>1, <3>5, <4>1, <4>4 DEF PhoneRight
    <3>7. ASSUME other.kind = "create"
          PROVE  CreateRight(other)'
      BY <3>1, <3>2, <3>5, <3>7 DEF OnTheWay, CreateRight
    <3> QED
      BY <3>1, <3>4, <3>6, <3>7 DEF OnTheWay
  <2> QED
    BY <2>1, <2>2
<1>8. ASSUME NEW u \in People \ crossed', Quiet(u)'
      PROVE  Agrees(u)'
  <2>1. u # w
    BY <1>0, <1>2, <1>8 DEF Quiet
  <2>2. Quiet(u)
    BY <1>2, <1>3, <1>8 DEF Quiet
  <2> QED
    BY <1>1, <1>4, <1>8, <2>1, <2>2 DEF StoresInv, Agrees
<1> QED
  BY <1>6, <1>7, <1>8 DEF StoresInv

\* A call cut off gives up its person's stores, no other's.
LEMMA CutOffKeeps ==
    ASSUME UsersTyped, StoresInv, NEW c \in Lanes, CutOff(c)
    PROVE  StoresInv'
<1>1. /\ UNCHANGED <<logins, profiles>>
      /\ crossed' = IF ChangesIdentity(inFlight[c]) THEN crossed \cup {inFlight[c].uid} ELSE crossed
      /\ \A d \in Lanes : inFlight'[d] = IF d = c THEN Idle ELSE inFlight[d]
  BY DEF CutOff, Ended, UsersTyped
<1>2. ~ChangesIdentity(Idle)
  BY DEF Idle, ChangesIdentity
<1>3. Distinct'
  BY <1>1 DEF StoresInv, Distinct
<1>4. ASSUME NEW d \in Lanes, ChangesIdentity(inFlight'[d]), inFlight'[d].uid \notin crossed'
      PROVE  OnTheWay(d)'
  <2>1. d # c /\ inFlight'[d] = inFlight[d] /\ OnTheWay(d)
    BY <1>1, <1>2, <1>4 DEF StoresInv
  <2>2. Alone(d)'
    BY <1>1, <1>2, <2>1 DEF OnTheWay, Alone
  <2> QED
    BY <1>1, <2>1, <2>2 DEF OnTheWay, PhoneRight, CreateRight, FreeFor
<1>5. ASSUME NEW u \in People \ crossed', Quiet(u)'
      PROVE  Agrees(u)'
  <2>1. Quiet(u)
    BY <1>1, <1>5 DEF Quiet
  <2> QED
    BY <1>1, <1>5, <2>1 DEF StoresInv, Agrees
<1> QED
  BY <1>3, <1>4, <1>5 DEF StoresInv

\* No step of a call leaves the stores in disagreement.
LEMMA CallsKeep ==
    ASSUME UsersAssumption, UsersTyped, ProfilesMade, StoresInv, IdentityStep
    PROVE  StoresInv'
<1>1. ASSUME NEW c \in Lanes, NEW caller \in Clerks, NEW u \in People, NEW n \in Numbers,
             AskForNumber(c, caller, u, n)
      PROVE  StoresInv'
  <2>1. PICK call : call = [kind |-> "phone", step |-> "asked", caller |-> caller, uid |-> u,
                            number |-> n, old |-> profiles[u].phone]
    OBVIOUS
  <2>2. /\ call \in PhoneCall /\ call.kind = "phone" /\ call.uid = u /\ call.step = "asked"
        /\ call.old = profiles[u].phone
    BY <2>1, ProfilesTyped DEF UsersAssumption, PhoneCall, Profile
  <2>3. Begin(c, call) /\ profiles' = profiles /\ logins' = logins /\ profiles[u].exists
    BY <1>1, <2>1 DEF AskForNumber, MayTarget
  <2>4. ASSUME Agrees(u)
        PROVE  PhoneRight(call)'
    <3>1. logins[u] = profiles[u].phone /\ profiles[u].phone \in Numbers
      BY <2>3, <2>4 DEF Agrees, ProfilesMade, Made
    <3>2. FreeFor(u, profiles[u].phone)
      BY <3>1 DEF FreeFor, StoresInv, Distinct, UsersAssumption
    <3> QED
      BY <2>2, <2>3, <3>1, <3>2 DEF PhoneRight, FreeFor
  <2>5. PICK x : x = logins[call.uid] /\ OneLogin(call.uid, x)
    BY <2>2, <2>3, OneOfMany
  <2> QED
    BY <2>2, <2>3, <2>4, <2>5, BeginKeeps
<1>2. ASSUME NEW c \in Lanes, NEW caller \in Clerks, NEW u \in People, NEW n \in Numbers,
             NEW role \in NewRoles, NEW id \in StaffIds \cup {Unset},
             CreateLogin(c, caller, u, n, role, id)
      PROVE  StoresInv'
  <2>1. PICK call : call = [kind |-> "create", step |-> "made", caller |-> caller, uid |-> u,
                            number |-> n, role |-> role, staffId |-> id, new |-> logins[u] = Unset]
    OBVIOUS
  <2>2. /\ call \in CreateCall /\ call.kind = "create" /\ call.uid = u /\ call.number = n
        /\ call.new <=> logins[u] = Unset
    BY <2>1 DEF UsersAssumption, CreateCall
  <2>3. /\ Begin(c, call) /\ profiles' = profiles /\ logins' = [logins EXCEPT ![u] = n]
        /\ ~profiles[u].exists
        /\ n = logins[u] \/ FreeFor(u, n)
    BY <1>2, <2>1 DEF CreateLogin
  <2>4. ASSUME Agrees(u)
        PROVE  CreateRight(call)'
    <3>1. logins[u] = Unset
      BY <2>3, <2>4 DEF Agrees
    <3>2. logins'[u] = n
      BY <2>3 DEF UsersTyped
    <3> QED
      BY <2>2, <2>3, <3>1, <3>2 DEF CreateRight
  <2>5. OneLogin(call.uid, n)
    BY <2>2, <2>3, OneOfMany
  <2> QED
    BY <2>2, <2>3, <2>4, <2>5, BeginKeeps
<1>3. ASSUME NEW c \in Lanes, At(c, "phone", "asked") \/ At(c, "phone", "moved") \/ At(c, "phone", "refused")
      PROVE  /\ inFlight[c] \in PhoneCall /\ ChangesIdentity(inFlight[c])
             /\ inFlight[c].uid \in People /\ inFlight[c].kind = "phone"
             /\ \A s \in {"moved", "refused"} : \A next :
                   next = [inFlight[c] EXCEPT !.step = s] =>
                      /\ ChangesIdentity(next) /\ next.kind = "phone" /\ next.step = s
                      /\ next.uid = inFlight[c].uid /\ NumbersOf(next) = NumbersOf(inFlight[c])
                      /\ next.number = inFlight[c].number /\ next.old = inFlight[c].old
  <2>1. inFlight[c] \in PhoneCall
    BY <1>3 DEF At, UsersTyped, Call, CreateCall, SignInCall, OwnCall, Idle
  <2> QED
    BY <2>1 DEF PhoneCall, ChangesIdentity, NumbersOf
<1>4. ~ChangesIdentity(Idle) /\ Idle.kind = "none"
  BY DEF Idle, ChangesIdentity
<1>5. ASSUME NEW c \in Lanes, MoveNumber(c)
      PROVE  StoresInv'
  <2>1. PICK call, w : call = inFlight[c] /\ w = call.uid
    OBVIOUS
  <2>2. At(c, "phone", "asked") /\ call.step = "asked" /\ crossed' = crossed /\ profiles' = profiles
    BY <1>5, <2>1 DEF MoveNumber, At
  <2>3. w \in People /\ ChangesIdentity(inFlight[c]) /\ call.kind = "phone"
    BY <1>3, <2>1, <2>2
  <2>4. w \notin crossed => PhoneRight(call)
    BY <2>1, <2>3 DEF StoresInv, OnTheWay
  <2>5. CASE FreeFor(w, call.number) /\ logins[w] # Unset
    <3>1. PICK next : next = [call EXCEPT !.step = "moved"]
      OBVIOUS
    <3>2. inFlight' = [inFlight EXCEPT ![c] = next] /\ logins' = [logins EXCEPT ![w] = call.number]
      BY <1>5, <2>1, <2>5, <3>1 DEF MoveNumber
    <3>3. /\ ChangesIdentity(next) /\ next.kind = "phone" /\ next.step = "moved" /\ next.uid = w
          /\ NumbersOf(next) = NumbersOf(call) /\ next.number = call.number /\ next.old = call.old
      BY <1>3, <2>1, <2>2, <3>1
    <3>4. \A v \in People : logins'[v] = IF v = w THEN call.number ELSE logins[v]
      BY <2>3, <3>2 DEF UsersTyped
    <3>5. ASSUME w \notin crossed
          PROVE  RightAfter(w, next)
      <4>1. PhoneRight(call)
        BY <2>4, <3>5
      <4>2. profiles'[w].exists /\ profiles'[w].phone = next.old /\ logins'[w] = next.number
        BY <2>1, <2>2, <2>3, <3>3, <3>4, <4>1 DEF PhoneRight
      <4>3. FreeFor(w, next.old)'
        BY <2>1, <3>3, <3>4, <4>1 DEF PhoneRight, FreeFor
      <4> QED
        BY <3>3, <4>2, <4>3 DEF PhoneRight, RightAfter
    <3>6. call.number \in NumbersOf(call)
      BY <2>1, <2>3, IdentityCalls
    <3>7. OneCall(c, next) /\ OneLogin(w, call.number) /\ OthersKept(w) /\ Continues(call, next)
      BY <2>1, <2>2, <2>3, <3>2, <3>3, OneOfMany DEF Continues
    <3> QED
      BY <2>1, <2>2, <2>3, <2>5, <3>5, <3>6, <3>7, CallStepKeeps
  <2>6. CASE ~(FreeFor(w, call.number) /\ logins[w] # Unset)
    <3>1. inFlight' = [inFlight EXCEPT ![c] = Idle] /\ logins' = logins
      BY <1>5, <2>1, <2>6 DEF MoveNumber
    <3>2. OneCall(c, Idle) /\ OneLogin(w, logins[w]) /\ OthersKept(w) /\ Continues(call, Idle)
      BY <1>4, <2>2, <2>3, <3>1, OneOfMany DEF Continues
    <3>3. w \notin crossed => RightAfter(w, Idle)
      BY <1>4, <2>2, <2>4, <3>1, <2>1 DEF PhoneRight, Agrees, RightAfter
    <3> QED
      BY <2>1, <2>2, <2>3, <3>2, <3>3, CallStepKeeps
  <2> QED
    BY <2>5, <2>6
<1>6. ASSUME NEW c \in Lanes, RecordNumber(c)
      PROVE  StoresInv'
  <2>1. PICK call, w : call = inFlight[c] /\ w = call.uid
    OBVIOUS
  <2>2. At(c, "phone", "moved") /\ call.step = "moved" /\ crossed' = crossed /\ logins' = logins
    BY <1>6, <2>1 DEF RecordNumber, At
  <2>3. w \in People /\ ChangesIdentity(inFlight[c]) /\ call.kind = "phone"
    BY <1>3, <2>1, <2>2
  <2>4. w \notin crossed => PhoneRight(call)
    BY <2>1, <2>3 DEF StoresInv, OnTheWay
  <2>5. OneLogin(w, logins[w])
    BY <2>2, <2>3, OneOfMany
  <2>6. CASE profiles' = profiles /\ inFlight' = [inFlight EXCEPT ![c] = Refused(call)]
    <3>1. PICK next : next = [call EXCEPT !.step = "refused"]
      OBVIOUS
    <3>2. inFlight' = [inFlight EXCEPT ![c] = next]
      BY <2>6, <3>1 DEF Refused
    <3>3. /\ ChangesIdentity(next) /\ next.kind = "phone" /\ next.step = "refused" /\ next.uid = w
          /\ NumbersOf(next) = NumbersOf(call) /\ next.number = call.number /\ next.old = call.old
      BY <1>3, <2>1, <2>2, <3>1
    <3>4. ASSUME w \notin crossed
          PROVE  RightAfter(w, next)
      <4>1. PhoneRight(call)
        BY <2>4, <3>4
      <4>2. profiles'[w].exists /\ profiles'[w].phone = next.old /\ logins'[w] = next.number
        BY <2>1, <2>2, <2>6, <3>3, <4>1 DEF PhoneRight
      <4>3. FreeFor(w, next.old)'
        BY <2>1, <2>2, <3>3, <4>1 DEF PhoneRight, FreeFor
      <4> QED
        BY <3>3, <4>2, <4>3 DEF PhoneRight, RightAfter
    <3>5. OneCall(c, next) /\ OthersKept(w) /\ Continues(call, next)
      BY <2>1, <2>6, <3>2, <3>3, OneOfMany DEF Continues
    <3> QED
      BY <2>1, <2>2, <2>3, <2>5, <3>4, <3>5, CallStepKeeps
  <2>7. CASE /\ profiles' = [profiles EXCEPT ![w].phone = call.number]
             /\ inFlight' = [inFlight EXCEPT ![c] = Idle]
    <3>1. OneCall(c, Idle) /\ Continues(call, Idle)
      BY <1>4, <2>7, OneOfMany DEF Continues
    <3>2. OthersKept(w)
      BY <2>7 DEF UsersTyped, OthersKept
    <3>3. (profiles'[w].exists <=> profiles[w].exists) /\ profiles'[w].phone = call.number
      <4>1. profiles[w] \in Profile /\ profiles \in [People -> Profile]
        BY <2>3 DEF UsersTyped
      <4> QED
        BY <2>3, <2>7, <4>1 DEF Profile
    <3>4. w \notin crossed => RightAfter(w, Idle)
      BY <1>4, <2>1, <2>2, <2>4, <3>3 DEF PhoneRight, Agrees, RightAfter
    <3> QED
      BY <2>1, <2>2, <2>3, <2>5, <3>1, <3>2, <3>4, CallStepKeeps
  <2> QED
    BY <1>6, <2>1, <2>6, <2>7 DEF RecordNumber
<1>7. ASSUME NEW c \in Lanes, PutNumberBack(c)
      PROVE  StoresInv'
  <2>1. PICK call, w : call = inFlight[c] /\ w = call.uid
    OBVIOUS
  <2>2. /\ At(c, "phone", "refused") /\ call.step = "refused"
        /\ crossed' = crossed /\ profiles' = profiles /\ inFlight' = [inFlight EXCEPT ![c] = Idle]
    BY <1>7, <2>1 DEF PutNumberBack, At, Ended
  <2>3. w \in People /\ ChangesIdentity(inFlight[c]) /\ call.kind = "phone" /\ call \in PhoneCall
    BY <1>3, <2>1, <2>2
  <2>4. w \notin crossed => PhoneRight(call)
    BY <2>1, <2>3 DEF StoresInv, OnTheWay
  <2>5. OneCall(c, Idle) /\ OthersKept(w) /\ Continues(call, Idle)
    BY <1>4, <2>2, OneOfMany DEF Continues
  <2>6. CASE FreeFor(w, call.old) /\ logins[w] # Unset
    <3>1. logins' = [logins EXCEPT ![w] = call.old]
      BY <1>7, <2>1, <2>6 DEF PutNumberBack
    <3>2. logins'[w] = call.old
      BY <2>3, <3>1 DEF UsersTyped
    <3>3. w \notin crossed => RightAfter(w, Idle)
      BY <1>4, <2>1, <2>2, <2>4, <3>2 DEF PhoneRight, Agrees, RightAfter
    <3>4. call.old \in NumbersOf(call) /\ OneLogin(w, call.old)
      BY <2>1, <2>3, <3>1, IdentityCalls, OneOfMany
    <3> QED
      BY <2>1, <2>2, <2>3, <2>6, <2>5, <3>3, <3>4, CallStepKeeps
  <2>7. CASE ~(FreeFor(w, call.old) /\ logins[w] # Unset)
    <3>1. OneLogin(w, logins[w])
      BY <1>7, <2>1, <2>3, <2>7, OneOfMany DEF PutNumberBack
    <3>2. w \in crossed
      <4> SUFFICES ASSUME w \notin crossed
                   PROVE  FALSE
        OBVIOUS
      <4>1. logins[w] = call.number /\ FreeFor(w, call.old)
        BY <2>1, <2>2, <2>4 DEF PhoneRight
      <4>2. call.number \in Numbers
        BY <2>3 DEF PhoneCall
      <4> QED
        BY <2>7, <4>1, <4>2 DEF UsersAssumption
    <3> QED
      BY <2>1, <2>2, <2>3, <2>5, <3>1, <3>2, CallStepKeeps
  <2> QED
    BY <2>6, <2>7
<1>8. ASSUME NEW c \in Lanes, CreateProfile(c)
      PROVE  StoresInv'
  <2>1. PICK call, w : call = inFlight[c] /\ w = call.uid
    OBVIOUS
  <2>2. At(c, "create", "made") /\ crossed' = crossed /\ logins' = logins
    BY <1>8 DEF CreateProfile
  <2>3. call \in CreateCall
    BY <2>1, <2>2 DEF At, UsersTyped, Call, PhoneCall, SignInCall, OwnCall, Idle
  <2>4. w \in People /\ ChangesIdentity(inFlight[c]) /\ call.kind = "create"
    BY <2>1, <2>3 DEF CreateCall, ChangesIdentity
  <2>5. w \notin crossed => CreateRight(call)
    BY <2>1, <2>4 DEF StoresInv, OnTheWay
  <2>6. OneLogin(w, logins[w])
    BY <2>2, <2>4, OneOfMany
  <2>7. CASE UNCHANGED profiles /\ inFlight' = [inFlight EXCEPT ![c] = IF call.new THEN [call EXCEPT !.step = "orphan"] ELSE Idle]
    <3>1. PICK next : next = IF call.new THEN [call EXCEPT !.step = "orphan"] ELSE Idle
      OBVIOUS
    <3>2. CASE call.new
      <4>1. /\ ChangesIdentity(next) /\ next.kind = "create" /\ next.uid = w
            /\ NumbersOf(next) = NumbersOf(call) /\ next.number = call.number /\ next.new
        BY <2>1, <2>3, <3>1, <3>2 DEF CreateCall, ChangesIdentity, NumbersOf
      <4>2. w \notin crossed => RightAfter(w, next)
        BY <2>1, <2>2, <2>5, <2>7, <4>1 DEF CreateRight, RightAfter
      <4>3. OneCall(c, next) /\ OthersKept(w) /\ Continues(call, next)
        BY <2>1, <2>7, <3>1, <4>1, OneOfMany DEF Continues
      <4> QED
        BY <2>1, <2>2, <2>4, <2>6, <4>2, <4>3, CallStepKeeps
    <3>3. CASE ~call.new
      <4>1. next = Idle /\ w \in crossed
        BY <2>5, <3>1, <3>3 DEF CreateRight
      <4>2. OneCall(c, Idle) /\ OthersKept(w) /\ Continues(call, Idle)
        BY <1>4, <2>7, <3>3, OneOfMany DEF Continues
      <4> QED
        BY <2>1, <2>2, <2>4, <2>6, <4>1, <4>2, CallStepKeeps
    <3> QED
      BY <3>2, <3>3
  <2>8. CASE ~UNCHANGED profiles
    <3>1. PICK p \in Profile : profiles' = [profiles EXCEPT ![w] = p] /\ p.exists /\ p.phone = call.number
      BY <1>8, <2>1, <2>8, CreatedProfile
    <3>2. OneCall(c, Idle) /\ Continues(call, Idle)
      <4>1. inFlight' = [inFlight EXCEPT ![c] = Idle]
        BY <1>8, <2>8 DEF CreateProfile, Ended
      <4> QED
        BY <1>4, <4>1, OneOfMany DEF Continues
    <3>3. profiles'[w] = p /\ OthersKept(w)
      BY <2>4, <3>1, OneOfMany
    <3>4. w \notin crossed => RightAfter(w, Idle)
      BY <1>4, <2>1, <2>2, <2>5, <3>1, <3>3 DEF CreateRight, Agrees, RightAfter
    <3> QED
      BY <2>1, <2>2, <2>4, <2>6, <3>2, <3>3, <3>4, CallStepKeeps
  <2>9. profiles' = profiles => inFlight' = [inFlight EXCEPT ![c] = IF call.new THEN [call EXCEPT !.step = "orphan"] ELSE Idle]
    <3> SUFFICES ASSUME profiles' = profiles
                 PROVE  inFlight' = [inFlight EXCEPT ![c] = IF call.new THEN [call EXCEPT !.step = "orphan"] ELSE Idle]
      OBVIOUS
    <3>1. CASE /\ ~profiles[w].exists
               /\ profiles' = [profiles EXCEPT ![w] = NewProfile(call.number, call.role, call.staffId)]
      <4>1. NewProfile(call.number, call.role, call.staffId).exists
        BY DEF NewProfile
      <4> QED
        BY <2>4, <3>1, <4>1 DEF UsersTyped
    <3> QED
      BY <1>8, <2>1, <3>1 DEF CreateProfile
  <2> QED
    BY <2>7, <2>8, <2>9
<1>9. ASSUME NEW c \in Lanes, DeleteOrphan(c)
      PROVE  StoresInv'
  <2>1. PICK call, w, next, x : call = inFlight[c] /\ w = call.uid /\ next = Idle /\ x = Unset
    OBVIOUS
  <2>2. /\ At(c, "create", "orphan") /\ crossed' = crossed /\ profiles' = profiles
        /\ inFlight' = [inFlight EXCEPT ![c] = next] /\ logins' = [logins EXCEPT ![w] = x]
    BY <1>9, <2>1 DEF DeleteOrphan, Ended
  <2>3. call \in CreateCall
    BY <2>1, <2>2 DEF At, UsersTyped, Call, PhoneCall, SignInCall, OwnCall, Idle
  <2>4. w \in People /\ ChangesIdentity(inFlight[c]) /\ call.kind = "create"
    BY <2>1, <2>3 DEF CreateCall, ChangesIdentity
  <2>5. logins'[w] = Unset
    BY <2>1, <2>2, <2>4 DEF UsersTyped
  <2>6. w \notin crossed => RightAfter(w, next)
    BY <1>4, <2>1, <2>2, <2>4, <2>5 DEF StoresInv, OnTheWay, CreateRight, Agrees, RightAfter
  <2>7. OneCall(c, next) /\ OneLogin(w, x) /\ OthersKept(w) /\ Continues(call, next)
    BY <1>4, <2>1, <2>2, <2>4, OneOfMany DEF Continues
  <2> QED
    BY <2>1, <2>2, <2>4, <2>6, <2>7, CallStepKeeps
<1> QED
  BY <1>1, <1>2, <1>5, <1>6, <1>7, <1>8, <1>9, CutOffKeeps, SettingsFrame, SameStoresKeep DEF IdentityStep, AccountStep, CrashStep

\* No other step touches the stores.
LEMMA StoresNext ==
    ASSUME UsersAssumption, UsersTyped, ProfilesMade, StoresInv, [UsersNext]_userVars
    PROVE  StoresInv'
<1>1. CASE AppointmentStep \/ AdministrationStep
  BY <1>1, SettingsFrame, LinkFrame, SameStoresKeep DEF AppointmentStep, AdministrationStep
<1>2. CASE Tick \/ UNCHANGED userVars
  <2>1. UNCHANGED <<logins, profiles, inFlight, crossed>>
    BY <1>2 DEF Tick, userVars, identityVars
  <2>2. SameStores
    BY <2>1 DEF SameStores, SameCalls
  <2> QED
    BY <2>2, SameStoresKeep
<1> QED
  BY <1>1, <1>2, CallsKeep, PasswordFrame, GrantFrame, SameStoresKeep DEF UsersNext

-----------------------------------------------------------------------------
(* Theorems *)

UsersInv ==
    UsersTyped /\ ProfilesMade /\ AdministratorRemains /\ StaffLinksAgree /\ Indexed /\ StoresInv

\* The bootstrap script leaves two stores that agree and an administrator.
LEMMA InvAtFirst ==
    ASSUME UsersAssumption, UsersInit
    PROVE  UsersInv
<1>1. UsersTyped
  BY TypedAtFirst
<1>2. \A u \in People : profiles[u] = IF u \in Founders THEN Founder(u) ELSE NoProfile
  BY DEF UsersInit
<1>3. \A u \in Founders : /\ Founder(u).exists /\ Founder(u).active /\ ~Founder(u).mustChange
                         /\ Founder(u).role = "admin" /\ Founder(u).phone = FirstNumber[u]
                         /\ Founder(u).staffId = Unset /\ Founder(u).temporary = 0
  BY DEF Founder, NewProfile
<1>4. ~NoProfile.exists /\ NoProfile.staffId = Unset /\ NoProfile.temporary = 0
  BY DEF NoProfile, NewProfile
<1>5. ProfilesMade
  BY <1>2, <1>3, <1>4 DEF ProfilesMade, Made, UsersAssumption
<1>6. AdministratorRemains
  BY <1>2, <1>3 DEF AdministratorRemains, AccountLive, AccountEnabled, UsersAssumption
<1>7. StaffLinksAgree
  BY <1>2, <1>3, <1>4 DEF StaffLinksAgree, UsersInit, UsersAssumption
<1>8. Indexed
  BY <1>2, <1>3, <1>4 DEF Indexed, UsersInit
<1>9. StoresInv
  <2>1. \A c \in Lanes : ~ChangesIdentity(inFlight[c])
    BY DEF UsersInit, Idle, ChangesIdentity
  <2>2. \A u \in People : logins[u] = IF u \in Founders THEN FirstNumber[u] ELSE Unset
    BY DEF UsersInit
  <2>3. Distinct
    BY <2>2 DEF Distinct, UsersAssumption
  <2>4. \A u \in People : Agrees(u)
    BY <1>2, <1>3, <1>4, <2>2 DEF Agrees
  <2> QED
    BY <2>1, <2>3, <2>4 DEF StoresInv
<1> QED
  BY <1>1, <1>5, <1>6, <1>7, <1>8, <1>9 DEF UsersInv

\* The invariant is kept by every step.
LEMMA InvNext ==
    ASSUME UsersAssumption, UsersInv, [UsersNext]_userVars
    PROVE  UsersInv'
BY TypedNext, MadeNext, AdministratorNext, LinksNext, IndexedNext, StoresNext DEF UsersInv

\* The invariant says that what is kept in two places is kept the same.
LEMMA InvOrders ==
    ASSUME UsersAssumption, UsersInv
    PROVE  AccessInOrder
<1>1. UsersTypeOK
  <2>1. \A u \in People : profiles[u] \in Profile /\ logins[u] \in Numbers \cup {Unset}
    BY DEF UsersInv, UsersTyped
  <2>2. \A s \in StaffIds : staffUser[s] \in People \cup {Unset}
    BY DEF UsersInv, UsersTyped
  <2>3. \A g \in DOMAIN tempGrants : tempGrants[g] \in TemporaryGrant
    BY GrantsTyped DEF UsersInv
  <2>4. \A u, v \in People : logins[u] = logins[v] /\ u # v => logins[u] = Unset
    BY DEF UsersInv, StoresInv, Distinct
  <2>5. crossed \subseteq People
    BY DEF UsersInv, UsersTyped
  <2> QED
    BY <2>1, <2>2, <2>3, <2>4, <2>5 DEF UsersTypeOK
<1>2. StoresAgree
  BY DEF UsersInv, StoresInv, StoresAgree, Agrees
<1>3. GrantsIndexed
  BY IndexedIsGrantsIndexed DEF UsersInv
<1> QED
  BY <1>1, <1>2, <1>3 DEF AccessInOrder, UsersInv

\* Whatever calls of user_admin.js and session.js interleave, meet or die: the documents
\* have their shape, Authentication and Firestore agree about everybody whose calls
\* neither met nor died, staff records and accounts name each other, a profile names the
\* one active grant of its person, and an administrator who can act remains.
THEOREM AccessCorrect == UsersSpec => []AccessInOrder
<1>1. UsersInit => UsersInv
  BY InvAtFirst, UsersAssumption
<1>2. UsersInv /\ [UsersNext]_userVars => UsersInv'
  BY InvNext, UsersAssumption
<1>3. UsersInv => AccessInOrder
  BY InvOrders, UsersAssumption
<1> QED
  BY <1>1, <1>2, <1>3, PTL DEF UsersSpec

\* Administrators demote, deactivate and reset one another in any order; one remains.
THEOREM AdministratorCorrect == UsersSpec => []AdministratorRemains
<1>1. AccessInOrder => AdministratorRemains
  BY DEF AccessInOrder
<1> QED
  BY <1>1, AccessCorrect, PTL
-----------------------------------------------------------------------------
(* The throttle *)

\* The calls about to check a password for a number, and those that found it wrong and
\* have not said so yet.
Asking(call, n, step) ==
    call.kind \in {"signIn", "own"} /\ call.step = step /\ call.number = n
Checking(n) == {c \in Lanes : Asking(inFlight[c], n, "checking")}
Failing(n) == {c \in Lanes : Asking(inFlight[c], n, "failed")}

\* The failures on record that the next one adds to.
Recorded(n) ==
    IF throttle[n].failures = 0 \/ clock - throttle[n].since > ThrottleWindow
    THEN 0 ELSE throttle[n].failures

ThrottleTyped ==
    /\ throttle \in [Numbers -> [failures: Nat, since: Nat, lockedUntil: Nat]]
    /\ guesses \in [Numbers -> Nat]
    /\ cutOffs \in Nat

\* Every wrong password is on record, about to be, or lost with the call that tried it.
\* While a number with too many on record is open, none was recorded since the clock
\* moved.  And a call that checks may still add one.
Throttles(n) ==
    LET failing == Cardinality(Failing(n))
        checking == Cardinality(Checking(n))
    IN  /\ guesses[n] <= Recorded(n) + failing + cutOffs
        /\ ~Throttled(n) /\ Recorded(n) >= MaxFailures => guesses[n] <= failing + cutOffs
        /\ guesses[n] + checking <= MaxFailures + (MaxCalls - 1) + cutOffs
ThrottleInv == ThrottleTyped /\ \A n \in Numbers : Throttles(n)

\* A call leaves its lane, or goes on as next.
LEMMA LaneSets ==
    ASSUME UsersTyped, NEW c \in Lanes, NEW next, inFlight' = [inFlight EXCEPT ![c] = next],
           NEW n
    PROVE  /\ Checking(n)' = (Checking(n) \ {c}) \cup (IF Asking(next, n, "checking") THEN {c} ELSE {})
           /\ Failing(n)' = (Failing(n) \ {c}) \cup (IF Asking(next, n, "failed") THEN {c} ELSE {})
<1>1. \A d \in Lanes : inFlight'[d] = IF d = c THEN next ELSE inFlight[d]
  BY DEF UsersTyped
<1> QED
  BY <1>1 DEF Checking, Failing

\* Counting lanes.
LEMMA LaneCounts ==
    ASSUME UsersAssumption, NEW S \in SUBSET Lanes, NEW T \in SUBSET Lanes, S \cap T = {}
    PROVE  /\ IsFiniteSet(S) /\ Cardinality(S) \in Nat
           /\ IsFiniteSet(T) /\ Cardinality(T) \in Nat
           /\ Cardinality(S) + Cardinality(T) <= MaxCalls
<1>1. MaxCalls \in Nat /\ IsFiniteSet(Lanes) /\ Cardinality(Lanes) = MaxCalls
  BY FS_Interval DEF UsersAssumption, Lanes
<1>2. IsFiniteSet(S) /\ IsFiniteSet(T)
  BY <1>1, FS_Subset
<1>3. /\ IsFiniteSet(S \cup T)
      /\ Cardinality(S \cup T) = Cardinality(S) + Cardinality(T) - Cardinality({})
  BY <1>2, FS_Union
<1>4. Cardinality(S \cup T) <= MaxCalls
  BY <1>1, FS_Subset
<1>5. Cardinality(S) \in Nat /\ Cardinality(T) \in Nat
  BY <1>2, FS_CardinalityType
<1> QED
  BY <1>1, <1>2, <1>3, <1>4, <1>5, FS_EmptySet

\* What a step does to the throttle and the lanes that meet it.
Rests ==
    /\ UNCHANGED <<throttle, guesses, clock, cutOffs>>
    /\ \A n \in Numbers : Failing(n)' = Failing(n) /\ Checking(n)' \subseteq Checking(n)
Tries == \E c \in Lanes, m \in Numbers :
    /\ ~Throttled(m) /\ UNCHANGED <<throttle, guesses, clock, cutOffs>>
    /\ \A n \in Numbers : /\ Failing(n)' = Failing(n)
                          /\ Checking(n)' = IF n = m THEN Checking(n) \cup {c} ELSE Checking(n)
Enters == \E m \in Numbers :
    /\ throttle' = [throttle EXCEPT ![m] = NoFailures] /\ guesses' = [guesses EXCEPT ![m] = 0]
    /\ UNCHANGED <<clock, cutOffs>>
    /\ \A n \in Numbers : Failing(n)' = Failing(n) /\ Checking(n)' \subseteq Checking(n)
Fails == \E c \in Lanes, m \in Numbers :
    /\ c \in Checking(m) /\ guesses' = [guesses EXCEPT ![m] = @ + 1]
    /\ UNCHANGED <<throttle, clock, cutOffs>>
    /\ \A n \in Numbers :
          /\ Checking(n)' = Checking(n) \ {c}
          /\ Failing(n)' = IF n = m THEN Failing(n) \cup {c} ELSE Failing(n)
Tallies == \E c \in Lanes, m \in Numbers :
    /\ c \in Failing(m) /\ throttle' = [throttle EXCEPT ![m] = Failed(m)]
    /\ UNCHANGED <<guesses, clock, cutOffs>>
    /\ \A n \in Numbers : /\ Checking(n)' = Checking(n)
                          /\ Failing(n)' = IF n = m THEN Failing(n) \ {c} ELSE Failing(n)
Loses == \E c \in Lanes :
    /\ cutOffs' = cutOffs + 1 /\ UNCHANGED <<throttle, guesses, clock>>
    /\ \A n \in Numbers : Failing(n)' = Failing(n) \ {c} /\ Checking(n)' \subseteq Checking(n)
Passes ==
    /\ guesses' = [n \in Numbers |-> 0] /\ UNCHANGED <<throttle, cutOffs>>
    /\ clock' = clock + 1
    /\ \A n \in Numbers : Failing(n)' = {} /\ Checking(n)' = {}

\* A lane in which no password is checked, before and after.
LEMMA LaneRests ==
    ASSUME UsersTyped, NEW c \in Lanes, NEW next, inFlight' = [inFlight EXCEPT ![c] = next],
           inFlight[c].kind \notin {"signIn", "own"}, next.kind \notin {"signIn", "own"},
           UNCHANGED <<throttle, guesses, clock, cutOffs>>
    PROVE  Rests
<1>1. ASSUME NEW n \in Numbers
      PROVE  Failing(n)' = Failing(n) /\ Checking(n)' = Checking(n)
  <2>1. ~Asking(next, n, "failed") /\ ~Asking(next, n, "checking")
    BY DEF Asking
  <2>2. c \notin Failing(n) /\ c \notin Checking(n)
    BY DEF Failing, Checking, Asking
  <2>3. /\ Checking(n)' = (Checking(n) \ {c}) \cup (IF Asking(next, n, "checking") THEN {c} ELSE {})
        /\ Failing(n)' = (Failing(n) \ {c}) \cup (IF Asking(next, n, "failed") THEN {c} ELSE {})
    BY LaneSets
  <2> QED
    BY <2>1, <2>2, <2>3
<1> QED
  BY <1>1 DEF Rests

LEMMA IdentityRests ==
    ASSUME UsersAssumption, UsersTyped, AccountStep
    PROVE  Rests
<1>1. ASSUME NEW c \in Lanes, NEW caller \in Clerks, NEW u \in People, NEW n \in Numbers,
             AskForNumber(c, caller, u, n)
      PROVE  Rests
  <2> DEFINE call == [kind |-> "phone", step |-> "asked", caller |-> caller, uid |-> u,
                      number |-> n, old |-> profiles[u].phone]
  <2>1. call.kind = "phone" /\ Begin(c, call)
    BY <1>1 DEF AskForNumber
  <2> HIDE DEF call
  <2>2. inFlight' = [inFlight EXCEPT ![c] = call] /\ inFlight[c].kind = "none"
    BY <2>1 DEF Begin, NextLane, Idle
  <2>3. UNCHANGED <<throttle, guesses, clock, cutOffs>>
    BY <1>1 DEF AskForNumber, throttleVars
  <2> QED
    BY <2>1, <2>2, <2>3, LaneRests
<1>2. ASSUME NEW c \in Lanes, NEW caller \in Clerks, NEW u \in People, NEW n \in Numbers,
             NEW role \in NewRoles, NEW id \in StaffIds \cup {Unset},
             CreateLogin(c, caller, u, n, role, id)
      PROVE  Rests
  <2> DEFINE call == [kind |-> "create", step |-> "made", caller |-> caller, uid |-> u,
                      number |-> n, role |-> role, staffId |-> id, new |-> logins[u] = Unset]
  <2>1. call.kind = "create" /\ Begin(c, call)
    BY <1>2 DEF CreateLogin
  <2> HIDE DEF call
  <2>2. inFlight' = [inFlight EXCEPT ![c] = call] /\ inFlight[c].kind = "none"
    BY <2>1 DEF Begin, NextLane, Idle
  <2>3. UNCHANGED <<throttle, guesses, clock, cutOffs>>
    BY <1>2 DEF CreateLogin, throttleVars
  <2> QED
    BY <2>1, <2>2, <2>3, LaneRests
<1>3. ASSUME NEW c \in Lanes,
             \/ MoveNumber(c) \/ RecordNumber(c) \/ PutNumberBack(c)
             \/ CreateProfile(c) \/ DeleteOrphan(c)
      PROVE  Rests
  <2>1. inFlight[c].kind \in {"phone", "create"} /\ inFlight[c] \in PhoneCall \cup CreateCall
    BY <1>3 DEF MoveNumber, RecordNumber, PutNumberBack, CreateProfile, DeleteOrphan, At,
                UsersTyped, Call, SignInCall, OwnCall, Idle
  <2>2. PICK next : inFlight' = [inFlight EXCEPT ![c] = next] /\ next.kind \in {"none", "phone", "create"}
    <3>1. Idle.kind = "none"
      BY DEF Idle
    <3>2. \A step : [inFlight[c] EXCEPT !.step = step].kind = inFlight[c].kind
      BY <2>1 DEF PhoneCall, CreateCall
    <3>3. PICK next : /\ inFlight' = [inFlight EXCEPT ![c] = next]
                      /\ next = Idle \/ \E step : next = [inFlight[c] EXCEPT !.step = step]
      BY <1>3 DEF MoveNumber, RecordNumber, PutNumberBack, CreateProfile, DeleteOrphan, Ended, Refused
    <3> QED
      BY <2>1, <3>1, <3>2, <3>3
  <2>3. UNCHANGED <<throttle, guesses, clock, cutOffs>>
    BY <1>3 DEF MoveNumber, RecordNumber, PutNumberBack, CreateProfile, DeleteOrphan, throttleVars
  <2> QED
    BY <2>1, <2>2, <2>3, LaneRests
<1>4. ASSUME NEW caller \in People, NEW u \in People, NEW active \in BOOLEAN,
             SetUserActive(caller, u, active)
      PROVE  Rests
  BY <1>4 DEF SetUserActive, identityVars, throttleVars, Rests, Failing, Checking
<1> QED
  BY <1>1, <1>2, <1>3, <1>4 DEF AccountStep

LEMMA OthersRest ==
    ASSUME AppointmentStep \/ AdministrationStep \/ GrantStep \/ UNCHANGED userVars
    PROVE  Rests
<1>1. UNCHANGED <<inFlight, throttle, guesses, clock, cutOffs>>
  <2>1. ASSUME NEW g, Expire(g) \/ Warn(g)
        PROVE  UNCHANGED <<inFlight, throttle, guesses, clock, cutOffs>>
    BY <2>1 DEF Expire, Warn, identityVars, throttleVars
  <2> QED
    BY <2>1 DEF AppointmentStep, AdministrationStep, GrantStep, SetUserRole, ResetUserPassword, LinkStaff,
           GrantTemporaryPermission, SetUserPermissions, RevokeTemporaryPermission, SweepEnded,
           SweepEnding, SweepOver, identityVars, throttleVars, userVars
<1> QED
  BY <1>1 DEF Rests, Failing, Checking

\* Trying, checking and recording passwords.
LEMMA PasswordThrottles ==
    ASSUME UsersAssumption, UsersTyped, PasswordStep
    PROVE  Rests \/ Tries \/ Enters \/ Fails \/ Tallies
<1>1. ASSUME NEW c \in Lanes, NEW m \in Numbers, ~Throttled(m), NextLane(c), NEW next,
             inFlight' = [inFlight EXCEPT ![c] = next], Asking(next, m, "checking"),
             UNCHANGED <<throttle, guesses, clock, cutOffs>>
      PROVE  Tries
  <2>1. ASSUME NEW n \in Numbers
        PROVE  /\ Failing(n)' = Failing(n)
               /\ Checking(n)' = IF n = m THEN Checking(n) \cup {c} ELSE Checking(n)
    <3>1. inFlight[c].kind = "none"
      BY <1>1 DEF NextLane, Idle
    <3>2. c \notin Failing(n) /\ c \notin Checking(n)
      BY <3>1 DEF Failing, Checking, Asking
    <3>3. ~Asking(next, n, "failed") /\ (Asking(next, n, "checking") <=> n = m)
      BY <1>1 DEF Asking
    <3>4. /\ Checking(n)' = (Checking(n) \ {c}) \cup (IF Asking(next, n, "checking") THEN {c} ELSE {})
          /\ Failing(n)' = (Failing(n) \ {c}) \cup (IF Asking(next, n, "failed") THEN {c} ELSE {})
      BY <1>1, LaneSets
    <3> QED
      BY <3>2, <3>3, <3>4
  <2> QED
    BY <1>1, <2>1 DEF Tries
<1>2. ASSUME NEW c \in Lanes, NEW m \in Tried, TryPassword(c, m)
      PROVE  Tries
  <2> DEFINE next == [kind |-> "signIn", step |-> "checking", number |-> m]
  <2>1. Asking(next, m, "checking") /\ m \in Numbers
    BY DEF Asking, UsersAssumption
  <2>2. inFlight' = [inFlight EXCEPT ![c] = next]
    BY <1>2 DEF TryPassword
  <2> HIDE DEF next
  <2> QED
    BY <1>1, <1>2, <2>1, <2>2 DEF TryPassword, throttleVars
<1>3. ASSUME NEW c \in Lanes, NEW u \in People, TryOwnPassword(c, u)
      PROVE  Tries
  <2> DEFINE next == [kind |-> "own", step |-> "checking", number |-> logins[u], uid |-> u]
  <2>1. Asking(next, logins[u], "checking") /\ logins[u] \in Numbers
    BY <1>3 DEF Asking, UsersTyped, TryOwnPassword
  <2>2. inFlight' = [inFlight EXCEPT ![c] = next]
    BY <1>3 DEF TryOwnPassword
  <2> HIDE DEF next
  <2> QED
    BY <1>1, <1>3, <2>1, <2>2 DEF TryOwnPassword, throttleVars
<1>4. ASSUME NEW c \in Lanes, inFlight[c].kind \in {"signIn", "own"}
      PROVE  /\ inFlight[c] \in SignInCall \cup OwnCall /\ inFlight[c].number \in Numbers
             /\ \A step : /\ [inFlight[c] EXCEPT !.step = step].kind = inFlight[c].kind
                          /\ [inFlight[c] EXCEPT !.step = step].number = inFlight[c].number
                          /\ [inFlight[c] EXCEPT !.step = step].step = step
  <2>1. inFlight[c] \in SignInCall \cup OwnCall
    BY <1>4 DEF UsersTyped, Call, PhoneCall, CreateCall, Idle
  <2> QED
    BY <2>1 DEF SignInCall, OwnCall
<1>5. ASSUME NEW c \in Lanes, NEW next, inFlight' = [inFlight EXCEPT ![c] = next],
             inFlight[c].step # "failed", \A n : ~Asking(next, n, "failed") /\ ~Asking(next, n, "checking"),
             NEW n \in Numbers
      PROVE  Failing(n)' = Failing(n) /\ Checking(n)' \subseteq Checking(n)
  <2>1. /\ Checking(n)' = (Checking(n) \ {c}) \cup (IF Asking(next, n, "checking") THEN {c} ELSE {})
        /\ Failing(n)' = (Failing(n) \ {c}) \cup (IF Asking(next, n, "failed") THEN {c} ELSE {})
    BY <1>5, LaneSets
  <2>2. c \notin Failing(n)
    BY <1>5 DEF Failing, Asking
  <2> QED
    BY <1>5, <2>1, <2>2
<1>6. \A n : ~Asking(Idle, n, "failed") /\ ~Asking(Idle, n, "checking")
  BY DEF Asking, Idle
<1>7. ASSUME NEW c \in Lanes, RightPassword(c)
      PROVE  Enters
  <2> DEFINE m == inFlight[c].number
  <2>1. m \in Numbers /\ inFlight[c].step # "failed"
    BY <1>4, <1>7 DEF RightPassword, At
  <2>2. \A n \in Numbers : Failing(n)' = Failing(n) /\ Checking(n)' \subseteq Checking(n)
    BY <1>5, <1>6, <1>7, <2>1 DEF RightPassword, Ended
  <2> QED
    BY <1>7, <2>1, <2>2 DEF RightPassword, Enters
<1>8. ASSUME NEW c \in Lanes, RightOwnPassword(c) \/ ChangeOwnPassword(c)
      PROVE  Rests
  <2>1. inFlight[c].kind = "own" /\ inFlight[c].step # "failed"
    BY <1>8 DEF RightOwnPassword, ChangeOwnPassword, At
  <2>2. PICK next : /\ inFlight' = [inFlight EXCEPT ![c] = next]
                    /\ next = Idle \/ next = [inFlight[c] EXCEPT !.step = "changing"]
    BY <1>8 DEF RightOwnPassword, ChangeOwnPassword, Ended
  <2>3. \A n : ~Asking(next, n, "failed") /\ ~Asking(next, n, "checking")
    <3>1. CASE next = Idle
      BY <1>6, <3>1
    <3>2. CASE next = [inFlight[c] EXCEPT !.step = "changing"]
      <4>1. next.step = "changing"
        BY <1>4, <2>1, <3>2
      <4> QED
        BY <4>1 DEF Asking
    <3> QED
      BY <2>2, <3>1, <3>2
  <2>4. UNCHANGED <<throttle, guesses, clock, cutOffs>>
    BY <1>8 DEF RightOwnPassword, ChangeOwnPassword, throttleVars
  <2> QED
    BY <1>5, <2>1, <2>2, <2>3, <2>4 DEF Rests
<1>9. ASSUME NEW c \in Lanes, WrongPassword(c)
      PROVE  Fails
  <2> DEFINE m == inFlight[c].number
             next == [inFlight[c] EXCEPT !.step = "failed"]
  <2>1. inFlight[c].kind \in {"signIn", "own"} /\ inFlight[c].step = "checking"
    BY <1>9 DEF WrongPassword, At
  <2>2. m \in Numbers /\ \A n : Asking(next, n, "failed") <=> n = m
    BY <1>4, <2>1 DEF Asking
  <2>3. \A n : ~Asking(next, n, "checking")
    BY <1>4, <2>1 DEF Asking
  <2>4. inFlight' = [inFlight EXCEPT ![c] = next] /\ guesses' = [guesses EXCEPT ![m] = @ + 1]
    BY <1>9 DEF WrongPassword
  <2>5. c \in Checking(m) /\ \A n : n # m => c \notin Failing(n)
    BY <2>1 DEF Checking, Failing, Asking
  <2>6. c \notin Failing(m)
    BY <2>1 DEF Failing, Asking
  <2> HIDE DEF m, next
  <2>7. ASSUME NEW n \in Numbers
        PROVE  /\ Checking(n)' = Checking(n) \ {c}
               /\ Failing(n)' = IF n = m THEN Failing(n) \cup {c} ELSE Failing(n)
    <3>1. /\ Checking(n)' = (Checking(n) \ {c}) \cup (IF Asking(next, n, "checking") THEN {c} ELSE {})
          /\ Failing(n)' = (Failing(n) \ {c}) \cup (IF Asking(next, n, "failed") THEN {c} ELSE {})
      BY <2>4, LaneSets
    <3> QED
      BY <2>2, <2>3, <2>5, <2>6, <3>1
  <2> QED
    BY <1>9, <2>2, <2>4, <2>5, <2>7 DEF WrongPassword, Fails
<1>10. ASSUME NEW c \in Lanes, RecordFailure(c)
       PROVE  Tallies
  <2> DEFINE m == inFlight[c].number
  <2>1. inFlight[c].kind \in {"signIn", "own"} /\ inFlight[c].step = "failed"
    BY <1>10 DEF RecordFailure, At
  <2>2. m \in Numbers
    BY <1>4, <2>1
  <2>3. inFlight' = [inFlight EXCEPT ![c] = Idle] /\ throttle' = [throttle EXCEPT ![m] = Failed(m)]
    BY <1>10 DEF RecordFailure, Ended
  <2>4. c \in Failing(m) /\ \A n : (n # m => c \notin Failing(n)) /\ c \notin Checking(n)
    BY <2>1 DEF Checking, Failing, Asking
  <2> HIDE DEF m
  <2>5. ASSUME NEW n \in Numbers
        PROVE  /\ Checking(n)' = Checking(n)
               /\ Failing(n)' = IF n = m THEN Failing(n) \ {c} ELSE Failing(n)
    <3>1. /\ Checking(n)' = (Checking(n) \ {c}) \cup (IF Asking(Idle, n, "checking") THEN {c} ELSE {})
          /\ Failing(n)' = (Failing(n) \ {c}) \cup (IF Asking(Idle, n, "failed") THEN {c} ELSE {})
      BY <2>3, LaneSets
    <3> QED
      BY <1>6, <2>4, <3>1
  <2> QED
    BY <1>10, <2>2, <2>3, <2>4, <2>5 DEF RecordFailure, Tallies
<1> QED
  BY <1>2, <1>3, <1>7, <1>8, <1>9, <1>10 DEF PasswordStep

\* The seven things a step may do to the throttle.
LEMMA ThrottleStep ==
    ASSUME UsersAssumption, UsersTyped, [UsersNext]_userVars
    PROVE  Rests \/ Tries \/ Enters \/ Fails \/ Tallies \/ Loses \/ Passes
<1>1. ASSUME NEW c \in Lanes, CutOff(c)
      PROVE  Loses
  <2>1. inFlight' = [inFlight EXCEPT ![c] = Idle]
    BY <1>1 DEF CutOff, Ended
  <2>2. ASSUME NEW n \in Numbers
        PROVE  Failing(n)' = Failing(n) \ {c} /\ Checking(n)' \subseteq Checking(n)
    <3>1. /\ Checking(n)' = (Checking(n) \ {c}) \cup (IF Asking(Idle, n, "checking") THEN {c} ELSE {})
          /\ Failing(n)' = (Failing(n) \ {c}) \cup (IF Asking(Idle, n, "failed") THEN {c} ELSE {})
      BY <2>1, LaneSets
    <3>2. ~Asking(Idle, n, "failed") /\ ~Asking(Idle, n, "checking")
      BY DEF Asking, Idle
    <3> QED
      BY <3>1, <3>2
  <2> QED
    BY <1>1, <2>2 DEF CutOff, Loses, throttleVars
<1>2. ASSUME Tick
      PROVE  Passes
  <2>1. \A c \in Lanes : inFlight'[c] = Idle
    BY <1>2 DEF Tick, identityVars
  <2>2. \A n \in Numbers : Failing(n)' = {} /\ Checking(n)' = {}
    BY <2>1 DEF Failing, Checking, Asking, Idle
  <2> QED
    BY <1>2, <2>2 DEF Tick, identityVars, Passes
<1> QED
  BY <1>1, <1>2, IdentityRests, PasswordThrottles, OthersRest DEF UsersNext, IdentityStep, CrashStep

\* The set of lanes that lost one, or got one.
LEMMA LaneChanges ==
    ASSUME UsersAssumption, NEW S \in SUBSET Lanes, NEW c
    PROVE  /\ c \in S => Cardinality(S \ {c}) = Cardinality(S) - 1
           /\ c \notin S => Cardinality(S \cup {c}) = Cardinality(S) + 1
           /\ \A T \in SUBSET S : Cardinality(T) <= Cardinality(S)
<1>1. IsFiniteSet(S)
  <2>1. {} \in SUBSET Lanes /\ S \cap {} = {}
    OBVIOUS
  <2> QED
    BY <2>1, LaneCounts
<1> QED
  BY <1>1, FS_AddElement, FS_RemoveElement, FS_Subset

\* Each of the seven keeps the count of wrong passwords in bounds.
LEMMA ThrottleNext ==
    ASSUME UsersAssumption, UsersTyped, UsersTyped', ThrottleInv, [UsersNext]_userVars
    PROVE  ThrottleInv'
<1>1. /\ MaxFailures \in Nat \ {0} /\ MaxCalls \in Nat \ {0} /\ ThrottleWindow \in Nat \ {0}
      /\ clock \in Nat /\ clock' \in Nat /\ cutOffs \in Nat
  BY DEF UsersAssumption, UsersTyped, ThrottleInv, ThrottleTyped
<1>2. \A n \in Numbers :
         /\ throttle[n] \in [failures: Nat, since: Nat, lockedUntil: Nat]
         /\ guesses[n] \in Nat /\ Recorded(n) \in Nat
  BY DEF ThrottleInv, ThrottleTyped, Recorded
<1>3. \A n : /\ Checking(n) \subseteq Lanes /\ Failing(n) \subseteq Lanes
             /\ Checking(n)' \subseteq Lanes /\ Failing(n)' \subseteq Lanes
             /\ Checking(n) \cap Failing(n) = {} /\ Checking(n)' \cap Failing(n)' = {}
  BY DEF Checking, Failing, Asking
<1>4. \A n : /\ Cardinality(Checking(n)) \in Nat /\ Cardinality(Failing(n)) \in Nat
             /\ Cardinality(Checking(n)) + Cardinality(Failing(n)) <= MaxCalls
             /\ Cardinality(Checking(n)') \in Nat /\ Cardinality(Failing(n)') \in Nat
             /\ Cardinality(Checking(n)') + Cardinality(Failing(n)') <= MaxCalls
  BY <1>3, LaneCounts
<1>5. ASSUME Rests \/ Tries
      PROVE  ThrottleInv'
  <2>1. UNCHANGED <<throttle, guesses, clock, cutOffs>>
    BY <1>5 DEF Rests, Tries
  <2>2. ThrottleTyped'
    BY <2>1 DEF ThrottleInv, ThrottleTyped
  <2>3. ASSUME NEW n \in Numbers
        PROVE  Throttles(n)'
    <3>1. Failing(n)' = Failing(n)
      BY <1>5 DEF Rests, Tries
    <3>2. Recorded(n)' = Recorded(n) /\ (Throttled(n)' <=> Throttled(n))
      BY <2>1 DEF Recorded, Throttled
    <3>3. CASE Checking(n)' \subseteq Checking(n)
      <4>1. Cardinality(Checking(n)') <= Cardinality(Checking(n))
        BY <1>3, <3>3, LaneChanges
      <4> QED
        BY <1>1, <1>2, <1>4, <2>1, <3>1, <3>2, <4>1 DEF ThrottleInv, Throttles
    <3>4. CASE ~Throttled(n)
      BY <1>1, <1>2, <1>4, <2>1, <3>1, <3>2, <3>4 DEF ThrottleInv, Throttles
    <3> QED
      BY <1>5, <3>3, <3>4 DEF Rests, Tries
  <2> QED
    BY <2>2, <2>3 DEF ThrottleInv
<1>6. ASSUME Enters
      PROVE  ThrottleInv'
  <2>1. PICK m \in Numbers :
          /\ throttle' = [throttle EXCEPT ![m] = NoFailures] /\ guesses' = [guesses EXCEPT ![m] = 0]
          /\ UNCHANGED <<clock, cutOffs>>
          /\ \A n \in Numbers : Failing(n)' = Failing(n) /\ Checking(n)' \subseteq Checking(n)
    BY <1>6 DEF Enters
  <2>2. NoFailures \in [failures: Nat, since: Nat, lockedUntil: Nat] /\ NoFailures.failures = 0
    BY DEF NoFailures
  <2>3. ThrottleTyped'
    BY <2>1, <2>2 DEF ThrottleInv, ThrottleTyped
  <2>4. ASSUME NEW n \in Numbers
        PROVE  Throttles(n)'
    <3>1. Cardinality(Checking(n)') <= Cardinality(Checking(n)) /\ Failing(n)' = Failing(n)
      BY <1>3, <2>1, LaneChanges
    <3>2. CASE n = m
      <4>1. guesses'[n] = 0 /\ Recorded(n)' = 0
        BY <2>1, <2>2, <3>2 DEF ThrottleInv, ThrottleTyped, Recorded
      <4> QED
        BY <1>1, <1>4, <2>1, <4>1 DEF Throttles
    <3>3. CASE n # m
      <4>1. /\ guesses'[n] = guesses[n] /\ Recorded(n)' = Recorded(n)
            /\ Throttled(n)' <=> Throttled(n)
        BY <2>1, <3>3 DEF ThrottleInv, ThrottleTyped, Recorded, Throttled
      <4> QED
        BY <1>1, <1>2, <1>4, <2>1, <3>1, <4>1 DEF ThrottleInv, Throttles
    <3> QED
      BY <3>2, <3>3
  <2> QED
    BY <2>3, <2>4 DEF ThrottleInv
<1>7. ASSUME Fails
      PROVE  ThrottleInv'
  <2>1. PICK c \in Lanes, m \in Numbers :
          /\ c \in Checking(m) /\ guesses' = [guesses EXCEPT ![m] = @ + 1]
          /\ UNCHANGED <<throttle, clock, cutOffs>>
          /\ \A n \in Numbers :
                /\ Checking(n)' = Checking(n) \ {c}
                /\ Failing(n)' = IF n = m THEN Failing(n) \cup {c} ELSE Failing(n)
    BY <1>7 DEF Fails
  <2>2. ThrottleTyped'
    BY <2>1 DEF ThrottleInv, ThrottleTyped
  <2>3. ASSUME NEW n \in Numbers
        PROVE  Throttles(n)'
    <3>1. Recorded(n)' = Recorded(n) /\ (Throttled(n)' <=> Throttled(n))
      BY <2>1 DEF Recorded, Throttled
    <3>2. CASE n = m
      <4>1. c \notin Failing(n)
        BY <1>3, <2>1, <3>2
      <4>2. /\ Cardinality(Checking(n)') = Cardinality(Checking(n)) - 1
            /\ Cardinality(Failing(n)') = Cardinality(Failing(n)) + 1
        BY <1>3, <2>1, <3>2, <4>1, LaneChanges
      <4>3. guesses'[n] = guesses[n] + 1
        BY <2>1, <3>2 DEF ThrottleInv, ThrottleTyped
      <4> QED
        BY <1>1, <1>2, <1>4, <2>1, <3>1, <4>2, <4>3 DEF ThrottleInv, Throttles
    <3>3. CASE n # m
      <4>1. guesses'[n] = guesses[n] /\ Failing(n)' = Failing(n)
        BY <2>1, <3>3 DEF ThrottleInv, ThrottleTyped
      <4>2. Cardinality(Checking(n)') <= Cardinality(Checking(n))
        BY <1>3, <2>1, LaneChanges
      <4> QED
        BY <1>1, <1>2, <1>4, <2>1, <3>1, <4>1, <4>2 DEF ThrottleInv, Throttles
    <3> QED
      BY <3>2, <3>3
  <2> QED
    BY <2>2, <2>3 DEF ThrottleInv
<1>8. ASSUME Tallies
      PROVE  ThrottleInv'
  <2>1. PICK c \in Lanes, m \in Numbers :
          /\ c \in Failing(m) /\ throttle' = [throttle EXCEPT ![m] = Failed(m)]
          /\ UNCHANGED <<guesses, clock, cutOffs>>
          /\ \A n \in Numbers : /\ Checking(n)' = Checking(n)
                                /\ Failing(n)' = IF n = m THEN Failing(n) \ {c} ELSE Failing(n)
    BY <1>8 DEF Tallies
  <2>2. /\ Failed(m) \in [failures: Nat, since: Nat, lockedUntil: Nat]
        /\ Failed(m).failures = Recorded(m) + 1
        /\ clock - Failed(m).since <= ThrottleWindow
        /\ Failed(m).failures >= MaxFailures => Failed(m).lockedUntil > clock
    BY <1>1, <1>2 DEF Failed, Counted, Recorded
  <2>3. ThrottleTyped'
    BY <2>1, <2>2 DEF ThrottleInv, ThrottleTyped
  <2>4. ASSUME NEW n \in Numbers
        PROVE  Throttles(n)'
    <3>1. CASE n = m
      <4>1. throttle'[n] = Failed(m)
        BY <2>1, <3>1 DEF ThrottleInv, ThrottleTyped
      <4>2. Recorded(n)' = Recorded(n) + 1 /\ (Recorded(n)' >= MaxFailures => Throttled(n)')
        BY <1>1, <1>2, <2>1, <2>2, <3>1, <4>1 DEF Recorded, Throttled
      <4>3. Cardinality(Failing(n)') = Cardinality(Failing(n)) - 1
        BY <1>3, <2>1, <3>1, LaneChanges
      <4> QED
        BY <1>1, <1>2, <1>4, <2>1, <4>2, <4>3 DEF ThrottleInv, Throttles
    <3>2. CASE n # m
      <4>1. throttle'[n] = throttle[n] /\ Failing(n)' = Failing(n)
        BY <2>1, <3>2 DEF ThrottleInv, ThrottleTyped
      <4>2. Recorded(n)' = Recorded(n) /\ (Throttled(n)' <=> Throttled(n))
        BY <2>1, <4>1 DEF Recorded, Throttled
      <4> QED
        BY <1>1, <1>2, <1>4, <2>1, <4>1, <4>2 DEF ThrottleInv, Throttles
    <3> QED
      BY <3>1, <3>2
  <2> QED
    BY <2>3, <2>4 DEF ThrottleInv
<1>9. ASSUME Loses
      PROVE  ThrottleInv'
  <2>1. PICK c \in Lanes :
          /\ cutOffs' = cutOffs + 1 /\ UNCHANGED <<throttle, guesses, clock>>
          /\ \A n \in Numbers : Failing(n)' = Failing(n) \ {c} /\ Checking(n)' \subseteq Checking(n)
    BY <1>9 DEF Loses
  <2>2. ThrottleTyped'
    BY <1>1, <2>1 DEF ThrottleInv, ThrottleTyped
  <2>3. ASSUME NEW n \in Numbers
        PROVE  Throttles(n)'
    <3>1. Recorded(n)' = Recorded(n) /\ (Throttled(n)' <=> Throttled(n))
      BY <2>1 DEF Recorded, Throttled
    <3>2. Cardinality(Checking(n)') <= Cardinality(Checking(n))
      BY <1>3, <2>1, LaneChanges
    <3>3. Cardinality(Failing(n)') >= Cardinality(Failing(n)) - 1
      <4>1. Failing(n)' = Failing(n) \ {c}
        BY <2>1
      <4>2. CASE c \in Failing(n)
        <5>1. Cardinality(Failing(n) \ {c}) = Cardinality(Failing(n)) - 1
          BY <1>3, <4>2, LaneChanges
        <5> QED
          BY <1>4, <4>1, <5>1
      <4>3. CASE c \notin Failing(n)
        <5>1. Failing(n) \ {c} = Failing(n)
          BY <4>3
        <5>2. Cardinality(Failing(n)') = Cardinality(Failing(n))
          BY <4>1, <5>1
        <5> QED
          BY <1>4, <5>2
      <4> QED
        BY <4>2, <4>3
    <3> QED
      BY <1>1, <1>2, <1>4, <2>1, <3>1, <3>2, <3>3 DEF ThrottleInv, Throttles
  <2> QED
    BY <2>2, <2>3 DEF ThrottleInv
<1>10. ASSUME Passes
       PROVE  ThrottleInv'
  <2>1. ThrottleTyped'
    BY <1>10 DEF Passes, ThrottleInv, ThrottleTyped
  <2>2. ASSUME NEW n \in Numbers
        PROVE  Throttles(n)'
    <3>1. guesses'[n] = 0 /\ cutOffs' = cutOffs /\ Checking(n)' = {}
      BY <1>10 DEF Passes
    <3>2. Recorded(n)' \in Nat
      BY <2>1 DEF ThrottleTyped, Recorded
    <3> QED
      BY <1>1, <1>4, <3>1, <3>2, FS_EmptySet DEF Throttles
  <2> QED
    BY <2>1, <2>2 DEF ThrottleInv
<1> QED
  BY <1>5, <1>6, <1>7, <1>8, <1>9, <1>10, ThrottleStep

LEMMA ThrottleAtFirst ==
    ASSUME UsersAssumption, UsersInit
    PROVE  ThrottleInv
<1>1. ThrottleTyped
  BY DEF UsersInit, ThrottleTyped, NoFailures
<1>2. ASSUME NEW n \in Numbers
      PROVE  Throttles(n)
  <2>1. Checking(n) = {} /\ Failing(n) = {}
    BY DEF UsersInit, Checking, Failing, Asking, Idle
  <2>2. guesses[n] = 0 /\ cutOffs = 0 /\ Recorded(n) = 0
    BY DEF UsersInit, Recorded, NoFailures
  <2> QED
    BY <2>1, <2>2, FS_EmptySet DEF Throttles, UsersAssumption
<1> QED
  BY <1>1, <1>2 DEF ThrottleInv

LEMMA ThrottleInvariant == UsersSpec => []ThrottleInv
<1>1. UsersInit => UsersInv /\ ThrottleInv
  BY InvAtFirst, ThrottleAtFirst, UsersAssumption
<1>2. UsersInv /\ [UsersNext]_userVars => UsersInv'
  BY InvNext, UsersAssumption
<1>3. UsersInv => UsersTyped
  BY DEF UsersInv
<1>4. UsersTyped /\ UsersTyped' /\ ThrottleInv /\ [UsersNext]_userVars => ThrottleInv'
  BY ThrottleNext, UsersAssumption
<1> QED
  BY <1>1, <1>2, <1>3, <1>4, PTL DEF UsersSpec

\* However many calls try passwords at once, die before they have said that one was wrong,
\* and find the number open again after its window: in one window no number sees more
\* wrong passwords than the limit, those that overlap, and those that died.
THEOREM AttemptsCorrect == UsersSpec => []AttemptsBounded
<1>1. ThrottleInv => AttemptsBounded
  <2> SUFFICES ASSUME ThrottleInv, NEW n \in Numbers
               PROVE  guesses[n] <= MaxFailures + (MaxCalls - 1) + cutOffs
    BY DEF AttemptsBounded
  <2>1. Checking(n) \subseteq Lanes /\ {} \subseteq Lanes /\ Checking(n) \cap {} = {}
    BY DEF Checking
  <2>2. Cardinality(Checking(n)) \in Nat
    BY <2>1, LaneCounts, UsersAssumption
  <2>3. /\ guesses[n] \in Nat /\ cutOffs \in Nat
        /\ guesses[n] + Cardinality(Checking(n)) <= MaxFailures + (MaxCalls - 1) + cutOffs
    BY DEF ThrottleInv, ThrottleTyped, Throttles
  <2> QED
    BY <2>2, <2>3, UsersAssumption DEF UsersAssumption
<1> QED
  BY <1>1, ThrottleInvariant, PTL

-----------------------------------------------------------------------------
(* Customers, vehicles and services *)

\* What is held by a document is reserved for it, and nothing else is.
Agree(keys, held, Docs) == \A k \in DOMAIN keys, d \in Docs : keys[k] = d <=> held[d] = k

\* A reservation that moves with the key of its document stays in agreement.
LEMMA KeyMoves ==
    ASSUME NEW Keys, NEW Docs, Absent \notin Keys, Absent \notin Docs,
           NEW keys \in [Keys -> Docs \cup {Absent}],
           NEW held \in [Docs -> Keys \cup {Absent}],
           Agree(keys, held, Docs),
           NEW id \in Docs, NEW new \in Keys \cup {Absent},
           new # Absent => keys[new] \in {Absent, id},
           NEW after, after = Reserved(keys, held[id], new, id),
           NEW now \in [Docs -> Keys \cup {Absent}],
           now[id] = new, \A d \in Docs \ {id} : now[d] = held[d]
    PROVE  after \in [Keys -> Docs \cup {Absent}] /\ Agree(after, now, Docs)
<1>1. after \in [Keys -> Docs \cup {Absent}]
  BY DEF Reserved
<1>2. ASSUME NEW k \in Keys, NEW d \in Docs
      PROVE  after[k] = d <=> now[d] = k
  <2>1. after[k] = IF k = new THEN id ELSE IF k = held[id] THEN Absent ELSE keys[k]
    BY DEF Reserved
  <2>2. \A e \in Docs : keys[k] = e <=> held[e] = k
    BY DEF Agree
  <2> QED
    BY <2>1, <2>2
<1> QED
  BY <1>1, <1>2 DEF Agree

\* The keys the records hold, by record.
PhonesHeld == [c \in Customers |-> customers[c].phone]
PlatesHeld == [v \in Cars |-> KeyOfPlate(vehicles[v].plate)]
NamesHeld == [s \in Services |-> KeyOfName(catalogue[s].name)]

\* Every plate and name has a key, and no key is Absent.
LEMMA KeysOfRecords ==
    ASSUME RegistryTypeOK
    PROVE  /\ PhonesHeld \in [Customers -> Phones \cup {Absent}]
           /\ PlatesHeld \in [Cars -> PlateKeys \cup {Absent}]
           /\ NamesHeld \in [Services -> NameKeys \cup {Absent}]
           /\ \A p \in Plates : PlateKey[p] \in PlateKeys /\ KeyOfPlate(p) = PlateKey[p]
           /\ \A n \in ServiceNames : NameKey[n] \in NameKeys /\ KeyOfName(n) = NameKey[n]
           /\ KeyOfPlate(Absent) = Absent /\ KeyOfName(Absent) = Absent
<1>1. /\ \A p \in Plates : PlateKey[p] \in PlateKeys /\ KeyOfPlate(p) = PlateKey[p]
      /\ \A n \in ServiceNames : NameKey[n] \in NameKeys /\ KeyOfName(n) = NameKey[n]
      /\ KeyOfPlate(Absent) = Absent /\ KeyOfName(Absent) = Absent
  BY RegistryAssumption DEF PlateKeys, NameKeys, KeyOfPlate, KeyOfName
<1>2. \A c \in Customers : customers[c].phone \in Phones \cup {Absent}
  BY DEF RegistryTypeOK, Customer
<1>3. \A v \in Cars : vehicles[v].plate \in Plates \cup {Absent}
  BY DEF RegistryTypeOK, Vehicle
<1>4. \A s \in Services : catalogue[s].name \in ServiceNames \cup {Absent}
  BY DEF RegistryTypeOK, Service
<1>5. PlatesHeld \in [Cars -> PlateKeys \cup {Absent}]
  BY <1>1, <1>3 DEF PlatesHeld
<1>6. NamesHeld \in [Services -> NameKeys \cup {Absent}]
  BY <1>1, <1>4 DEF NamesHeld
<1> QED
  BY <1>1, <1>2, <1>5, <1>6 DEF PhonesHeld

\* KeysHold, kind by kind.
LEMMA KeysHoldByKind ==
    RegistryTypeOK => (KeysHold <=> /\ Agree(phoneKeys, PhonesHeld, Customers)
                                    /\ Agree(plateKeys, PlatesHeld, Cars)
                                    /\ Agree(nameKeys, NamesHeld, Services))
<1> SUFFICES ASSUME RegistryTypeOK
             PROVE  KeysHold <=> /\ Agree(phoneKeys, PhonesHeld, Customers)
                                 /\ Agree(plateKeys, PlatesHeld, Cars)
                                 /\ Agree(nameKeys, NamesHeld, Services)
  OBVIOUS
<1>1. DOMAIN phoneKeys = Phones /\ DOMAIN plateKeys = PlateKeys /\ DOMAIN nameKeys = NameKeys
  BY DEF RegistryTypeOK
<1>2. /\ \A c \in Customers : PhonesHeld[c] = customers[c].phone
      /\ \A v \in Cars : PlatesHeld[v] = KeyOfPlate(vehicles[v].plate)
      /\ \A s \in Services : NamesHeld[s] = KeyOfName(catalogue[s].name)
  BY DEF PhonesHeld, PlatesHeld, NamesHeld
<1> QED
  BY <1>1, <1>2 DEF KeysHold, Agree

-----------------------------------------------------------------------------
(* Customers *)

\* A registration makes one customer who exists, is active and has no vehicle yet.
LEMMA RegistrationKeeps ==
    ASSUME RegistryInOrder, NEW c \in Customers, NEW name \in CustomerNames,
           NEW phone \in Phones \cup {Absent}, MayRegister(c, phone),
           NEW theirs, theirs = WithCustomer(c, name, phone),
           NEW keys, keys = Reserved(phoneKeys, Absent, phone, c)
    PROVE  /\ theirs \in [Customers -> Customer]
           /\ theirs[c].exists /\ theirs[c].vehicleCount = 0
           /\ \A d \in Customers \ {c} : theirs[d] = customers[d]
           /\ \A d \in Customers : ~theirs[d].exists => theirs[d] = NoCustomer
           /\ VehiclesOf(c) = {}
           /\ keys \in [Phones -> Customers \cup {Absent}]
           /\ Agree(keys, [d \in Customers |-> theirs[d].phone], Customers)
<1> DEFINE now == [d \in Customers |-> theirs[d].phone]
<1>1. /\ theirs \in [Customers -> Customer]
      /\ theirs[c].exists /\ theirs[c].vehicleCount = 0 /\ theirs[c].phone = phone
      /\ \A d \in Customers \ {c} : theirs[d] = customers[d]
  BY DEF RegistryInOrder, RegistryTypeOK, WithCustomer, Customer
<1>2. \A d \in Customers : ~theirs[d].exists => theirs[d] = NoCustomer
  BY <1>1 DEF RegistryInOrder, RegistryTypeOK
<1>3. VehiclesOf(c) = {}
  BY RegistryAssumption DEF RegistryInOrder, CustomersFollowed, VehiclesOf, MayRegister
<1>4. customers[c].phone = Absent
  BY DEF RegistryInOrder, RegistryTypeOK, MayRegister, NoCustomer
<1>5. PhonesHeld[c] = Absent /\ PhonesHeld \in [Customers -> Phones \cup {Absent}]
  BY <1>4, KeysOfRecords DEF RegistryInOrder, PhonesHeld
<1>6. now \in [Customers -> Phones \cup {Absent}]
  <2>1. \A d \in Customers : theirs[d].phone \in Phones \cup {Absent}
    BY <1>1 DEF Customer
  <2> QED
    BY <2>1
<1>7. now[c] = phone /\ \A d \in Customers \ {c} : now[d] = PhonesHeld[d]
  BY <1>1 DEF PhonesHeld
<1>8. Agree(phoneKeys, PhonesHeld, Customers)
  BY KeysHoldByKind DEF RegistryInOrder
<1>9. phone # Absent => phoneKeys[phone] \in {Absent, c}
  BY DEF MayRegister, Free
<1>10. phoneKeys \in [Phones -> Customers \cup {Absent}] /\ Absent \notin Phones /\ Absent \notin Customers
  BY RegistryAssumption DEF RegistryInOrder, RegistryTypeOK
<1> HIDE DEF now
<1>11. keys \in [Phones -> Customers \cup {Absent}] /\ Agree(keys, now, Customers)
  BY <1>5, <1>6, <1>7, <1>8, <1>9, <1>10, KeyMoves
<1> QED
  BY <1>1, <1>2, <1>3, <1>11 DEF now

LEMMA CreateCustomerKeeps ==
    ASSUME RegistryInOrder, NEW c \in Customers, NEW name \in CustomerNames,
           NEW phone \in Phones \cup {Absent}, CreateCustomer(c, name, phone)
    PROVE  RegistryInOrder'
<1>1. /\ customers' \in [Customers -> Customer]
      /\ customers'[c].exists /\ customers'[c].vehicleCount = 0
      /\ \A d \in Customers \ {c} : customers'[d] = customers[d]
      /\ \A d \in Customers : ~customers'[d].exists => customers'[d] = NoCustomer
      /\ VehiclesOf(c) = {}
      /\ phoneKeys' \in [Phones -> Customers \cup {Absent}]
      /\ Agree(phoneKeys', PhonesHeld', Customers)
  BY RegistrationKeeps DEF CreateCustomer, PhonesHeld
<1>2. /\ vehicles' = vehicles /\ catalogue' = catalogue /\ plateKeys' = plateKeys
      /\ nameKeys' = nameKeys /\ outgrown' = outgrown
  BY DEF CreateCustomer
<1>3. RegistryTypeOK'
  BY <1>1, <1>2 DEF RegistryInOrder, RegistryTypeOK
<1>4. PlatesHeld' = PlatesHeld /\ NamesHeld' = NamesHeld
  BY <1>2 DEF PlatesHeld, NamesHeld
<1>5. KeysHold'
  <2>1. Agree(plateKeys, PlatesHeld, Cars) /\ Agree(nameKeys, NamesHeld, Services)
    BY KeysHoldByKind DEF RegistryInOrder
  <2>2. Agree(plateKeys', PlatesHeld', Cars) /\ Agree(nameKeys', NamesHeld', Services)
    BY <1>2, <1>4, <2>1 DEF Agree
  <2>3. KeysHold' <=> (/\ Agree(phoneKeys, PhonesHeld, Customers)
                       /\ Agree(plateKeys, PlatesHeld, Cars)
                       /\ Agree(nameKeys, NamesHeld, Services))'
    BY <1>3, KeysHoldByKind, PTL
  <2> QED
    BY <1>1, <2>2, <2>3
<1>6. CustomersFollowed'
  <2>1. \A d \in Customers : VehiclesOf(d)' = VehiclesOf(d)
    BY <1>2 DEF VehiclesOf
  <2>2. customers'[c].vehicleCount = Cardinality(VehiclesOf(c)')
    BY <1>1, <2>1, FS_EmptySet
  <2>3. \A v \in Cars : vehicles[v].customer # c
    BY <1>1 DEF VehiclesOf
  <2>4. \A v \in Cars : vehicles[v].customer \in Customers \cup {Absent}
    BY DEF RegistryInOrder, RegistryTypeOK, Vehicle
  <2> QED
    BY <1>1, <1>2, <2>1, <2>2, <2>3, <2>4 DEF RegistryInOrder, CustomersFollowed
<1> QED
  BY <1>3, <1>5, <1>6 DEF RegistryInOrder

\* A change of name reaches vehicles of the customer only, all of them if they are few enough,
\* and changes nothing else in them.
LEMMA NamesFollow ==
    ASSUME RegistryInOrder, NEW c \in Customers, NEW name \in CustomerNames,
           NEW some \in Reach(c), NEW after, after = NameCopied(c, name, some)
    PROVE  /\ after \in [Cars -> Vehicle]
           /\ \A v \in Cars : /\ after[v].exists <=> vehicles[v].exists
                              /\ after[v].plate = vehicles[v].plate
                              /\ after[v].customer = vehicles[v].customer
                              /\ vehicles[v].customer # c =>
                                     after[v].customerName = vehicles[v].customerName
                              /\ vehicles[v].customer = c /\ WithinReach(c) =>
                                     after[v].customerName = name
<1>1. vehicles \in [Cars -> Vehicle]
  BY DEF RegistryInOrder, RegistryTypeOK
<1>2. /\ some \in SUBSET VehiclesOf(c)
      /\ WithinReach(c) => some = VehiclesOf(c)
  BY DEF Reach
<1>3. \A v \in Cars : after[v] = IF v \in some THEN [vehicles[v] EXCEPT !.customerName = name]
                                 ELSE vehicles[v]
  BY DEF NameCopied
<1>4. ASSUME NEW v \in Cars
      PROVE  /\ after[v] \in Vehicle
             /\ after[v].exists <=> vehicles[v].exists
             /\ after[v].plate = vehicles[v].plate
             /\ after[v].customer = vehicles[v].customer
             /\ after[v].customerName = IF v \in some THEN name ELSE vehicles[v].customerName
  <2>1. vehicles[v] \in Vehicle
    BY <1>1
  <2> QED
    BY <1>3, <2>1 DEF Vehicle
<1>5. \A v \in Cars : v \in VehiclesOf(c) <=> vehicles[v].customer = c
  BY DEF VehiclesOf
<1>6. after \in [Cars -> Vehicle]
  BY <1>4 DEF NameCopied
<1> QED
  BY <1>2, <1>4, <1>5, <1>6

LEMMA UpdateCustomerKeeps ==
    ASSUME RegistryInOrder, NEW c \in Customers, NEW name \in CustomerNames,
           NEW phone \in Phones \cup {Absent}, NEW active \in BOOLEAN,
           UpdateCustomer(c, name, phone, active)
    PROVE  RegistryInOrder'
<1>1. catalogue' = catalogue /\ plateKeys' = plateKeys /\ nameKeys' = nameKeys
  BY DEF UpdateCustomer
<1>2. customers \in [Customers -> Customer] /\ customers[c].exists
  BY DEF RegistryInOrder, RegistryTypeOK, UpdateCustomer
<1>3. customers[c] \in Customer
  BY <1>2
<1>4. /\ customers' \in [Customers -> Customer]
      /\ customers'[c].exists /\ customers'[c].name = name /\ customers'[c].phone = phone
      /\ customers'[c].vehicleCount = customers[c].vehicleCount
      /\ \A d \in Customers \ {c} : customers'[d] = customers[d]
  BY <1>2, <1>3 DEF UpdateCustomer, Customer
<1>5. \A d \in Customers : ~customers'[d].exists => customers'[d] = NoCustomer
  BY <1>4 DEF RegistryInOrder, RegistryTypeOK
<1>6. /\ vehicles' \in [Cars -> Vehicle]
      /\ \A v \in Cars : /\ vehicles'[v].exists <=> vehicles[v].exists
                         /\ vehicles'[v].plate = vehicles[v].plate
                         /\ vehicles'[v].customer = vehicles[v].customer
      /\ \A v \in Cars : /\ vehicles[v].customer # c =>
                                vehicles'[v].customerName = vehicles[v].customerName
                         /\ vehicles[v].customer = c /\ c \notin outgrown' =>
                                vehicles'[v].customerName = name
      /\ outgrown' \in SUBSET Customers
      /\ \A d \in Customers \ {c} : d \in outgrown' <=> d \in outgrown
  <2>1. outgrown \in SUBSET Customers /\ vehicles \in [Cars -> Vehicle]
    BY DEF RegistryInOrder, RegistryTypeOK
  <2>2. CASE name = customers[c].name
    <3>1. vehicles' = vehicles /\ outgrown' = outgrown
      BY <2>2 DEF UpdateCustomer
    <3>2. \A v \in Cars : vehicles[v].customer = c /\ c \notin outgrown =>
                               vehicles[v].customerName = name
      BY <2>2, RegistryAssumption DEF RegistryInOrder, CustomersFollowed
    <3> QED
      BY <2>1, <3>1, <3>2
  <2>3. CASE name # customers[c].name
    <3>1. PICK some \in Reach(c) : vehicles' = NameCopied(c, name, some)
      BY <2>3 DEF UpdateCustomer
    <3>2. outgrown' = IF WithinReach(c) THEN outgrown \ {c} ELSE outgrown \cup {c}
      BY <2>3 DEF UpdateCustomer, OutgrownBy
    <3>3. c \notin outgrown' => WithinReach(c)
      BY <3>2
    <3>4. /\ outgrown' \in SUBSET Customers
          /\ \A d \in Customers \ {c} : d \in outgrown' <=> d \in outgrown
      BY <2>1, <3>2
    <3> QED
      BY <3>1, <3>3, <3>4, NamesFollow
  <2> QED
    BY <2>2, <2>3
<1>7. phoneKeys' \in [Phones -> Customers \cup {Absent}] /\ Agree(phoneKeys', PhonesHeld', Customers)
  <2>1. /\ PhonesHeld \in [Customers -> Phones \cup {Absent}]
        /\ PhonesHeld' \in [Customers -> Phones \cup {Absent}]
        /\ PhonesHeld[c] = customers[c].phone /\ PhonesHeld'[c] = phone
        /\ \A d \in Customers \ {c} : PhonesHeld'[d] = PhonesHeld[d]
    <3>1. \A d \in Customers : customers'[d].phone \in Phones \cup {Absent}
      BY <1>4 DEF Customer
    <3> QED
      BY <1>4, <3>1, KeysOfRecords DEF RegistryInOrder, PhonesHeld
  <2>2. /\ phoneKeys \in [Phones -> Customers \cup {Absent}] /\ Agree(phoneKeys, PhonesHeld, Customers)
        /\ Absent \notin Phones /\ Absent \notin Customers
    BY RegistryAssumption, KeysHoldByKind DEF RegistryInOrder, RegistryTypeOK
  <2>3. CASE phone = customers[c].phone
    <3>1. phoneKeys' = phoneKeys /\ PhonesHeld' = PhonesHeld
      BY <2>1, <2>3 DEF UpdateCustomer
    <3> QED
      BY <2>2, <3>1 DEF Agree
  <2>4. CASE phone # customers[c].phone
    <3>1. phoneKeys' = Reserved(phoneKeys, PhonesHeld[c], phone, c)
      BY <2>1, <2>4 DEF UpdateCustomer
    <3>2. phone # Absent => phoneKeys[phone] \in {Absent, c}
      BY <2>4 DEF UpdateCustomer
    <3> QED
      BY <2>1, <2>2, <3>1, <3>2, KeyMoves
  <2> QED
    BY <2>3, <2>4
<1>8. RegistryTypeOK'
  <2>1. \A v \in Cars : vehicles'[v].exists <=> vehicles'[v].plate # Absent
    BY <1>6 DEF RegistryInOrder, RegistryTypeOK
  <2> QED
    BY <1>1, <1>4, <1>5, <1>6, <1>7, <2>1 DEF RegistryInOrder, RegistryTypeOK
<1>9. KeysHold'
  <2>1. PlatesHeld' = PlatesHeld /\ NamesHeld' = NamesHeld
    BY <1>1, <1>6 DEF PlatesHeld, NamesHeld
  <2>2. Agree(plateKeys, PlatesHeld, Cars) /\ Agree(nameKeys, NamesHeld, Services)
    BY KeysHoldByKind DEF RegistryInOrder
  <2>3. Agree(plateKeys', PlatesHeld', Cars) /\ Agree(nameKeys', NamesHeld', Services)
    BY <1>1, <2>1, <2>2 DEF Agree
  <2>4. KeysHold' <=> (/\ Agree(phoneKeys, PhonesHeld, Customers)
                       /\ Agree(plateKeys, PlatesHeld, Cars)
                       /\ Agree(nameKeys, NamesHeld, Services))'
    BY <1>8, KeysHoldByKind, PTL
  <2> QED
    BY <1>7, <2>3, <2>4
<1>10. CustomersFollowed'
  <2>1. \A d \in Customers : VehiclesOf(d)' = VehiclesOf(d)
    BY <1>6 DEF VehiclesOf
  <2>2. \A d \in Customers : customers'[d].vehicleCount = Cardinality(VehiclesOf(d)')
    BY <1>4, <2>1 DEF RegistryInOrder, CustomersFollowed
  <2>3. \A v \in Cars : vehicles[v].customer \in Customers \cup {Absent}
    BY DEF RegistryInOrder, RegistryTypeOK, Vehicle
  <2>4. ASSUME NEW v \in Cars
        PROVE  IF vehicles'[v].customer = Absent THEN vehicles'[v].customerName = Absent
               ELSE /\ customers'[vehicles'[v].customer].exists
                    /\ vehicles'[v].customer \notin outgrown' =>
                           vehicles'[v].customerName = customers'[vehicles'[v].customer].name
    <3>1. CASE vehicles[v].customer = c
      BY <1>4, <1>6, <3>1, RegistryAssumption
    <3>2. CASE vehicles[v].customer # c
      BY <1>4, <1>6, <2>3, <3>2 DEF RegistryInOrder, CustomersFollowed
    <3> QED
      BY <3>1, <3>2
  <2> QED
    BY <2>2, <2>4 DEF CustomersFollowed
<1> QED
  BY <1>8, <1>9, <1>10 DEF RegistryInOrder

-----------------------------------------------------------------------------
(* Vehicles *)

\* A vehicle that changes hands leaves one customer's vehicles and joins another's.
LEMMA CountFollows ==
    ASSUME vehicles \in [Cars -> Vehicle], vehicles' \in [Cars -> Vehicle],
           NEW v \in Cars, \A w \in Cars \ {v} : vehicles'[w] = vehicles[w],
           NEW c \in Customers
    PROVE  Cardinality(VehiclesOf(c)') = Cardinality(VehiclesOf(c))
               - (IF c = vehicles[v].customer THEN 1 ELSE 0)
               + (IF c = vehicles'[v].customer THEN 1 ELSE 0)
<1>1. IsFiniteSet(VehiclesOf(c)) /\ Cardinality(VehiclesOf(c)) \in Nat
  <2>1. VehiclesOf(c) \in SUBSET Cars
    BY DEF VehiclesOf
  <2> QED
    BY <2>1, RegistryAssumption, FS_Subset, FS_CardinalityType
<1>2. v \in VehiclesOf(c) <=> c = vehicles[v].customer
  BY DEF VehiclesOf
<1>3. VehiclesOf(c)' = IF c = vehicles'[v].customer THEN VehiclesOf(c) \cup {v}
                       ELSE VehiclesOf(c) \ {v}
  BY DEF VehiclesOf
<1>4. /\ Cardinality(VehiclesOf(c) \cup {v}) = IF v \in VehiclesOf(c) THEN Cardinality(VehiclesOf(c))
                                              ELSE Cardinality(VehiclesOf(c)) + 1
      /\ Cardinality(VehiclesOf(c) \ {v}) = IF v \in VehiclesOf(c) THEN Cardinality(VehiclesOf(c)) - 1
                                            ELSE Cardinality(VehiclesOf(c))
  BY <1>1, FS_AddElement, FS_RemoveElement
<1> QED
  BY <1>1, <1>2, <1>3, <1>4

\* What a saved vehicle leaves behind, for the customers as the call has made them.
LEMMA SaveVehicleKeeps ==
    ASSUME RegistryInOrder, NEW v \in Cars, NEW plate \in Plates, NEW active \in BOOLEAN,
           NEW owner \in Customers \cup {Absent}, NEW theirs \in [Customers -> Customer],
           \A c \in Customers : customers[c].exists => theirs[c] = customers[c],
           \A c \in Customers : ~theirs[c].exists => theirs[c] = NoCustomer,
           \A c \in Customers : theirs[c].vehicleCount = Cardinality(VehiclesOf(c)),
           SaveVehicle(v, plate, active, owner, theirs)
    PROVE  /\ customers' \in [Customers -> Customer]
           /\ \A c \in Customers : ~customers'[c].exists => customers'[c] = NoCustomer
           /\ \A c \in Customers : customers'[c].phone = theirs[c].phone
           /\ vehicles' \in [Cars -> Vehicle]
           /\ \A w \in Cars : vehicles'[w].exists <=> vehicles'[w].plate # Absent
           /\ plateKeys' \in [PlateKeys -> Cars \cup {Absent}]
           /\ Agree(plateKeys', PlatesHeld', Cars)
           /\ catalogue' = catalogue /\ nameKeys' = nameKeys /\ outgrown' = outgrown
           /\ CustomersFollowed'
<1> DEFINE name == IF owner = vehicles[v].customer THEN vehicles[v].customerName
                   ELSE IF owner = Absent THEN Absent ELSE theirs[owner].name
           saved == [exists |-> TRUE, plate |-> plate, active |-> active, customer |-> owner,
                     customerName |-> name]
<1>1. /\ vehicles \in [Cars -> Vehicle] /\ vehicles[v] \in Vehicle
      /\ plateKeys \in [PlateKeys -> Cars \cup {Absent}]
      /\ \A w \in Cars : vehicles[w].exists <=> vehicles[w].plate # Absent
      /\ \A w \in Cars : vehicles[w].customer \in Customers \cup {Absent}
  BY DEF RegistryInOrder, RegistryTypeOK, Vehicle
<1>2. /\ vehicles' = [vehicles EXCEPT ![v] = saved]
      /\ customers' = CountMoved(theirs, vehicles[v].customer, owner)
      /\ catalogue' = catalogue /\ nameKeys' = nameKeys /\ outgrown' = outgrown
  BY DEF SaveVehicle
<1>3. saved \in Vehicle /\ saved.customer = owner /\ saved.customerName = name
      /\ saved.plate = plate /\ saved.exists
  <2>1. name \in CustomerNames \cup {Absent}
    BY <1>1 DEF Customer, Vehicle
  <2> QED
    BY <2>1 DEF Vehicle
<1> HIDE DEF saved
<1>4. vehicles' \in [Cars -> Vehicle] /\ vehicles'[v] = saved
      /\ \A w \in Cars \ {v} : vehicles'[w] = vehicles[w]
  BY <1>1, <1>2, <1>3
<1>5. \A w \in Cars : vehicles'[w].exists <=> vehicles'[w].plate # Absent
  BY <1>1, <1>3, <1>4, RegistryAssumption
<1>6. owner # Absent => theirs[owner].exists
  <2>1. CASE owner = vehicles[v].customer
    BY <2>1 DEF RegistryInOrder, CustomersFollowed
  <2>2. CASE owner # vehicles[v].customer
    BY <2>2 DEF SaveVehicle, Linkable
  <2> QED
    BY <2>1, <2>2
<1>7. ASSUME NEW c \in Customers
      PROVE  /\ customers'[c] \in Customer
             /\ customers'[c].exists <=> theirs[c].exists
             /\ customers'[c].name = theirs[c].name
             /\ customers'[c].phone = theirs[c].phone
             /\ customers'[c].vehicleCount = theirs[c].vehicleCount
                    - (IF c = vehicles[v].customer THEN 1 ELSE 0) + (IF c = owner THEN 1 ELSE 0)
             /\ c \notin {vehicles[v].customer, owner} => customers'[c] = theirs[c]
  <2>1. customers'[c] = [theirs[c] EXCEPT !.vehicleCount =
            @ - (IF c = vehicles[v].customer THEN 1 ELSE 0) + (IF c = owner THEN 1 ELSE 0)]
    BY <1>2 DEF CountMoved
  <2>2. theirs[c] \in Customer
    OBVIOUS
  <2> QED
    BY <2>1, <2>2 DEF Customer
<1>8. customers' \in [Customers -> Customer]
  BY <1>2, <1>7 DEF CountMoved
<1>9. ASSUME NEW c \in Customers, ~customers'[c].exists
      PROVE  customers'[c] = NoCustomer
  <2>1. c # owner /\ c # vehicles[v].customer
    BY <1>6, <1>7, <1>9, RegistryAssumption DEF RegistryInOrder, CustomersFollowed
  <2> QED
    BY <1>7, <1>9, <2>1
<1>10. plateKeys' \in [PlateKeys -> Cars \cup {Absent}] /\ Agree(plateKeys', PlatesHeld', Cars)
  <2>1. /\ KeyOfPlate(plate) \in PlateKeys /\ Absent \notin PlateKeys /\ Absent \notin Cars
        /\ PlatesHeld \in [Cars -> PlateKeys \cup {Absent}]
        /\ \A p \in Plates \cup {Absent} : KeyOfPlate(p) \in PlateKeys \cup {Absent}
    BY RegistryAssumption, KeysOfRecords DEF RegistryInOrder
  <2>2. PlatesHeld' \in [Cars -> PlateKeys \cup {Absent}]
    <3>1. \A w \in Cars : vehicles'[w].plate \in Plates \cup {Absent}
      BY <1>4 DEF Vehicle
    <3> QED
      BY <2>1, <3>1 DEF PlatesHeld
  <2>3. /\ PlatesHeld[v] = KeyOfPlate(vehicles[v].plate) /\ PlatesHeld'[v] = KeyOfPlate(plate)
        /\ \A w \in Cars \ {v} : PlatesHeld'[w] = PlatesHeld[w]
    BY <1>3, <1>4 DEF PlatesHeld
  <2>4. Agree(plateKeys, PlatesHeld, Cars)
    BY KeysHoldByKind DEF RegistryInOrder
  <2>5. CASE KeyOfPlate(plate) = KeyOfPlate(vehicles[v].plate)
    <3>1. plateKeys' = plateKeys /\ \A w \in Cars : PlatesHeld'[w] = PlatesHeld[w]
      BY <2>3, <2>5 DEF SaveVehicle
    <3> QED
      BY <1>1, <2>4, <3>1 DEF Agree
  <2>6. CASE KeyOfPlate(plate) # KeyOfPlate(vehicles[v].plate)
    <3>1. plateKeys' = Reserved(plateKeys, PlatesHeld[v], KeyOfPlate(plate), v)
      BY <2>3, <2>6 DEF SaveVehicle
    <3>2. plateKeys[KeyOfPlate(plate)] = Absent
      BY <2>6 DEF SaveVehicle, PlateFree, Free
    <3>3. KeyOfPlate(plate) \in PlateKeys \cup {Absent} /\ Absent \notin PlateKeys /\ Absent \notin Cars
      BY <2>1
    <3>4. PlatesHeld \in [Cars -> PlateKeys \cup {Absent}]
      BY <2>1
    <3> QED
      BY <1>1, <2>2, <2>3, <2>4, <3>1, <3>2, <3>3, <3>4, KeyMoves
  <2> QED
    BY <2>5, <2>6
<1>11. CustomersFollowed'
  <2>1. \A c \in Customers : customers'[c].vehicleCount = Cardinality(VehiclesOf(c)')
    BY <1>1, <1>3, <1>4, <1>7, CountFollows
  <2>2. ASSUME NEW w \in Cars
        PROVE  IF vehicles'[w].customer = Absent THEN vehicles'[w].customerName = Absent
               ELSE /\ customers'[vehicles'[w].customer].exists
                    /\ vehicles'[w].customer \notin outgrown' =>
                           vehicles'[w].customerName = customers'[vehicles'[w].customer].name
    <3>1. IF vehicles[w].customer = Absent THEN vehicles[w].customerName = Absent
          ELSE /\ theirs[vehicles[w].customer].exists
               /\ vehicles[w].customer \notin outgrown =>
                      vehicles[w].customerName = theirs[vehicles[w].customer].name
      BY <1>1 DEF RegistryInOrder, CustomersFollowed
    <3>2. CASE w # v
      BY <1>1, <1>2, <1>4, <1>7, <3>1, <3>2
    <3>3. CASE w = v
      BY <1>2, <1>3, <1>4, <1>6, <1>7, <3>1, <3>3
    <3> QED
      BY <3>2, <3>3
  <2> QED
    BY <2>1, <2>2 DEF CustomersFollowed
<1> QED
  BY <1>2, <1>4, <1>5, <1>7, <1>8, <1>9, <1>10, <1>11

\* From what is left behind, with the reservations of phones, the whole invariant.
LEMMA VehicleStepKeeps ==
    ASSUME RegistryInOrder, NEW v \in Cars, NEW plate \in Plates, NEW active \in BOOLEAN,
           NEW owner \in Customers \cup {Absent}, NEW theirs \in [Customers -> Customer],
           \A c \in Customers : customers[c].exists => theirs[c] = customers[c],
           \A c \in Customers : ~theirs[c].exists => theirs[c] = NoCustomer,
           \A c \in Customers : theirs[c].vehicleCount = Cardinality(VehiclesOf(c)),
           SaveVehicle(v, plate, active, owner, theirs),
           phoneKeys' \in [Phones -> Customers \cup {Absent}],
           Agree(phoneKeys', [c \in Customers |-> theirs[c].phone], Customers)
    PROVE  RegistryInOrder'
<1>1. /\ customers' \in [Customers -> Customer]
      /\ \A c \in Customers : ~customers'[c].exists => customers'[c] = NoCustomer
      /\ \A c \in Customers : customers'[c].phone = theirs[c].phone
      /\ vehicles' \in [Cars -> Vehicle]
      /\ \A w \in Cars : vehicles'[w].exists <=> vehicles'[w].plate # Absent
      /\ plateKeys' \in [PlateKeys -> Cars \cup {Absent}]
      /\ Agree(plateKeys', PlatesHeld', Cars)
      /\ catalogue' = catalogue /\ nameKeys' = nameKeys /\ outgrown' = outgrown
      /\ CustomersFollowed'
  BY SaveVehicleKeeps
<1>2. RegistryTypeOK'
  BY <1>1 DEF RegistryInOrder, RegistryTypeOK
<1>3. Agree(phoneKeys', PhonesHeld', Customers)
  <2>1. PhonesHeld' = [c \in Customers |-> theirs[c].phone]
    BY <1>1 DEF PhonesHeld
  <2> QED
    BY <2>1
<1>4. Agree(nameKeys', NamesHeld', Services)
  <2>1. Agree(nameKeys, NamesHeld, Services)
    BY KeysHoldByKind DEF RegistryInOrder
  <2> QED
    BY <1>1, <2>1 DEF Agree, NamesHeld
<1>5. KeysHold' <=> (/\ Agree(phoneKeys, PhonesHeld, Customers)
                     /\ Agree(plateKeys, PlatesHeld, Cars)
                     /\ Agree(nameKeys, NamesHeld, Services))'
  BY <1>2, KeysHoldByKind, PTL
<1> QED
  BY <1>1, <1>2, <1>3, <1>4, <1>5 DEF RegistryInOrder

LEMMA OwnVehicleKeeps ==
    ASSUME RegistryInOrder, NEW v \in Cars, NEW plate \in Plates, NEW active \in BOOLEAN,
           NEW owner \in Customers \cup {Absent},
           SaveVehicle(v, plate, active, owner, customers), phoneKeys' = phoneKeys
    PROVE  RegistryInOrder'
<1>1. /\ customers \in [Customers -> Customer]
      /\ \A c \in Customers : ~customers[c].exists => customers[c] = NoCustomer
      /\ \A c \in Customers : customers[c].vehicleCount = Cardinality(VehiclesOf(c))
      /\ phoneKeys' \in [Phones -> Customers \cup {Absent}]
  BY DEF RegistryInOrder, RegistryTypeOK, CustomersFollowed
<1>2. Agree(phoneKeys', [c \in Customers |-> customers[c].phone], Customers)
  BY KeysHoldByKind DEF RegistryInOrder, PhonesHeld
<1> QED
  BY <1>1, <1>2, VehicleStepKeeps

LEMMA SaveVehicleForNewKeeps ==
    ASSUME RegistryInOrder, NEW v \in Cars, NEW plate \in Plates, NEW active \in BOOLEAN,
           NEW c \in Customers, NEW name \in CustomerNames, NEW phone \in Phones \cup {Absent},
           SaveVehicleForNew(v, plate, active, c, name, phone)
    PROVE  RegistryInOrder'
<1>1. PICK theirs : theirs = WithCustomer(c, name, phone)
  OBVIOUS
<1>2. /\ MayRegister(c, phone) /\ SaveVehicle(v, plate, active, c, theirs)
      /\ phoneKeys' = Reserved(phoneKeys, Absent, phone, c)
  BY <1>1 DEF SaveVehicleForNew
<1>3. /\ theirs \in [Customers -> Customer]
      /\ theirs[c].exists /\ theirs[c].vehicleCount = 0
      /\ \A d \in Customers \ {c} : theirs[d] = customers[d]
      /\ \A d \in Customers : ~theirs[d].exists => theirs[d] = NoCustomer
      /\ VehiclesOf(c) = {}
      /\ phoneKeys' \in [Phones -> Customers \cup {Absent}]
      /\ Agree(phoneKeys', [d \in Customers |-> theirs[d].phone], Customers)
  BY <1>1, <1>2, RegistrationKeeps
<1>4. \A d \in Customers : customers[d].exists => theirs[d] = customers[d]
  BY <1>2, <1>3 DEF MayRegister
<1>5. \A d \in Customers : theirs[d].vehicleCount = Cardinality(VehiclesOf(d))
  BY <1>3, FS_EmptySet DEF RegistryInOrder, CustomersFollowed
<1> QED
  BY <1>2, <1>3, <1>4, <1>5, VehicleStepKeeps

-----------------------------------------------------------------------------
(* The catalogue, and the theorem *)

LEMMA SaveServiceKeeps ==
    ASSUME RegistryInOrder, NEW s \in Services, NEW name \in ServiceNames, NEW active \in BOOLEAN,
           SaveService(s, name, active)
    PROVE  RegistryInOrder'
<1> DEFINE before == KeyOfName(catalogue[s].name)
           saved == [exists |-> TRUE, name |-> name, active |-> active]
<1>1. /\ customers' = customers /\ vehicles' = vehicles
      /\ phoneKeys' = phoneKeys /\ plateKeys' = plateKeys /\ outgrown' = outgrown
      /\ catalogue' = [catalogue EXCEPT ![s] = saved]
  BY DEF SaveService
<1>2. saved \in Service /\ saved.exists /\ saved.name = name
  BY DEF Service
<1> HIDE DEF saved
<1>3. /\ catalogue' \in [Services -> Service]
      /\ catalogue'[s] = saved /\ \A t \in Services \ {s} : catalogue'[t] = catalogue[t]
      /\ nameKeys \in [NameKeys -> Services \cup {Absent}]
  BY <1>1, <1>2 DEF RegistryInOrder, RegistryTypeOK
<1>4. /\ NamesHeld \in [Services -> NameKeys \cup {Absent}]
      /\ NamesHeld' \in [Services -> NameKeys \cup {Absent}]
      /\ NamesHeld[s] = before /\ NamesHeld'[s] = KeyOfName(name)
      /\ \A t \in Services \ {s} : NamesHeld'[t] = NamesHeld[t]
      /\ KeyOfName(name) \in NameKeys /\ Absent \notin NameKeys /\ Absent \notin Services
  <2>1. \A t \in Services : catalogue'[t].name \in ServiceNames \cup {Absent}
    BY <1>3 DEF Service
  <2>2. /\ NamesHeld \in [Services -> NameKeys \cup {Absent}]
        /\ \A n \in ServiceNames \cup {Absent} : KeyOfName(n) \in NameKeys \cup {Absent}
        /\ KeyOfName(name) \in NameKeys /\ Absent \notin NameKeys /\ Absent \notin Services
    BY RegistryAssumption, KeysOfRecords DEF RegistryInOrder
  <2> QED
    BY <1>2, <1>3, <2>1, <2>2 DEF NamesHeld
<1>5. nameKeys' \in [NameKeys -> Services \cup {Absent}] /\ Agree(nameKeys', NamesHeld', Services)
  <2>1. Agree(nameKeys, NamesHeld, Services)
    BY KeysHoldByKind DEF RegistryInOrder
  <2>2. CASE KeyOfName(name) = before
    <3>1. nameKeys' = nameKeys /\ \A t \in Services : NamesHeld'[t] = NamesHeld[t]
      BY <1>4, <2>2 DEF SaveService
    <3> QED
      BY <1>3, <2>1, <3>1 DEF Agree
  <2>3. CASE KeyOfName(name) # before
    <3>1. nameKeys' = Reserved(nameKeys, NamesHeld[s], KeyOfName(name), s)
      BY <1>4, <2>3 DEF SaveService
    <3>2. nameKeys[KeyOfName(name)] = Absent
      BY <2>3 DEF SaveService, Free
    <3> QED
      BY <1>3, <1>4, <2>1, <3>1, <3>2, KeyMoves
  <2> QED
    BY <2>2, <2>3
<1>6. RegistryTypeOK'
  <2>1. \A t \in Services : catalogue'[t].exists <=> catalogue'[t].name # Absent
    BY <1>2, <1>3, RegistryAssumption DEF RegistryInOrder, RegistryTypeOK
  <2> QED
    BY <1>1, <1>3, <1>5, <2>1 DEF RegistryInOrder, RegistryTypeOK
<1>7. KeysHold'
  <2>1. Agree(phoneKeys, PhonesHeld, Customers) /\ Agree(plateKeys, PlatesHeld, Cars)
    BY KeysHoldByKind DEF RegistryInOrder
  <2>2. Agree(phoneKeys', PhonesHeld', Customers) /\ Agree(plateKeys', PlatesHeld', Cars)
    BY <1>1, <2>1 DEF PhonesHeld, PlatesHeld
  <2>3. KeysHold' <=> (/\ Agree(phoneKeys, PhonesHeld, Customers)
                       /\ Agree(plateKeys, PlatesHeld, Cars)
                       /\ Agree(nameKeys, NamesHeld, Services))'
    BY <1>6, KeysHoldByKind, PTL
  <2> QED
    BY <1>5, <2>2, <2>3
<1>8. CustomersFollowed'
  BY <1>1 DEF RegistryInOrder, CustomersFollowed, VehiclesOf
<1> QED
  BY <1>6, <1>7, <1>8 DEF RegistryInOrder

LEMMA RegistryInitKeeps == RegistryInit => RegistryInOrder
<1> SUFFICES ASSUME RegistryInit PROVE RegistryInOrder
  OBVIOUS
<1> USE RegistryAssumption
<1>1. \A c \in Customers : VehiclesOf(c) = {}
  BY DEF RegistryInit, VehiclesOf, NoVehicle
<1>2. RegistryTypeOK
  BY DEF RegistryInit, RegistryTypeOK, NoCustomer, NoVehicle, NoService, Customer, Vehicle, Service
<1>3. KeysHold
  BY DEF RegistryInit, KeysHold, NoCustomer, NoVehicle, NoService, KeyOfPlate, KeyOfName
<1>4. CustomersFollowed
  <2>1. \A c \in Customers : customers[c].vehicleCount = Cardinality(VehiclesOf(c))
    BY <1>1, FS_EmptySet DEF RegistryInit, NoCustomer
  <2> QED
    BY <2>1 DEF RegistryInit, CustomersFollowed, NoVehicle
<1> QED
  BY <1>2, <1>3, <1>4 DEF RegistryInOrder

LEMMA RegistryStepKeeps == RegistryInOrder /\ [ReceptionStep \/ CatalogueStep]_registryVars
                               => RegistryInOrder'
<1> SUFFICES ASSUME RegistryInOrder, [ReceptionStep \/ CatalogueStep]_registryVars
             PROVE  RegistryInOrder'
  OBVIOUS
<1>1. CASE ReceptionStep
  <2>1. ASSUME NEW c \in Customers, NEW name \in CustomerNames, NEW phone \in Phones \cup {Absent},
               \/ CreateCustomer(c, name, phone)
               \/ \E active \in BOOLEAN : UpdateCustomer(c, name, phone, active)
               \/ \E v \in Cars, plate \in Plates, active \in BOOLEAN :
                      SaveVehicleForNew(v, plate, active, c, name, phone)
        PROVE  RegistryInOrder'
    BY <2>1, CreateCustomerKeeps, UpdateCustomerKeeps, SaveVehicleForNewKeeps
  <2>2. ASSUME NEW v \in Cars, NEW plate \in Plates, NEW owner \in Customers \cup {Absent},
               \/ CreateVehicle(v, plate, owner)
               \/ \E active \in BOOLEAN : UpdateVehicle(v, plate, active, owner)
        PROVE  RegistryInOrder'
    BY <2>2, OwnVehicleKeeps DEF CreateVehicle, UpdateVehicle
  <2> QED
    BY <1>1, <2>1, <2>2 DEF ReceptionStep
<1>2. CASE CatalogueStep
  BY <1>2, SaveServiceKeeps DEF CatalogueStep, CreateService, UpdateService
<1>3. CASE UNCHANGED registryVars
  BY <1>3 DEF registryVars, RegistryInOrder, RegistryTypeOK, KeysHold, CustomersFollowed, VehiclesOf
<1> QED
  BY <1>1, <1>2, <1>3

\* For any customers and services, and any finite set of vehicles, however many one customer
\* has: plates, phone numbers and names are unique and reserved exactly while used, counts
\* follow every call, and so do the copies of all names that could reach their vehicles.
THEOREM RegistryCorrect == RegistrySpec => []RegistryInOrder
BY RegistryInitKeeps, RegistryStepKeeps, PTL DEF RegistrySpec
=============================================================================
