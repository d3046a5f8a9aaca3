--------------------------------- MODULE Users ---------------------------------
(***************************************************************************)
(* functions/src/user_admin.js and session.js: who may use the system.     *)
(* An account lives in two stores: Firebase Authentication keeps its phone *)
(* number (unique) and password, Firestore its profile.                    *)
(*                                                                         *)
(* A call that writes both does so in steps, and other calls, a demotion   *)
(* of its caller or the loss of its instance come in between; a call that  *)
(* only writes Firestore is one transaction and one step.  Passwords are   *)
(* abstracted to right and wrong.                                          *)
(***************************************************************************)
EXTENDS Integers, Sequences, FiniteSets

CONSTANTS
    People,       \* uids
    Numbers,      \* phone numbers
    StaffIds,
    Founders,     \* the administrators the bootstrap script created
    FirstNumber,  \* [Founders -> Numbers]
    Roles, NewRoles, \* bound: the roles handed out, and the ones people start with
    Tried,        \* bound: the numbers passwords are tried on
    Clerks,       \* bound: who creates accounts and changes numbers
    Grantable,    \* bound: the windows temporary access is granted for
    Unset,
    MaxFailures, ThrottleWindow, WarnAhead,       \* MAX_FAILURES, THROTTLE_WINDOW_MS, EXPIRY_WARNING_MS
    MaxCalls, MaxCutOffs, MaxGrants, MaxClock     \* bounds

ASSUME UsersAssumption ==
    /\ Founders \subseteq People /\ Founders # {}
    /\ FirstNumber \in [Founders -> Numbers]
    /\ \A u, v \in Founders : u # v => FirstNumber[u] # FirstNumber[v]
    /\ Unset \notin People \cup Numbers \cup StaffIds
    /\ Tried \subseteq Numbers /\ Clerks \subseteq People
    /\ Grantable \subseteq [from: Nat, until: Nat]
    /\ Roles \cup NewRoles \subseteq {"admin", "manager", "worker"}
    /\ MaxFailures \in Nat \ {0}
    /\ ThrottleWindow \in Nat \ {0}
    /\ MaxCalls \in Nat \ {0}

VARIABLES
    logins,    \* Authentication: each uid's number, Unset without an account
    profiles,    \* users/{uid}
    staffUser,   \* staff/{staffId}.linkedUid
    inFlight,    \* the calls between two of their steps
    cutOffs,     \* how many calls died between two of their steps
    crossed,     \* history: people whose calls met another or were cut off
    throttle,    \* login_throttle, by number
    guesses,     \* history: wrong passwords tried on a number
    clock,
    tempGrants,  \* users/{uid}/temporary_grants
    sweep        \* what sweepTemporaryGrants has read and not dealt with

identityVars == <<logins, inFlight, cutOffs, crossed>>
throttleVars == <<throttle, guesses>>
grantVars == <<tempGrants, sweep>>
userVars == <<profiles, staffUser, identityVars, throttleVars, clock, grantVars>>

-----------------------------------------------------------------------------
(* Profiles and who may change them *)

\* standing: a permission only administrators hold by role, granted or denied.
Profile == [exists: BOOLEAN, phone: Numbers \cup {Unset}, role: {"admin", "manager", "worker"},
            active: BOOLEAN, mustChange: BOOLEAN, staffId: StaffIds \cup {Unset},
            standing: {"default", "granted", "denied"}, temporary: Nat]

NewProfile(number, role, staffId) ==
    [exists |-> TRUE, phone |-> number, role |-> role, active |-> TRUE, mustChange |-> TRUE,
     staffId |-> staffId, standing |-> "default", temporary |-> 0]

NoProfile == [NewProfile(Unset, "worker", Unset) EXCEPT !.exists = FALSE, !.active = FALSE]

Founder(u) == [NewProfile(FirstNumber[u], "admin", Unset) EXCEPT !.mustChange = FALSE]

\* isAccountEnabled, isAccountLive; a profile that ends on a date is left out.
AccountEnabled(u) == profiles[u].exists /\ profiles[u].active
AccountLive(u) == AccountEnabled(u) /\ ~profiles[u].mustChange

RoleRank == [admin |-> 100, manager |-> 50, worker |-> 10]

CanAdminister(u, v) ==
    \/ profiles[u].role = "admin"
    \/ /\ profiles[v].role # "admin"
       /\ RoleRank[profiles[v].role] < RoleRank[profiles[u].role]

\* An account in use, another's, that the caller may administer (withTarget).
MayTarget(caller, u) ==
    /\ AccountLive(caller) /\ profiles[u].exists
    /\ caller # u /\ CanAdminister(caller, u)

AnotherActiveAdmin(u) ==
    \E v \in People \ {u} : AccountLive(v) /\ profiles[v].role = "admin"

SetUserRole(caller, u, role) ==
    /\ MayTarget(caller, u) /\ profiles[caller].role = "admin"
    /\ profiles[u].role # role
    /\ profiles[u].role = "admin" /\ profiles[u].active => AnotherActiveAdmin(u)
    /\ profiles' = [profiles EXCEPT ![u].role = role]
    /\ UNCHANGED <<staffUser, identityVars, throttleVars, clock, grantVars>>

SetUserActive(caller, u, active) ==
    /\ MayTarget(caller, u) /\ profiles[caller].role = "admin"
    /\ profiles[u].active # active
    /\ ~active /\ profiles[u].role = "admin" => AnotherActiveAdmin(u)
    /\ profiles' = [profiles EXCEPT ![u].active = active]
    /\ UNCHANGED <<staffUser, identityVars, throttleVars, clock, grantVars>>

\* A manager resets workers' passwords.
ResetUserPassword(caller, u) ==
    /\ MayTarget(caller, u)
    /\ \/ profiles[caller].role = "admin"
       \/ profiles[caller].role = "manager" /\ profiles[u].role = "worker"
    /\ logins[u] # Unset
    /\ profiles' = [profiles EXCEPT ![u].mustChange = TRUE]
    /\ UNCHANGED <<staffUser, identityVars, throttleVars, clock, grantVars>>

\* An administrator may link their own account too; Unset unlinks.
LinkStaff(caller, u, id) ==
    /\ AccountLive(caller) /\ profiles[caller].role = "admin"
    /\ profiles[u].exists /\ profiles[u].staffId # id
    /\ id # Unset => staffUser[id] \in {Unset, u}
    /\ staffUser' = [s \in StaffIds |->
           IF s = id THEN u
           ELSE IF s = profiles[u].staffId /\ staffUser[s] = u THEN Unset
           ELSE staffUser[s]]
    /\ profiles' = [profiles EXCEPT ![u].staffId = id]
    /\ UNCHANGED <<identityVars, throttleVars, clock, grantVars>>

-----------------------------------------------------------------------------
(* Calls in steps *)

Lanes == 1..MaxCalls
Idle == [kind |-> "none", step |-> "idle"]
Ended(c) == [inFlight EXCEPT ![c] = Idle]
At(c, kind, step) == inFlight[c].kind = kind /\ inFlight[c].step = step

\* The lane the next call takes.
NextLane(c) == inFlight[c] = Idle /\ \A d \in 1..(c - 1) : inFlight[d] # Idle

ChangesIdentity(call) == call.kind \in {"phone", "create"}
NumbersOf(call) == {call.number} \cup (IF call.kind = "phone" THEN {call.old} ELSE {})

\* The calls a new one meets: about the same person, or with a number in common.
Meets(call) ==
    {d \in Lanes : /\ ChangesIdentity(inFlight[d])
                   /\ \/ inFlight[d].uid = call.uid
                      \/ NumbersOf(inFlight[d]) \cap NumbersOf(call) # {}}

Begin(c, call) ==
    /\ NextLane(c)
    /\ inFlight' = [inFlight EXCEPT ![c] = call]
    /\ crossed' = IF Meets(call) = {} THEN crossed
                  ELSE crossed \cup {call.uid} \cup {inFlight[d].uid : d \in Meets(call)}

\* The instance dies, or the caller of Authentication gives up: no later step runs.
CutOff(c) ==
    /\ inFlight[c] # Idle /\ cutOffs < MaxCutOffs
    /\ cutOffs' = cutOffs + 1
    /\ crossed' = IF ChangesIdentity(inFlight[c]) THEN crossed \cup {inFlight[c].uid} ELSE crossed
    /\ inFlight' = Ended(c)
    /\ UNCHANGED <<logins, profiles, staffUser, throttleVars, clock, grantVars>>

\* Authentication refuses a number another account has.
FreeFor(u, number) == \A v \in People \ {u} : logins[v] # number

-----------------------------------------------------------------------------
(* changeUserPhone *)

AskForNumber(c, caller, u, number) ==
    /\ MayTarget(caller, u) /\ profiles[caller].role = "admin"
    /\ number # profiles[u].phone
    /\ FreeFor(u, number)
    /\ Begin(c, [kind |-> "phone", step |-> "asked", caller |-> caller, uid |-> u,
                 number |-> number, old |-> profiles[u].phone])
    /\ UNCHANGED <<logins, profiles, staffUser, cutOffs, throttleVars, clock, grantVars>>

MoveNumber(c) ==
    /\ At(c, "phone", "asked")
    /\ LET call == inFlight[c]
           moved == FreeFor(call.uid, call.number) /\ logins[call.uid] # Unset
       IN  /\ logins' = IF moved THEN [logins EXCEPT ![call.uid] = call.number] ELSE logins
           /\ inFlight' = [inFlight EXCEPT ![c] =
                              IF moved THEN [call EXCEPT !.step = "moved"] ELSE Idle]
    /\ UNCHANGED <<profiles, staffUser, cutOffs, crossed, throttleVars, clock, grantVars>>

\* Mutant: a refused change leaves the new number where it is.
RefusedOutright(call) == Idle

\* A change the transaction refuses is taken back from Authentication.
Refused(call) == [call EXCEPT !.step = "refused"]

RecordNumber(c) ==
    /\ At(c, "phone", "moved")
    /\ LET call == inFlight[c]
           allowed == AccountLive(call.caller) /\ CanAdminister(call.caller, call.uid)
       IN  /\ profiles' = IF allowed THEN [profiles EXCEPT ![call.uid].phone = call.number]
                          ELSE profiles
           /\ inFlight' = [inFlight EXCEPT ![c] = IF allowed THEN Idle ELSE Refused(call)]
    /\ UNCHANGED <<logins, staffUser, cutOffs, crossed, throttleVars, clock, grantVars>>

PutNumberBack(c) ==
    /\ At(c, "phone", "refused")
    /\ LET call == inFlight[c]
       IN  logins' = IF FreeFor(call.uid, call.old) /\ logins[call.uid] # Unset
                       THEN [logins EXCEPT ![call.uid] = call.old] ELSE logins
    /\ inFlight' = Ended(c)
    /\ UNCHANGED <<profiles, staffUser, cutOffs, crossed, throttleVars, clock, grantVars>>

-----------------------------------------------------------------------------
(* createUser *)

\* An account without a profile is taken over; otherwise a new one is made.
CreateLogin(c, caller, u, number, role, id) ==
    /\ AccountLive(caller) /\ profiles[caller].role = "admin"
    /\ ~profiles[u].exists
    /\ logins[u] = number \/ (logins[u] = Unset /\ FreeFor(u, number))
    /\ Begin(c, [kind |-> "create", step |-> "made", caller |-> caller, uid |-> u,
                 number |-> number, role |-> role, staffId |-> id,
                 new |-> logins[u] = Unset])
    /\ logins' = [logins EXCEPT ![u] = number]
    /\ UNCHANGED <<profiles, staffUser, cutOffs, throttleVars, clock, grantVars>>

CreateProfile(c) ==
    /\ At(c, "create", "made")
    /\ LET call == inFlight[c]
           allowed == /\ ~profiles[call.uid].exists
                      /\ call.staffId # Unset => staffUser[call.staffId] \in {Unset, call.uid}
                      /\ AccountLive(call.caller)
       IN  \/ /\ allowed
              /\ profiles' = [profiles EXCEPT ![call.uid] =
                                 NewProfile(call.number, call.role, call.staffId)]
              /\ staffUser' = [s \in StaffIds |->
                                  IF s = call.staffId THEN call.uid ELSE staffUser[s]]
              /\ inFlight' = Ended(c)
           \/ /\ ~allowed
              /\ inFlight' = [inFlight EXCEPT ![c] =
                                 IF call.new THEN [call EXCEPT !.step = "orphan"] ELSE Idle]
              /\ UNCHANGED <<profiles, staffUser>>
    /\ UNCHANGED <<logins, cutOffs, crossed, throttleVars, clock, grantVars>>

DeleteOrphan(c) ==
    /\ At(c, "create", "orphan")
    /\ logins' = [logins EXCEPT ![inFlight[c].uid] = Unset]
    /\ inFlight' = Ended(c)
    /\ UNCHANGED <<profiles, staffUser, cutOffs, crossed, throttleVars, clock, grantVars>>

-----------------------------------------------------------------------------
(* signInWithPhonePassword, changeOwnPassword *)

NoFailures == [failures |-> 0, since |-> 0, lockedUntil |-> 0]

\* requireNotThrottled
Throttled(number) == throttle[number].lockedUntil > clock

TryPassword(c, number) ==
    /\ ~Throttled(number)
    /\ NextLane(c)
    /\ inFlight' = [inFlight EXCEPT ![c] =
                       [kind |-> "signIn", step |-> "checking", number |-> number]]
    /\ UNCHANGED <<logins, cutOffs, crossed, profiles, staffUser, throttleVars, clock, grantVars>>

TryOwnPassword(c, u) ==
    /\ AccountEnabled(u) /\ logins[u] # Unset
    /\ ~Throttled(logins[u])
    /\ NextLane(c)
    /\ inFlight' = [inFlight EXCEPT ![c] =
                       [kind |-> "own", step |-> "checking", number |-> logins[u], uid |-> u]]
    /\ UNCHANGED <<logins, cutOffs, crossed, profiles, staffUser, throttleVars, clock, grantVars>>

\* Signing in forgets the failures; what the profile then decides changes nothing.
RightPassword(c) ==
    /\ At(c, "signIn", "checking")
    /\ \E u \in People : logins[u] = inFlight[c].number
    /\ throttle' = [throttle EXCEPT ![inFlight[c].number] = NoFailures]
    /\ guesses' = [guesses EXCEPT ![inFlight[c].number] = 0]
    /\ inFlight' = Ended(c)
    /\ UNCHANGED <<logins, cutOffs, crossed, profiles, staffUser, clock, grantVars>>

RightOwnPassword(c) ==
    /\ At(c, "own", "checking")
    /\ inFlight' = [inFlight EXCEPT ![c].step = "changing"]
    /\ UNCHANGED <<logins, cutOffs, crossed, profiles, staffUser, throttleVars, clock, grantVars>>

ChangeOwnPassword(c) ==
    /\ At(c, "own", "changing")
    /\ profiles' = [profiles EXCEPT ![inFlight[c].uid].mustChange = FALSE]
    /\ inFlight' = Ended(c)
    /\ UNCHANGED <<logins, cutOffs, crossed, staffUser, throttleVars, clock, grantVars>>

WrongPassword(c) ==
    /\ At(c, "signIn", "checking") \/ At(c, "own", "checking")
    /\ inFlight' = [inFlight EXCEPT ![c].step = "failed"]
    /\ guesses' = [guesses EXCEPT ![inFlight[c].number] = @ + 1]
    /\ UNCHANGED <<logins, cutOffs, crossed, profiles, staffUser, throttle, clock, grantVars>>

\* The failure joins the window it falls in, or begins one.
Counted(old) ==
    IF old.failures = 0 \/ clock - old.since > ThrottleWindow
    THEN [failures |-> 1, since |-> clock]
    ELSE [failures |-> old.failures + 1, since |-> old.since]

\* Mutant: only the failure that reaches the limit locks the number.
FailedAtLimit(number) ==
    LET new == Counted(throttle[number])
    IN  [failures |-> new.failures, since |-> new.since,
         lockedUntil |-> IF new.failures = MaxFailures THEN clock + ThrottleWindow ELSE 0]

\* What recordFailure makes of a number's record.
Failed(number) ==
    LET new == Counted(throttle[number])
    IN  [failures |-> new.failures, since |-> new.since,
         lockedUntil |-> IF new.failures >= MaxFailures THEN clock + ThrottleWindow ELSE 0]

RecordFailure(c) ==
    /\ At(c, "signIn", "failed") \/ At(c, "own", "failed")
    /\ throttle' = [throttle EXCEPT ![inFlight[c].number] = Failed(inFlight[c].number)]
    /\ inFlight' = Ended(c)
    /\ UNCHANGED <<logins, cutOffs, crossed, profiles, staffUser, guesses, clock, grantVars>>

-----------------------------------------------------------------------------
(* Temporary permissions *)

TemporaryGrant == [uid: People, from: Nat, until: Nat, warned: BOOLEAN,
                   status: {"active", "superseded", "revoked", "expired"}]

TemporaryLive(u) ==
    LET g == profiles[u].temporary
    IN  g # 0 /\ tempGrants[g].from <= clock /\ clock < tempGrants[g].until

\* effectivePermissions
Holds(u) ==
    /\ AccountLive(u) /\ profiles[u].standing # "denied"
    /\ profiles[u].role = "admin" \/ profiles[u].standing = "granted" \/ TemporaryLive(u)

\* permanentPermissions
HoldsPermanently(u) ==
    profiles[u].standing # "denied" /\ (profiles[u].role = "admin" \/ profiles[u].standing = "granted")

\* Granting it, or lifting its denial, takes holding it.
SetUserPermissions(caller, u, standing) ==
    /\ MayTarget(caller, u) /\ profiles[caller].role = "admin"
    /\ profiles[u].standing # standing
    /\ standing = "granted" \/ profiles[u].standing = "denied" => Holds(caller)
    /\ profiles' = [profiles EXCEPT ![u].standing = standing]
    /\ UNCHANGED <<staffUser, identityVars, throttleVars, clock, grantVars>>

MayGrantTemporarily(caller, u) ==
    MayTarget(caller, u) /\ profiles[caller].role \in {"admin", "manager"}

\* A later grant supersedes the one the profile names.
GrantTemporaryPermission(caller, u, window) ==
    /\ Len(tempGrants) < MaxGrants
    /\ MayGrantTemporarily(caller, u) /\ Holds(caller) /\ AccountLive(u)
    /\ profiles[u].standing # "denied" /\ ~HoldsPermanently(u)
    /\ clock <= window.from /\ window.from < window.until
    /\ LET former == profiles[u].temporary
       IN  tempGrants' = Append(
               [g \in DOMAIN tempGrants |->
                   IF g = former /\ tempGrants[g].status = "active"
                   THEN [tempGrants[g] EXCEPT !.status = "superseded"] ELSE tempGrants[g]],
               [uid |-> u, from |-> window.from, until |-> window.until,
                warned |-> FALSE, status |-> "active"])
    /\ profiles' = [profiles EXCEPT ![u].temporary = Len(tempGrants) + 1]
    /\ UNCHANGED <<staffUser, identityVars, throttleVars, clock, sweep>>

\* The profile forgets the grant, unless it names another by now.
Forgotten(g) ==
    LET u == tempGrants[g].uid
    IN  [profiles EXCEPT ![u].temporary = IF @ = g THEN 0 ELSE @]

RevokeTemporaryPermission(caller, g) ==
    /\ MayGrantTemporarily(caller, tempGrants[g].uid)
    /\ tempGrants[g].status = "active" /\ clock < tempGrants[g].until
    /\ tempGrants' = [tempGrants EXCEPT ![g].status = "revoked"]
    /\ profiles' = Forgotten(g)
    /\ UNCHANGED <<staffUser, identityVars, throttleVars, clock, sweep>>

\* sweepTemporaryGrants reads what has ended and deals with each in a transaction
\* of its own, then reads what ends soon and marks each without one.
NotSweeping == [stage |-> "idle", at |-> 0, list |-> {}]
ActiveGrants == {g \in DOMAIN tempGrants : tempGrants[g].status = "active"}

SweepEnded ==
    /\ sweep = NotSweeping
    /\ sweep' = [stage |-> "ended", at |-> clock,
                 list |-> {g \in ActiveGrants : tempGrants[g].until <= clock}]
    /\ UNCHANGED <<profiles, staffUser, identityVars, throttleVars, clock, tempGrants>>

Expire(g) ==
    /\ sweep.stage = "ended" /\ g \in sweep.list
    /\ sweep' = [sweep EXCEPT !.list = @ \ {g}]
    /\ LET still == tempGrants[g].status = "active"
       IN  /\ tempGrants' = IF still THEN [tempGrants EXCEPT ![g].status = "expired"] ELSE tempGrants
           /\ profiles' = IF still THEN Forgotten(g) ELSE profiles
    /\ UNCHANGED <<staffUser, identityVars, throttleVars, clock>>

SweepEnding ==
    /\ sweep.stage = "ended" /\ sweep.list = {}
    /\ sweep' = [sweep EXCEPT !.stage = "ending",
                 !.list = {g \in ActiveGrants :
                              /\ sweep.at < tempGrants[g].until
                              /\ tempGrants[g].until <= sweep.at + WarnAhead
                              /\ ~tempGrants[g].warned}]
    /\ UNCHANGED <<profiles, staffUser, identityVars, throttleVars, clock, tempGrants>>

Warn(g) ==
    /\ sweep.stage = "ending" /\ g \in sweep.list
    /\ tempGrants' = [tempGrants EXCEPT ![g].warned = TRUE]
    /\ sweep' = [sweep EXCEPT !.list = @ \ {g}]
    /\ UNCHANGED <<profiles, staffUser, identityVars, throttleVars, clock>>

SweepOver ==
    /\ sweep.stage = "ending" /\ sweep.list = {}
    /\ sweep' = NotSweeping
    /\ UNCHANGED <<profiles, staffUser, identityVars, throttleVars, clock, tempGrants>>

\* A call lasts seconds and a tick is a throttle window: none spans one.
Tick ==
    /\ clock < MaxClock
    /\ \A c \in Lanes : inFlight[c] = Idle
    /\ clock' = clock + 1
    /\ guesses' = [n \in Numbers |-> 0]
    /\ UNCHANGED <<profiles, staffUser, identityVars, throttle, grantVars>>

-----------------------------------------------------------------------------
(* Steps *)

UsersInit ==
    /\ profiles = [u \in People |-> IF u \in Founders THEN Founder(u) ELSE NoProfile]
    /\ logins = [u \in People |-> IF u \in Founders THEN FirstNumber[u] ELSE Unset]
    /\ staffUser = [s \in StaffIds |-> Unset]
    /\ inFlight = [c \in Lanes |-> Idle] /\ cutOffs = 0 /\ crossed = {}
    /\ throttle = [n \in Numbers |-> NoFailures] /\ guesses = [n \in Numbers |-> 0]
    /\ clock = 0
    /\ tempGrants = << >> /\ sweep = NotSweeping

\* Accounts and their numbers
AccountStep ==
    \/ \E c \in Lanes :
          \/ NextLane(c) /\ \E caller \in Clerks, u \in People, n \in Numbers :
                \/ AskForNumber(c, caller, u, n)
                \/ \E role \in NewRoles, id \in StaffIds \cup {Unset} :
                      CreateLogin(c, caller, u, n, role, id)
          \/ MoveNumber(c) \/ RecordNumber(c) \/ PutNumberBack(c)
          \/ CreateProfile(c) \/ DeleteOrphan(c)
    \/ \E caller, u \in People, active \in BOOLEAN : SetUserActive(caller, u, active)

CrashStep == \E c \in Lanes : CutOff(c)

IdentityStep == AccountStep \/ CrashStep

AppointmentStep == \E caller, u \in People, role \in Roles : SetUserRole(caller, u, role)

AdministrationStep == \E caller, u \in People :
    \/ ResetUserPassword(caller, u)
    \/ \E id \in StaffIds \cup {Unset} : LinkStaff(caller, u, id)

PasswordStep == \E c \in Lanes :
    \/ \E n \in Tried : TryPassword(c, n)
    \/ \E u \in People : logins[u] \in Tried /\ TryOwnPassword(c, u)
    \/ RightPassword(c) \/ RightOwnPassword(c) \/ ChangeOwnPassword(c)
    \/ WrongPassword(c) \/ RecordFailure(c)

GrantStep ==
    \/ \E caller, u \in People :
          \/ \E window \in Grantable : GrantTemporaryPermission(caller, u, window)
          \/ \E standing \in {"default", "granted", "denied"} :
                SetUserPermissions(caller, u, standing)
    \/ \E caller \in People, g \in DOMAIN tempGrants : RevokeTemporaryPermission(caller, g)
    \/ SweepEnded \/ SweepEnding \/ SweepOver
    \/ \E g \in sweep.list : Expire(g) \/ Warn(g)

UsersNext == IdentityStep \/ AppointmentStep \/ AdministrationStep \/ PasswordStep \/ GrantStep \/ Tick

UsersSpec == UsersInit /\ [][UsersNext]_userVars

-----------------------------------------------------------------------------
(* Properties *)

\* Every variable holds documents of the shape the code writes.
UsersTypeOK ==
    /\ \A u \in People : profiles[u] \in Profile /\ logins[u] \in Numbers \cup {Unset}
    /\ \A u, v \in People : logins[u] = logins[v] /\ u # v => logins[u] = Unset
    /\ \A s \in StaffIds : staffUser[s] \in People \cup {Unset}
    /\ \A g \in DOMAIN tempGrants : tempGrants[g] \in TemporaryGrant
    /\ crossed \subseteq People

Quiet(u) == \A c \in Lanes : ChangesIdentity(inFlight[c]) => inFlight[c].uid # u

\* The two stores agree about a person, however the rights of those who change it
\* are changed meanwhile, unless calls about them crossed or died on the way.
StoresAgree ==
    \A u \in People \ crossed : Quiet(u) =>
        logins[u] = IF profiles[u].exists THEN profiles[u].phone ELSE Unset

\* A staff record and the account it is linked to name each other.
StaffLinksAgree ==
    \A u \in People, s \in StaffIds : staffUser[s] = u <=> profiles[u].staffId = s

\* The grant a profile names is the one active grant on record for the person.
GrantsIndexed ==
    \A u \in People :
        {g \in ActiveGrants : tempGrants[g].uid = u} =
            IF profiles[u].temporary = 0 THEN {} ELSE {profiles[u].temporary}

\* Somebody can always administer: administrators demote, deactivate and reset each
\* other in any order, but none of them the last one who can act.
AdministratorRemains == \E u \in People : AccountLive(u) /\ profiles[u].role = "admin"

\* What is kept in two places is kept the same, and somebody can change it.
AccessInOrder ==
    UsersTypeOK /\ StoresAgree /\ StaffLinksAgree /\ GrantsIndexed /\ AdministratorRemains

\* Between two right passwords, in one window, no number sees more wrong ones than
\* the limit and those the overlapping calls, or the ones cut off, had begun to check.
AttemptsBounded ==
    \A n \in Numbers : guesses[n] <= MaxFailures + (MaxCalls - 1) + cutOffs

(* What the comments say and the code does not keep; see README, Findings *)

\* With no call under way every profile has the number its account signs in with:
\* "Both change together" (user_admin.js:485), and a refused createUser deletes only
\* "an orphan Auth account we created a moment ago" (user_admin.js:404).
NumbersTogether ==
    (\A c \in Lanes : inFlight[c] = Idle) =>
        \A u \in People : profiles[u].exists => logins[u] = profiles[u].phone
=============================================================================
