------------------------------- MODULE Loyalty -------------------------------
(***************************************************************************)
(* The loyalty rules of functions/src/loyalty.js as pure operators: a      *)
(* vehicle's points, its ledger of points, and the reward that is unlocked *)
(* and revoked as the points cross a threshold.  The state the operators   *)
(* take and return is the one readLoyaltyState reads: a record of          *)
(*   points   loyalty_accounts, by vehicle                                 *)
(*   log      loyalty_transactions, in the order they were written         *)
(*   rewards  loyalty_rewards, in the order they were unlocked             *)
(*   undone   unique_keys/loyalty_reversal_*: numbers of log entries whose *)
(*            reversal has been claimed                                    *)
(* The settings are constants: the code reads them anew in every           *)
(* transaction, and a reward keeps the cost it was unlocked with.          *)
(***************************************************************************)
EXTENDS Integers, Sequences

CONSTANTS
    Vehicles,
    PointsPerService,  \* settings/loyalty: pointsPerQualifyingService
    RewardThreshold,   \* rewardThreshold
    RewardPercent,     \* rewardDiscountPercent
    RewardCost         \* pointsConsumedOnRedemption

\* readLoyaltyConfig takes each setting by itself: any positive whole number,
\* and the percentage is capped at 100.
ASSUME LoyaltyConfig ==
    /\ {PointsPerService, RewardThreshold, RewardCost} \subseteq Nat \ {0}
    /\ RewardPercent \in 1..100

LoyaltyEntry == [vehicle: Vehicles, type: {"earned", "redeemed", "adjustment", "reversal"},
                 points: Int \ {0}, of: Nat]   \* of: the entry a reversal undoes
Reward == [vehicle: Vehicles, cost: Nat, invoice: Nat,
           status: {"available", "redeemed", "reversed", "revoked"}]
LoyaltyState == [points: [Vehicles -> Nat], log: Seq(LoyaltyEntry),
                 rewards: Seq(Reward), undone: SUBSET Nat]

EmptyLoyalty == [points |-> [v \in Vehicles |-> 0], log |-> << >>,
                 rewards |-> << >>, undone |-> {}]

NewReward(v) == [vehicle |-> v, cost |-> RewardCost, invoice |-> 0, status |-> "available"]

Available(rewards, v) ==
    {w \in DOMAIN rewards : rewards[w].vehicle = v /\ rewards[w].status = "available"}

\* Mutant: a reward the balance no longer covers is not revoked.
RewardsKept(rewards, v, balance) ==
    IF Available(rewards, v) = {} /\ balance >= RewardThreshold
    THEN Append(rewards, NewReward(v))
    ELSE rewards

\* Rewards after the balance of v becomes balance: the first one at the
\* threshold is unlocked, an available one the balance no longer covers revoked.
RewardsAt(rewards, v, balance) ==
    LET open == Available(rewards, v)
    IN  IF open = {} /\ balance >= RewardThreshold
        THEN Append(rewards, NewReward(v))
        ELSE [w \in DOMAIN rewards |->
                IF w \in open /\ balance < rewards[w].cost
                THEN [rewards[w] EXCEPT !.status = "revoked"]
                ELSE rewards[w]]

\* Mutant: the insufficient_points check is missing.
CanApplyUnchecked(l, v, points) == points # 0

\* apply refuses to take points the vehicle does not have.
CanApply(l, v, points) == points # 0 /\ l.points[v] + points >= 0

\* One entry in the log, the balance it leaves, and the rewards that follow.
Applied(l, v, type, points, of) ==
    LET balance == l.points[v] + points
    IN  [l EXCEPT
            !.points[v] = balance,
            !.log = Append(@, [vehicle |-> v, type |-> type, points |-> points, of |-> of]),
            !.rewards = RewardsAt(@, v, balance)]

\* Reward w pays for invoice i.  Its points go, and that may unlock the next one.
Redeemed(l, w, i) ==
    LET v == l.rewards[w].vehicle
        spent == [l EXCEPT !.rewards[w].status = "redeemed", !.rewards[w].invoice = i]
    IN  Applied(spent, v, "redeemed", -l.rewards[w].cost, 0)

\* Entry e is undone, once.
Undone(l, e) ==
    LET entry == l.log[e]
    IN  [Applied(l, entry.vehicle, "reversal", -entry.points, e) EXCEPT !.undone = @ \cup {e}]

\* Mutant: whether somebody reversed the entry by hand is not looked up.
TakenBackAgain(l, e) ==
    LET entry == l.log[e]
        points == IF l.points[entry.vehicle] < entry.points
                  THEN l.points[entry.vehicle] ELSE entry.points
    IN  IF points = 0 THEN [l EXCEPT !.undone = @ \cup {e}]
        ELSE [Applied(l, entry.vehicle, "reversal", -points, e) EXCEPT !.undone = @ \cup {e}]

\* Earned entry e is taken back as far as the points are still there, unless it
\* was reversed by hand before; a shortfall is recorded and forgiven.
TakenBack(l, e) ==
    LET entry == l.log[e]
        points == IF l.points[entry.vehicle] < entry.points
                  THEN l.points[entry.vehicle] ELSE entry.points
    IN  IF e \in l.undone THEN l
        ELSE IF points = 0 THEN [l EXCEPT !.undone = @ \cup {e}]
        ELSE [Applied(l, entry.vehicle, "reversal", -points, e) EXCEPT !.undone = @ \cup {e}]

\* Redemption e goes back to the vehicle, and reward w with it.
Restored(l, w, e) ==
    IF e \in l.undone THEN l ELSE [Undone(l, e) EXCEPT !.rewards[w].status = "reversed"]
=============================================================================
