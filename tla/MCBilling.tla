------------------------------ MODULE MCBilling ------------------------------
(* Billing on a small instance: two jobs of one vehicle. *)
EXTENDS Billing, TLC

CONSTANTS cash, bank1, r1, p1, p2, p3, job1, job2, car, none

Nobody == {}
OneRequest == {r1}
ThreePayments == {p1, p2, p3}
BothJobs == {job1, job2}
BothTheCar == [j \in BothJobs |-> car]
Prices == [j \in BothJobs |-> 2]
QualifyingLines == [j \in BothJobs |-> IF j = job1 THEN 2 ELSE 1]
TwoUpOrOneDown == {2, -1}

RequestSymmetry == Permutations(ThreePayments)
=============================================================================
