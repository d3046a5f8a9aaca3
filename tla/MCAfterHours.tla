----------------------------- MODULE MCAfterHours -----------------------------
(* After-hours work on a small instance: one worker, one job of price 2. *)
EXTENDS AfterHours

CONSTANTS cash, bank1, r1, p1, p2, job1, car, worker, sweep1, sweep2, none

Nobody == {}
OneRequest == {r1}
TwoPayments == {p1, p2}
TheCar == [j \in {job1} |-> car]
Prices == [j \in {job1} |-> 2]
NoPoints == [j \in {job1} |-> 0]
OneWindow == {[from |-> 0, until |-> 1]}
BothSweeps == {sweep1, sweep2}
=============================================================================
