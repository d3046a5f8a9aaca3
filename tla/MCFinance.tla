------------------------------ MODULE MCFinance ------------------------------
(* Finance on small instances; the values are in the .cfg files. *)
EXTENDS Finance, TLC

CONSTANTS cash, mtn, bank1, bank2, r1, r2, none

NoAccounts == {}
OneMobile == {mtn}
OneExtra == {bank2}
OneRequest == {r1}
TwoRequests == {r1, r2}

RequestSymmetry == Permutations(TwoRequests)
=============================================================================
