------------------------------- MODULE MCJobs -------------------------------
(* Jobs on a small instance. *)
EXTENDS Jobs, TLC

CONSTANTS car, wash, polish, ann, ben, none

Interchangeable == Permutations({wash, polish}) \cup Permutations({ann, ben})
=============================================================================
