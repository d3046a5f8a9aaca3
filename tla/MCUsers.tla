-------------------------------- MODULE MCUsers --------------------------------
(* User administration alone: two administrators and one person more. *)
EXTENDS Users

CONSTANTS ann, ben, cy, n1, n2, n3, unset

TheirNumbers == [u \in {ann, ben} |-> IF u = ann THEN n1 ELSE n2]
=============================================================================
