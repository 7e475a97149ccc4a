----------------------------- MODULE MCPublication -----------------------------
(* Publication on a small instance. *)
EXTENDS Publication

CONSTANT v1   \* a vertical

OneVertical == <<v1>>

=============================================================================
