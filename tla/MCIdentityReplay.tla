--------------------------- MODULE MCIdentityReplay ---------------------------
(* IdentityReplay on small instances. *)
EXTENDS IdentityReplay

CONSTANTS s1, s2, d1

=============================================================================
