------------------------------- MODULE MCEngines -------------------------------
(* Engines on small instances. *)
EXTENDS Engines

CONSTANTS
  t1, t2, \* threads
  a1, a2  \* matters, payloads or names

=============================================================================
