--------------------------- MODULE MCReplayStore ---------------------------
(* ReplayStore on small instances. *)
EXTENDS ReplayStore, TLC

CONSTANTS p1, c1, c2, m1, m2, d1, d2

\* One source, which d1 admits for two ticks and d2 does not assign.
WithdrawnConnector == d1 :> (1 :> 2) @@ d2 :> (1 :> 0)

Interchangeable == Permutations(Callers) \cup Permutations(Summaries) \cup Permutations(Payloads)

=============================================================================
