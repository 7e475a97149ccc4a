-------------------------- MODULE MCConnectorFetch --------------------------
(* ConnectorFetch on a small instance. *)
EXTENDS ConnectorFetch, TLC

CONSTANTS p1, p2, c1, f1, m1, d1

\* One query, answered by the API (1) or the public page (2).
OneQuery == "workflows" :> 1
ItsPage == "workflows" :> {2}

TwoTicks == d1 :> (1 :> 2 @@ 2 :> 2)

Interchangeable == Permutations(Payloads)

=============================================================================
