--------------------------- MODULE MCVerticalFabric ---------------------------
(* VerticalFabric on small instances. *)
EXTENDS VerticalFabric, TLC

CONSTANTS c1, c2, s1, k1, k2

\* A vertical whose effects a human binds, and a read-only one.
TwoKinds ==
  "a11oy" :> [mode |-> "HUMAN_BOUND", bind |-> TRUE, closed |-> FALSE]
  @@ "szl-atlas" :> [mode |-> "READ_ONLY", bind |-> FALSE, closed |-> FALSE]

\* An effect a human allowed, for a model to propose; on the read-only vertical,
\* an export with a proposal of its own.
FewRequests ==
  {r \in Request :
     /\ r.bounded /\ r.effect = "export" /\ r.bind = "allow"
     /\ \/ r.vertical = "a11oy" /\ r.proposal = "absent"
        \/ r.vertical = "szl-atlas" /\ r.proposal = "advisory"}

Interchangeable == Permutations(Callers) \cup Permutations(Kernels)

=============================================================================
