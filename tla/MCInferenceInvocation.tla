----------------------- MODULE MCInferenceInvocation -----------------------
(* InferenceInvocation on small instances. *)
EXTENDS InferenceInvocation, TLC

CONSTANTS p1, c1, i1, m1, m2, d1

StableFreshness == d1 :> (1 :> 1)

=============================================================================
