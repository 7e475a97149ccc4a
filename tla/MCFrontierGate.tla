---------------------------- MODULE MCFrontierGate ----------------------------
(* FrontierGate on small instances. *)
EXTENDS FrontierGate, TLC

CONSTANTS h1, h2

Interchangeable == Permutations(Handlers)

Clean == [valid |-> TRUE, items |-> 1, warned |-> FALSE, prohibited |-> FALSE,
          unread |-> FALSE, risk |-> "0.3", approved |-> TRUE]

\* A proposal that passes every gate, and one for each that it may not pass; evidence that
\* is not admitted leaves a warning.
OneDefect ==
  {Clean, [Clean EXCEPT !.valid = FALSE], [Clean EXCEPT !.items = 0, !.warned = TRUE],
   [Clean EXCEPT !.prohibited = TRUE], [Clean EXCEPT !.unread = TRUE], [Clean EXCEPT !.risk = "1"],
   [Clean EXCEPT !.approved = FALSE]}

CleanOnly == {Clean}

=============================================================================
