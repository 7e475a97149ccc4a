--------------------------- MODULE MCFinanceReceipts ---------------------------
(* FinanceReceipts on small instances. *)
EXTENDS FinanceReceipts

CONSTANTS w1, w2, p1, p2

=============================================================================
