-------------------------------- MODULE MCIntake --------------------------------
(* Intake on small instances. *)
EXTENDS Intake

CONSTANTS c1, c2

ResetClock == {1, -1}

\* Documents that may be of one text.
SmallTexts == {<<1>>, <<1, 2>>}
SmallQuotes == {<<1>>, <<2>>, <<1, 2>>}

=============================================================================
