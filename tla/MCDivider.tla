----------------------------- MODULE MCDivider ------------------------------
(* A divider of a few bits.                                                *)
EXTENDS Divider

\* What an idle divider holds is dead: it is overwritten by the next division.
View == IF st = "IDLE" THEN <<st>> ELSE <<st, r, word, op>>
=============================================================================
