---------------------------- MODULE MCScoreboard ----------------------------
(* A scoreboard of four entries, two write-backs per cycle.                *)
EXTENDS Scoreboard

\* An instruction that needs a functional unit, one with an exception from
\* the decoder that needs none.
MCInstr == {[op |-> "ADD", ex |-> FALSE], [op |-> "ECALL", ex |-> TRUE]}
=============================================================================
