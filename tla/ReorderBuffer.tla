--------------------------- MODULE ReorderBuffer ----------------------------
(***************************************************************************)
(* What the scoreboard promises: instructions enter in program order, are  *)
(* completed by the functional units in any order, and leave in program    *)
(* order, at most two per cycle, only when complete.  A flush empties it.  *)
(***************************************************************************)
EXTENDS Naturals, Sequences

CONSTANT Instr

VARIABLE rob   \* instructions in flight, oldest first

Slot == [instr : Instr, valid : BOOLEAN, ex : BOOLEAN]

Init == rob = <<>>

\* Functional units may complete instructions in flight, with or without an
\* exception; nothing becomes incomplete again and no exception disappears.
Completed(old, new) ==
    /\ new.instr = old.instr
    /\ old.valid => new.valid
    /\ old.ex => new.ex
    /\ (new.ex /\ ~old.ex) => new.valid

\* n instructions retire, the others make progress, `entering' holds at most
\* one new one.
Cycle(n, entering, kept) ==
    /\ n <= Len(rob)
    /\ \A i \in 1 .. n : rob[i].valid
    /\ Len(kept) = Len(rob) - n
    /\ \A i \in 1 .. Len(kept) : Completed(rob[i + n], kept[i])
    /\ rob' = kept \o entering

Flush == rob' = <<>>

Next ==
    \/ Flush
    \/ \E n \in 0 .. 2 :
         LET m == Len(rob') - (Len(rob) - n)
         IN  /\ m \in {0, 1}
             /\ Cycle(n, SubSeq(rob', Len(rob') - m + 1, Len(rob')),
                         SubSeq(rob', 1, Len(rob') - m))

Spec == Init /\ [][Next]_rob
=============================================================================
