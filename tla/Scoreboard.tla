----------------------------- MODULE Scoreboard -----------------------------
(***************************************************************************)
(* The scoreboard of the issue stage (scoreboard.sv): a ring of            *)
(* NR_ENTRIES issued instructions.  The issue stage fills it at the issue  *)
(* pointer, functional units write back by transaction id, which is the    *)
(* index of the entry, and two commit ports retire from the commit         *)
(* pointers.  One step is one clock cycle; sb_next is the processes        *)
(* issue_fifo and regs and the pointer assignments between them.           *)
(*                                                                         *)
(* An instruction is a record with at least                                *)
(*   op  what it does (FuOf says on which functional unit),                *)
(*   rd, rs1, rs2  its registers,                                          *)
(*   ex  an exception or interrupt the decoder has attached to it.         *)
(* Results are not represented: an operand is where it is taken from.      *)
(***************************************************************************)
EXTENDS Isa, Integers, Sequences, FiniteSets

CONSTANTS
    NR_ENTRIES,   \* a power of two in the code, but only wrapping matters
    PORTS,        \* write-backs per cycle (NR_WB_PORTS)
    Instr         \* decoded instructions

ASSUME EntriesAssumption == NR_ENTRIES \in Nat /\ NR_ENTRIES > 1

ASSUME InstrAssumption == Instr # {} /\ \A i \in Instr : i.ex \in BOOLEAN

TransId == 0 .. NR_ENTRIES - 1

Entry == [issued : BOOLEAN, valid : BOOLEAN, ex : BOOLEAN, instr : Instr]

NullEntry ==
    [issued |-> FALSE, valid |-> FALSE, ex |-> FALSE, instr |-> CHOOSE i \in Instr : TRUE]

SB == [mem : [TransId -> Entry], cnt : TransId, ip : TransId, cp0 : TransId, cp1 : TransId]

-----------------------------------------------------------------------------
(* Pointer arithmetic, modulo NR_ENTRIES.                                  *)

\* Mutant: the pointers are one bit too wide.
Plus_NoWrap(p, k) == p + k

Plus(p, k) == IF p + k < NR_ENTRIES THEN p + k ELSE p + k - NR_ENTRIES

Minus(c, k) == IF c - k >= 0 THEN c - k ELSE c - k + NR_ENTRIES

\* One entry always stays free: the counter has no room for a full ring.
issue_full(s) == s.cnt = NR_ENTRIES - 1

commit_instr_o(s, port) == s.mem[IF port = 0 THEN s.cp0 ELSE s.cp1]

(* The inputs of a cycle.  issue: the set with the instruction that the    *)
(* issue stage acknowledges, if any; wb: the write-backs; ack: how many    *)
(* commit ports acknowledge; flush and flush_unissued: from the controller.*)

WriteBack == [tid : TransId, ex : BOOLEAN]

issue_en(s, in) == in.issue # {} /\ ~issue_full(s) /\ ~in.flush_unissued

\* Mutant: a write-back is taken even if the entry is not issued.
accepted_Always(e) == TRUE

\* A write-back may be late: after a flush there can still be something in
\* the pipeline, so it only counts if the entry is issued.
accepted(e) == e.issued

Flushed(e) == [e EXCEPT !.issued = FALSE, !.valid = FALSE, !.ex = FALSE]

\* Mutant: a write-back overwrites the exception from the decoder.
exAfter_Overwritten(e, ports) == \E w \in ports : w.ex

\* A write-back adds its exception, if it has one.
exAfter(e, ports) == e.ex \/ \E w \in ports : w.ex

\* Entry t in the next cycle.  The order matters: issue, instructions that
\* need no functional unit, write-back, commit, flush.
NextEntry(s, in, t) ==
    LET e0 == s.mem[t]
        issued == IF issue_en(s, in) /\ t = s.ip
                  THEN LET i == CHOOSE i \in in.issue : TRUE
                       IN  [issued |-> TRUE, valid |-> i.ex, ex |-> i.ex, instr |-> i]
                  ELSE e0
        none   == IF e0.issued /\ fu(e0.instr) = "NONE"
                  THEN [issued EXCEPT !.valid = TRUE] ELSE issued
        ports  == {w \in in.wb : w.tid = t}
        wrote  == IF ports # {} /\ accepted(e0)
                  THEN [none EXCEPT !.valid = TRUE, !.ex = exAfter(none, ports)]
                  ELSE none
        popped == IF (in.ack > 0 /\ t = s.cp0) \/ (in.ack > 1 /\ t = s.cp1)
                  THEN [wrote EXCEPT !.issued = FALSE, !.valid = FALSE] ELSE wrote
    IN  IF in.flush THEN Flushed(popped) ELSE popped

\* Mutant: the second pointer follows the old value of the first.
commit_pointer_1_Stale(s, cp0) == Plus(s.cp0, 1)

\* The second commit pointer is derived from the new value of the first.
commit_pointer_1(s, cp0) == Plus(cp0, 1)

sb_next(s, in) ==
    LET en  == IF issue_en(s, in) THEN 1 ELSE 0
        cp0 == IF in.flush THEN 0 ELSE Plus(s.cp0, in.ack)
    IN  [mem |-> [t \in TransId |-> NextEntry(s, in, t)],
         cnt |-> IF in.flush THEN 0 ELSE Minus(Plus(s.cnt, en), in.ack),
         ip  |-> IF in.flush THEN 0 ELSE Plus(s.ip, en),
         cp0 |-> cp0,
         cp1 |-> IF in.flush THEN 0 ELSE commit_pointer_1(s, cp0)]

sb_reset ==
    [mem |-> [t \in TransId |-> NullEntry], cnt |-> 0, ip |-> 0, cp0 |-> 0, cp1 |-> 0]

-----------------------------------------------------------------------------
(* The scoreboard on its own.                                              *)

VARIABLE sb

Init == sb = sb_reset

Input ==
    [issue : {{}} \union {{i} : i \in Instr}, wb : SUBSET WriteBack, ack : 0 .. 2,
     flush : BOOLEAN, flush_unissued : BOOLEAN]

\* What the assertions at the end of scoreboard.sv ask of the commit stage,
\* and that the controller never flushes the scoreboard without the
\* instruction that is about to be issued.
InputContract(in) ==
    /\ in.ack > 0 => commit_instr_o(sb, 0).valid
    /\ in.ack > 1 => commit_instr_o(sb, 1).valid
    /\ in.flush => in.flush_unissued

Cycle(in) ==
    /\ InputContract(in)
    /\ sb' = sb_next(sb, in)

Next == \E in \in Input : Cardinality(in.wb) <= PORTS /\ Cycle(in)

Spec == Init /\ [][Next]_sb

-----------------------------------------------------------------------------
(* The ring as a queue.                                                    *)

\* The index k places behind index p.
At(p, k) == IF p + k < NR_ENTRIES THEN p + k ELSE p + k - NR_ENTRIES

rob == [k \in 1 .. sb.cnt |->
          LET e == sb.mem[At(sb.cp0, k - 1)]
          IN  [instr |-> e.instr, valid |-> e.valid, ex |-> e.ex]]

Abstract == INSTANCE ReorderBuffer

(* Properties.                                                             *)

TypeOK == sb \in SB

\* The issue pointer is cnt places after the first commit pointer, exactly the
\* entries between them are issued, and only issued entries are complete: a
\* late write-back never resurrects a flushed or retired entry.
Consistent ==
    /\ sb.ip = At(sb.cp0, sb.cnt)
    /\ \A k \in TransId :
         LET e == sb.mem[At(sb.cp0, k)]
         IN  /\ e.issued <=> k < sb.cnt
             /\ e.valid => e.issued

\* Both commit pointers are zero after a flush or a reset.  Still the two
\* commit ports never offer the same completed instruction: the second
\* pointer has caught up before anything is complete.
PortsDistinct ==
    commit_instr_o(sb, 1).valid => sb.cp1 = At(sb.cp0, 1)

\* Instructions leave in the order in which they entered, each once, and only
\* when complete; a flush loses all of them and nothing else loses any.
Refinement == Abstract!Spec
=============================================================================
