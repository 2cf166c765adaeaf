-------------------------- MODULE MCLoadStoreUnit ---------------------------
(* Instances of the load/store unit for model checking.                    *)
EXTENDS LoadStoreUnit

instr(op, dword, fault, ni) ==
    [op |-> op, ex |-> FALSE, dword |-> dword, fault |-> fault, ni |-> ni]

\* Stores to one double word, loads from it and from another one, and a store
\* whose fault is known without translation (misaligned or protected).
Ordinary == {instr("LD", 0, "no", FALSE), instr("LD", 1, "no", FALSE),
             instr("SD", 0, "no", FALSE), instr("SD", 0, "align", FALSE)}

\* Loads and stores to one double word, which may trap.
Trapping == {instr(op, 0, f, FALSE) : op \in {"LD", "SD"}, f \in {"no", "page"}}

\* Atomics and fences between stores, and non-idempotent loads.
Ordered == {instr(op, 0, "no", FALSE) : op \in {"SD", "AMO", "FENCE"}}
           \union {instr("LD", 0, "no", TRUE)}

\* Programs on physical addresses, and one that goes through the TLB.
Physical == {[instrs |-> is, translation |-> FALSE] : is \in {Ordinary, Ordered}}
Virtual  == {[instrs |-> Trapping, translation |-> TRUE]}

Programs == Physical \union Virtual
SteppedPrograms == {[instrs |-> Ordinary, translation |-> FALSE]}

\* Loads only, some of them misaligned.
LoadPrograms ==
    {[instrs |-> {instr("LD", 0, "no", FALSE), instr("LD", 1, "align", FALSE)}, translation |-> FALSE]}

\* A load on the path that is not complete is somewhere in the unit: in the
\* bypass queue, about to enter it, or on its way through cache and result
\* register.  LsuLost.cfg shows one that is not.
LoadsKept ==
    \A t \in TransId : OnPath(t) /\ ~sb.mem[t].valid /\ isLoad(sb.mem[t].instr) =>
        \/ \E k \in {0, 1} : bypass.mem[k].valid /\ bypass.mem[k].tid = t
        \/ req.valid /\ req.tid = t
        \/ ldd.live /\ ldd.tid = t
        \/ ldpipe.live /\ ldpipe.tid = t

-----------------------------------------------------------------------------
(* States that differ only in what free places of the rings and of the     *)
(* scoreboard last held are explored once: no signal depends on it.        *)

liveRing(r) == [r EXCEPT !.queue = [i \in DOMAIN @ |-> IF @[i].valid THEN @[i].st ELSE 0]]

liveEntries == [t \in TransId |-> IF sb.mem[t].issued THEN sb.mem[t] ELSE 0]

View == <<prog, [sb EXCEPT !.mem = liveEntries], req, bypass, ld, ldd, ldpipe, dc, su, sur, amo,
          liveRing(spec), liveRing(comm), mmu, dbg>>
=============================================================================
