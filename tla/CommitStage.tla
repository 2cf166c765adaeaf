---------------------------- MODULE CommitStage -----------------------------
(***************************************************************************)
(* The commit stage (commit_stage.sv) and the pipeline controller          *)
(* (controller.sv).  Both are combinational in this build: operators from  *)
(* the two oldest scoreboard entries and the state of the units around     *)
(* them to what retires, what is raised and what is flushed in the cycle.  *)
(*                                                                         *)
(* c0, c1  scoreboard entries on the commit ports: valid, ex, instr        *)
(* in      halt            the core is halted (wfi or debug)               *)
(*         lsu_ready       the store buffer's commit queue has room        *)
(*         no_st_pending   no retired store is on its way to memory        *)
(*         amo_ack         the data cache has performed the atomic         *)
(*         csr_ex          the CSR file rejects the operation              *)
(*         single_step     dcsr.step is set                                *)
(* flush_dcache_i is never raised with the write-through cache.            *)
(***************************************************************************)
EXTENDS Isa, Naturals

\* The oldest instruction is complete, has no exception and may retire.
retirable(c0, in) == c0.valid /\ ~c0.ex /\ ~in.halt

\* Mutant: a fence does not wait for the retired stores.
drained_Always(in) == TRUE

\* Fences wait here until the retired stores have reached memory.
drained(in) == in.no_st_pending

commit_ack_0(c0, in) ==
    /\ retirable(c0, in)
    /\ CASE is_amo(c0.instr) -> in.amo_ack
         [] c0.instr.op \in {"FENCE", "FENCE_I", "SFENCE_VMA"} -> drained(in)
         [] c0.instr.op \in {"CSRRW", "XRET"} -> ~in.csr_ex
         [] c0.instr.op = "SD" -> in.lsu_ready
         [] OTHER -> TRUE

\* The retiring store moves to the store buffer's commit queue.
commit_lsu_o(c0, in) == retirable(c0, in) /\ c0.instr.op = "SD" /\ in.lsu_ready

commit_csr_o(c0, in) == retirable(c0, in) /\ fu(c0.instr) = "CSR" /\ ~in.csr_ex

amo_valid_commit_o(c0, in) == retirable(c0, in) /\ is_amo(c0.instr)

flush_commit_o(c0, in) == amo_valid_commit_o(c0, in) /\ in.amo_ack

fence_o(c0, in) == retirable(c0, in) /\ c0.instr.op = "FENCE" /\ drained(in)

fence_i_o(c0, in) == retirable(c0, in) /\ c0.instr.op = "FENCE_I" /\ drained(in)

sfence_vma_o(c0, in) == retirable(c0, in) /\ c0.instr.op = "SFENCE_VMA" /\ drained(in)

\* exception_handling: the exception of the oldest instruction is taken.
exception_o(c0, in) ==
    /\ c0.valid
    /\ (in.csr_ex /\ fu(c0.instr) = "CSR") \/ c0.ex
    /\ ~in.halt

\* Write enable of the register file on port 0.
we_gpr_0(c0, in) ==
    /\ retirable(c0, in)
    /\ fu(c0.instr) = "CSR" => ~in.csr_ex
    /\ is_amo(c0.instr) => in.amo_ack

\* The second port retires simple instructions behind simple ones.
commit_ack_1(c0, c1, in) ==
    /\ commit_ack_0(c0, in)
    /\ c1.valid
    /\ fu(c0.instr) # "CSR"
    /\ ~is_amo(c0.instr)
    /\ ~in.single_step
    /\ ~exception_o(c0, in)
    /\ ~c1.ex
    /\ fu(c1.instr) \in {"ALU", "LOAD", "CTRL_FLOW", "MULT"}

num_commit(c0, c1, in) ==
    IF commit_ack_1(c0, c1, in) THEN 2 ELSE IF commit_ack_0(c0, in) THEN 1 ELSE 0

-----------------------------------------------------------------------------
(* The controller.  `rq' are its requests:                                 *)
(*   mispredict  the branch unit has resolved a mispredicted branch        *)
(*   flush_csr   a CSR write with side effects on the instructions behind  *)
(*   eret        return from a trap                                        *)
(*   debug       set_debug_pc_o: entry into debug mode, which with         *)
(*               dcsr.step happens when an instruction retires             *)

flush_ex_o(c0, in, rq) ==
    \/ fence_o(c0, in) \/ fence_i_o(c0, in) \/ sfence_vma_o(c0, in)
    \/ rq.flush_csr \/ flush_commit_o(c0, in)
    \/ exception_o(c0, in) \/ rq.eret \/ rq.debug

\* Mutant: a mispredicted branch does not hold back the instruction behind it.
flush_unissued_instr_o_NoMispredict(c0, in, rq) == flush_ex_o(c0, in, rq)

flush_unissued_instr_o(c0, in, rq) == rq.mispredict \/ flush_ex_o(c0, in, rq)

\* dcsr.step: debug mode is entered behind the next retired instruction.
set_debug_pc_step(c0, in) == in.single_step /\ commit_ack_0(c0, in)
=============================================================================
