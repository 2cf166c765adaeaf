---------------------------- MODULE MCIssueStage ----------------------------
(* Instances of the issue stage for model checking.                        *)
EXTENDS IssueStage

instr(op, rd, rs1, rs2) == [op |-> op, rd |-> rd, rs1 |-> rs1, rs2 |-> rs2, ex |-> FALSE]

trapping(op, rd) == [op |-> op, rd |-> rd, rs1 |-> 0, rs2 |-> 0, ex |-> TRUE]

\* Every unit and two registers with dependencies between all of them: results
\* that are forwarded, results that are not known before commit, an instruction
\* that carries an exception.
Dependent == {instr("ADD", 1, 1, 2), instr("ADD", 2, 1, 0), instr("MUL", 1, 2, 1),
              instr("DIV", 2, 1, 0), instr("LD", 1, 2, 0), instr("SD", 0, 1, 2),
              instr("BRANCH", 0, 1, 0), instr("CSRRW", 1, 2, 0), instr("CSRRW", 0, 0, 0),
              instr("AMO", 1, 2, 0), instr("FENCE", 0, 0, 0), trapping("LD", 1)}

\* A TLB flush whose address comes from a CSR access.
TlbFlush == {instr("CSRRW", 1, 0, 0), instr("SFENCE_VMA", 0, 1, 0)}

-----------------------------------------------------------------------------
(* States that differ only in what free entries last held are explored     *)
(* once.  The instruction of a free entry is kept while the load register  *)
(* names it, since write-back ports do not look at the issued flag.        *)

liveEntries ==
    [t \in TransId |-> IF sb.mem[t].issued \/ (ldpipe.valid /\ ldpipe.tid = t)
                       THEN <<sb.mem[t], good[t]>> ELSE <<>>]

View == <<[sb EXCEPT !.mem = liveEntries], req, csr, mul, div, lsu, ldpipe>>
=============================================================================
