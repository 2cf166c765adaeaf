-------------------------------- MODULE Isa ---------------------------------
(***************************************************************************)
(* The classes of instructions that the pipeline treats differently        *)
(* (fu_op and fu_t of ariane_pkg.sv).  One operation stands for all the    *)
(* operations that take the same path: ADD for the single-cycle integer    *)
(* operations, AMO for the atomic ones including LR and SC, CSRRW for the  *)
(* accesses to control and status registers, XRET for the returns from     *)
(* traps and from debug mode.  The build has no floating point unit.       *)
(***************************************************************************)

\* The functional unit of every operation.  AMOs execute in the store unit;
\* fences and TLB flushes are CSR operations with side effects; an ECALL is
\* done when it is decoded.
FuOf == [ADD |-> "ALU", BRANCH |-> "CTRL_FLOW", MUL |-> "MULT", DIV |-> "MULT",
         LD |-> "LOAD", SD |-> "STORE", AMO |-> "STORE", CSRRW |-> "CSR",
         XRET |-> "CSR", SFENCE_VMA |-> "CSR", FENCE |-> "CSR", FENCE_I |-> "CSR", ECALL |-> "NONE"]

fu(i) == FuOf[i.op]

is_amo(i) == i.op = "AMO"
=============================================================================
