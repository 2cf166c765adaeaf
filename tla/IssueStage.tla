----------------------------- MODULE IssueStage -----------------------------
(***************************************************************************)
(* The issue stage (issue_stage.sv, issue_read_operands.sv and the operand *)
(* and clobber logic of scoreboard.sv) with the units it feeds: the fixed  *)
(* latency unit of ex_stage.sv (ALU, branch unit, csr_buffer.sv, mult.sv,  *)
(* the control of multiplier.sv and serdiv.sv), the commit stage and the   *)
(* controller.  The load/store unit is reduced to a set of transactions    *)
(* that complete in any order.  One step is one clock cycle.               *)
(*                                                                         *)
(* Values are not represented.  What is tracked is where an operand is     *)
(* taken from: the history variable `good' tells for every instruction in  *)
(* flight whether its operands are those of the program order.             *)
(* Registers are small numbers and 0 is x0.  Renaming is disabled          *)
(* (ENABLE_RENAME) and there is no floating point unit.                    *)
(***************************************************************************)
EXTENDS CommitStage, Integers, Sequences, FiniteSets, FiniteSetsExt

CONSTANTS NR_ENTRIES, Instr

\* What decoder.sv guarantees: an instruction that needs no functional unit
\* carries an exception and names no register; stores, fences and TLB flushes
\* (other encodings of SFENCE.VMA are reserved) write none.
ASSUME IssueAssumption ==
    /\ NR_ENTRIES \in Nat /\ NR_ENTRIES > 1
    /\ Instr # {}
    /\ \A i \in Instr :
         /\ i.op \in DOMAIN FuOf /\ i.ex \in BOOLEAN
         /\ fu(i) = "NONE" => i.ex /\ i.rd = 0
         /\ ~i.ex /\ i.op \in {"SD", "FENCE", "FENCE_I", "SFENCE_VMA"} => i.rd = 0

VARIABLES
    sb,       \* scoreboard
    req,      \* ID/EX register
    csr,      \* csr_buffer: valid, and whose address it holds
    mul,      \* multiplier: the product that is ready
    div,      \* serial divider
    lsu,      \* loads and stores in the load/store unit
    ldpipe,   \* the register behind the load unit
    good      \* history: the operands are the right ones

vars == <<sb, req, csr, mul, div, lsu, ldpipe, good>>

SCB == INSTANCE Scoreboard WITH PORTS <- 3

TransId == 0 .. NR_ENTRIES - 1

NoReq == [valid |-> FALSE, tid |-> 0, instr |-> CHOOSE i \in Instr : TRUE]

NoResult == [valid |-> FALSE, tid |-> 0, ex |-> FALSE]

Init ==
    /\ sb = SCB!sb_reset
    /\ req = NoReq
    /\ csr = [valid |-> FALSE, owner |-> 0]
    /\ mul = [valid |-> FALSE, tid |-> 0]
    /\ div = [st |-> "IDLE", tid |-> 0]
    /\ lsu = {}
    /\ ldpipe = NoResult
    /\ good = [t \in TransId |-> TRUE]

-----------------------------------------------------------------------------
(* Commit and flush.  `x' are the free inputs of the cycle:                *)
(*   mispredict     the resolved branch was predicted wrongly              *)
(*   csr_ex, flush_csr  the CSR file rejects the access, or the write has  *)
(*                  effects on the instructions behind it                  *)
(*   no_st_pending, lsu_ready, amo_ack  see CommitStage                    *)
(*   ld, st         the load and the store that complete, with exception   *)
(*   div            progress of the division: "go", "zero", "last"         *)

c0 == SCB!commit_instr_o(sb, 0)
c1 == SCB!commit_instr_o(sb, 1)

commitIn(x) ==
    [halt |-> FALSE, lsu_ready |-> x.lsu_ready, no_st_pending |-> x.no_st_pending,
     amo_ack |-> x.amo_ack, csr_ex |-> x.csr_ex, single_step |-> FALSE]

controllerIn(x) ==
    [mispredict |-> x.mispredict, flush_csr |-> x.flush_csr,
     eret |-> c0.instr.op = "XRET" /\ commit_csr_o(c0, commitIn(x)), debug |-> FALSE]

flush_ex(x) == flush_ex_o(c0, commitIn(x), controllerIn(x))

flush_unissued(x) == flush_unissued_instr_o(c0, commitIn(x), controllerIn(x))

\* The registers the commit stage writes in this cycle.
committedRd(x) ==
    {c.instr.rd : c \in {c \in {c0} : we_gpr_0(c, commitIn(x))}}
    \union {c.instr.rd : c \in {c \in {c1} : commit_ack_1(c0, c, commitIn(x))}}

-----------------------------------------------------------------------------
(* The fixed latency unit.                                                 *)

starts(f) == req.valid /\ fu(req.instr) = f

\* Mutant: the buffer is ready while an access is just coming in.
csr_ready_IgnoresIncoming(x) == csr.valid => commit_csr_o(c0, commitIn(x))

csr_ready(x) == (csr.valid \/ starts("CSR")) => commit_csr_o(c0, commitIn(x))

\* The divider takes one division at a time and none during a flush.
in_vld(x) == ~flush_ex(x) /\ req.valid /\ req.instr.op = "DIV"

mult_ready(x) == div.st = "IDLE" /\ ~in_vld(x) /\ ~flush_ex(x)

flu_ready(x) == csr_ready(x) /\ mult_ready(x)

\* Mutant: a division that ends early does not announce its result.
out_vld_OnlyFinish(x) == ~flush_ex(x) /\ div.st = "FINISH"

\* A division may end in its last cycle or when the remaining bits are zero.
out_vld(x) == ~flush_ex(x) /\ (div.st = "FINISH" \/ (div.st = "DIVIDE" /\ x.div = "zero"))

mult_valid(x) == mul.valid \/ out_vld(x)

mult_trans_id == IF mul.valid THEN mul.tid ELSE div.tid

flu_valid(x) == starts("ALU") \/ starts("CTRL_FLOW") \/ starts("CSR") \/ mult_valid(x)

\* The result multiplexer: ALU and CSR, then multiplier, then branch unit.
flu_trans_id(x) ==
    IF ~starts("ALU") /\ ~starts("CSR") /\ mult_valid(x) THEN mult_trans_id ELSE req.tid

\* The result is taken unless a product is on the bus in the same cycle.
afterResult == IF mul.valid THEN "FINISH" ELSE "IDLE"

div_next(x) ==
    IF flush_ex(x) THEN [div EXCEPT !.st = "IDLE"]
    ELSE CASE div.st = "IDLE"   -> IF in_vld(x) THEN [st |-> "DIVIDE", tid |-> req.tid] ELSE div
           [] div.st = "DIVIDE" -> [div EXCEPT !.st = CASE x.div = "go"   -> "DIVIDE"
                                                       [] x.div = "last" -> "FINISH"
                                                       [] x.div = "zero" -> afterResult]
           [] div.st = "FINISH" -> [div EXCEPT !.st = afterResult]

csr_next(x) ==
    [valid |-> ~flush_ex(x) /\ (starts("CSR") \/ (csr.valid /\ ~commit_csr_o(c0, commitIn(x)))),
     owner |-> IF starts("CSR") THEN req.tid ELSE csr.owner]

\* Write-backs by port number: stores, loads, fixed latency unit.
writeBacks(x) ==
    {[port |-> 1, tid |-> s.tid, ex |-> s.ex] : s \in x.st}
    \union {[port |-> 2, tid |-> l.tid, ex |-> l.ex] : l \in {l \in {ldpipe} : l.valid}}
    \union {[port |-> 3, tid |-> flu_trans_id(x), ex |-> FALSE] : r \in {r \in {req} : flu_valid(x)}}

\* What the issue stage sees of the other units in a cycle with inputs x.
signals(x) ==
    [wb |-> writeBacks(x), flu_ready |-> flu_ready(x), committed |-> committedRd(x),
     ack |-> num_commit(c0, c1, commitIn(x)), mispredict |-> x.mispredict,
     flush |-> flush_ex(x), flush_unissued |-> flush_unissued(x)]

-----------------------------------------------------------------------------
(* Operands.                                                               *)

\* The instructions in flight that are going to write register r.
writers(r) == {t \in TransId : r # 0 /\ sb.mem[t].issued /\ sb.mem[t].instr.rd = r}

\* rd_clobber_gpr: the functional unit of the first entry that writes r.
rd_clobber(r) == IF writers(r) = {} THEN "NONE" ELSE fu(sb.mem[Min(writers(r))].instr)

\* Who can provide register r now: write-back ports (which do not look at the
\* issued flag) before entries, lowest index first.
portSources(r, w) == {p \in w.wb : sb.mem[p.tid].instr.rd = r /\ ~p.ex}

entrySources(r) == {t \in writers(r) : sb.mem[t].valid}

rs_valid(r, w) == portSources(r, w) # {} \/ entrySources(r) # {}

source(r, w) ==
    IF portSources(r, w) # {}
    THEN (CHOOSE p \in portSources(r, w) : \A q \in portSources(r, w) : p.port <= q.port).tid
    ELSE Min(entrySources(r))

\* CSR results are only known at commit and come through the register file,
\* with an exception in the code for SFENCE.VMA.
forwardable(r, i) == rd_clobber(r) # "NONE" /\ (rd_clobber(r) # "CSR" \/ i.op = "SFENCE_VMA")

forward(r, i, w) == forwardable(r, i) /\ rs_valid(r, w)

stall(i, w) == \E r \in {i.rs1, i.rs2} : rd_clobber(r) # "NONE" /\ ~forward(r, i, w)

fu_busy(i, w) == fu(i) \in {"ALU", "CTRL_FLOW", "CSR", "MULT"} /\ ~w.flu_ready

\* Mutant: no check for another instruction that writes the same register.
waw_free_Always(i, w) == TRUE

\* No other instruction in flight writes rd, or it retires in this cycle.
waw_free(i, w) == rd_clobber(i.rd) = "NONE" \/ i.rd \in w.committed

\* Mutant: nothing keeps the result bus free for the product.
busReserved_Never(i) == FALSE

\* The cycle after a multiplication only another one may be issued.
busReserved(i) == starts("MULT") /\ fu(i) # "MULT"

issue_ack_o(i, w) ==
    /\ ~SCB!issue_full(sb)
    /\ ~busReserved(i)
    /\ \/ ~stall(i, w) /\ ~fu_busy(i, w) /\ waw_free(i, w)
       \/ i.ex
       \/ fu(i) = "NONE"

\* History: is the operand the one of the program order?  The result of an
\* atomic is not known before it commits, and neither is that of a CSR access.
Age(t) == (t - sb.cp0 + NR_ENTRIES) % NR_ENTRIES

operandGood(r, i, w) ==
    IF forward(r, i, w)
    THEN LET s == source(r, w)
         IN  /\ s \in writers(r) /\ \A t \in writers(r) : Age(t) <= Age(s)
             /\ fu(sb.mem[s].instr) # "CSR" /\ ~is_amo(sb.mem[s].instr)
             /\ good[s]
    ELSE writers(r) = {}

-----------------------------------------------------------------------------
\* The decoder offers nothing, or an instruction that is not acknowledged, or
\* one that is.
Issue(w) ==
    \E acked \in {{}} \union {{i} : i \in {i \in Instr : issue_ack_o(i, w)}} :
        LET issued == IF w.flush_unissued THEN {} ELSE acked
            sends  == {i \in issued : ~i.ex /\ fu(i) # "NONE"}
        IN  /\ sb' = SCB!sb_next(sb, [issue |-> acked, wb |-> w.wb, ack |-> w.ack,
                                      flush |-> w.flush, flush_unissued |-> w.flush_unissued])
            /\ req' = IF sends = {} THEN NoReq
                      ELSE [valid |-> TRUE, tid |-> sb.ip, instr |-> CHOOSE i \in sends : TRUE]
            /\ good' = [t \in TransId |->
                          IF issued # {} /\ t = sb.ip
                          THEN LET i == CHOOSE i \in issued : TRUE
                               IN  i.ex \/ ( /\ ~w.mispredict
                                             /\ \A r \in {i.rs1, i.rs2} \ {0} : operandGood(r, i, w))
                          ELSE good[t]]

\* One clock cycle with the inputs x, from which the signals w follow.
Cycle(x, w) ==
    LET toLsu == {r.tid : r \in {r \in {req} : r.valid /\ fu(r.instr) \in {"LOAD", "STORE"}}}
        done  == {c.tid : c \in x.ld \union x.st}
    IN  /\ csr' = csr_next(x)
        /\ mul' = IF ~w.flush /\ req.valid /\ req.instr.op = "MUL"
                  THEN [valid |-> TRUE, tid |-> req.tid] ELSE [valid |-> FALSE, tid |-> 0]
        /\ div' = div_next(x)
        /\ lsu' = IF w.flush THEN {} ELSE (lsu \ done) \union toLsu
        /\ ldpipe' = IF x.ld = {} THEN NoResult
                     ELSE LET l == CHOOSE l \in x.ld : TRUE
                          IN  [valid |-> TRUE, tid |-> l.tid, ex |-> l.ex]
        /\ Issue(w)

(* What the environment can do in a state.                                 *)

opt(b) == IF b THEN BOOLEAN ELSE {FALSE}

completions(f) ==
    {{}} \union {{[tid |-> t, ex |-> e]} :
                   t \in {t \in lsu : fu(sb.mem[t].instr) = f}, e \in BOOLEAN}

Env ==
    {x \in [mispredict : opt(starts("CTRL_FLOW")),
            csr_ex : opt(c0.valid /\ c0.instr.op = "CSRRW"),
            flush_csr : opt(c0.valid /\ c0.instr.op = "CSRRW" /\ ~c0.ex),
            no_st_pending : IF fu(c0.instr) = "CSR" THEN BOOLEAN ELSE {TRUE},
            lsu_ready : IF c0.instr.op = "SD" THEN BOOLEAN ELSE {TRUE},
            amo_ack : opt(c0.valid /\ ~c0.ex /\ is_amo(c0.instr)),
            ld : completions("LOAD"), st : completions("STORE"),
            div : IF div.st = "DIVIDE" THEN {"go", "zero", "last"} ELSE {"go"}] :
        x.flush_csr => ~x.csr_ex}

Next == \E x \in Env : \E w \in {signals(x)} : Cycle(x, w)

Spec == Init /\ [][Next]_vars

\* The units behind the issue stage make progress: a division ends, the
\* load/store unit completes what it holds, stores drain, atomics are answered.
helpful(x) ==
    /\ x.no_st_pending /\ x.lsu_ready
    /\ div.st = "DIVIDE" => x.div # "go"
    /\ completions("LOAD") # {{}} => x.ld # {}
    /\ completions("STORE") # {{}} => x.st # {}
    /\ c0.valid /\ ~c0.ex /\ is_amo(c0.instr) => x.amo_ack

FairSpec ==
    Spec /\ WF_vars(\E x \in Env : helpful(x) /\ \E w \in {signals(x)} : Cycle(x, w))

-----------------------------------------------------------------------------
(* Properties.                                                             *)

\* Every instruction that retires, on either port, has read the operands of the
\* program order: stale write-backs, results that are not final, CSR accesses
\* and wrong paths either never reach an operand or are flushed with their user.
OperandsCorrect ==
    \A x \in Env :
        LET n == num_commit(c0, c1, commitIn(x))
        IN  (n > 0 => good[sb.cp0]) /\ (n > 1 => good[sb.cp1])

\* At most one instruction in flight writes a register, which clobber and
\* forwarding logic rely on.  The comments in scoreboard.sv say so of all
\* instructions; it holds of those that carry no exception from the decoder,
\* and the others never reach the register file.
UniqueWriter ==
    \A t, u \in TransId :
        /\ t # u /\ sb.mem[t].issued /\ sb.mem[u].issued
        /\ ~sb.mem[t].instr.ex /\ ~sb.mem[u].instr.ex
        => sb.mem[t].instr.rd # sb.mem[u].instr.rd \/ sb.mem[t].instr.rd = 0

\* The comment in issue_read_operands.sv about CSR instructions: their result
\* is never forwarded.
CsrNotForwarded ==
    \A w \in {signals(x) : x \in Env}, i \in Instr :
        issue_ack_o(i, w) /\ ~i.ex /\ ~w.flush_unissued =>
            \A r \in {i.rs1, i.rs2} :
                forward(r, i, w) => fu(sb.mem[source(r, w)].instr) # "CSR"

\* Nothing is lost: an instruction in flight that is not complete is in
\* exactly one functional unit, so its result will come.  A collision on the
\* result bus of the fixed latency unit would lose one.
NothingLost ==
    \A t \in TransId :
        sb.mem[t].issued /\ ~sb.mem[t].valid /\ fu(sb.mem[t].instr) # "NONE" =>
            Cardinality({u \in {"req", "mul", "div", "lsu", "ldpipe"} :
                CASE u = "req"    -> req.valid /\ req.tid = t
                  [] u = "mul"    -> mul.valid /\ mul.tid = t
                  [] u = "div"    -> div.st # "IDLE" /\ div.tid = t
                  [] u = "lsu"    -> t \in lsu
                  [] u = "ldpipe" -> ldpipe.valid /\ ldpipe.tid = t}) = 1

\* When a CSR access commits, the buffer holds the address of this access,
\* although a waiting fence clears the buffer in every cycle and lets the next
\* access overwrite it.
CsrAddressOwn == c0.valid /\ ~c0.ex /\ c0.instr.op = "CSRRW" => csr.owner = sb.cp0

\* Every issued instruction leaves the scoreboard, by retiring or by a flush.
\* Instructions leave in order, so this is that again and again the scoreboard
\* is empty, or its oldest instruction leaves.
EveryInstructionLeaves == []<>(sb.cnt = 0) \/ []<><<~sb'.mem[sb.cp0].issued>>_vars
=============================================================================
