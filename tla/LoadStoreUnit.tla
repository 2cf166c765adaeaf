--------------------------- MODULE LoadStoreUnit ----------------------------
(***************************************************************************)
(* The load/store unit (load_store_unit.sv) between the scoreboard, the    *)
(* commit stage and the data cache: the two-entry queue, the load unit,    *)
(* the store unit, the store buffer and the AMO buffer, wired as in the    *)
(* code.  One step is one clock cycle of all of them.                      *)
(*                                                                         *)
(* Outside: the program (any sequence of its instructions), the TLB (an    *)
(* address hits or misses) and the table walker (a walk takes any time and *)
(* may end with a fault), the cache behind its two ports (hits, misses,    *)
(* replays, grants) and its answer to an AMO, all of them free to happen   *)
(* in any cycle the protocol allows.                                       *)
(*                                                                         *)
(* An instruction has, besides op and ex,                                  *)
(*   dword  the double word it accesses (bits 11:3 of the address),        *)
(*   fault  "no", "align" (known before translation) or "page",            *)
(*   ni     it accesses a non-idempotent location.                         *)
(***************************************************************************)
EXTENDS CommitStage, LoadUnit, StoreUnit, Integers, Sequences, FiniteSets

CONSTANTS
    NR_ENTRIES, DEPTH_SPEC, DEPTH_COMMIT,
    Program,         \* the programs that may run: a set of instructions each, and
                     \* en_ld_st_translation_i: their addresses go through the TLB
    Dword,
    STEP             \* dcsr.step: the debugger single-steps the core

ASSUME ModeAssumption == STEP \in BOOLEAN /\ \A p \in Program : p.translation \in BOOLEAN

Instr == UNION {p.instrs : p \in Program}

ASSUME SizeAssumption ==
    NR_ENTRIES \in Nat /\ NR_ENTRIES > 1 /\ DEPTH_SPEC \in Nat \ {0} /\ DEPTH_COMMIT \in Nat \ {0}

\* Only an access to memory has an address that can be faulty.
ASSUME InstrAssumption ==
    /\ Instr # {}
    /\ \A i \in Instr : /\ i.op \in DOMAIN FuOf /\ i.ex \in BOOLEAN /\ i.dword \in Dword
                        /\ i.fault \in {"no", "align", "page"} /\ i.ni \in BOOLEAN
                        /\ fu(i) \notin {"LOAD", "STORE"} => i.fault = "no"

VARIABLES
    prog,      \* the program in memory
    sb,        \* scoreboard
    req,       \* ID/EX register: the instruction handed to its functional unit
    bypass,    \* lsu_bypass
    ld, ldd,   \* load unit: state, and the load whose data is outstanding
    ldpipe,    \* i_pipe_reg_load
    dc,        \* wt_dcache_ctrl on the load port
    su, sur,   \* store unit: state, and the store in its output register
    amo,       \* AMO buffer
    spec, comm,\* store buffer
    mmu,       \* the translation: exception due, and state of the look-up
    dbg        \* debug_mode_q

vars == <<prog, sb, req, bypass, ld, ldd, ldpipe, dc, su, sur, amo, spec, comm, mmu, dbg>>

SCB == INSTANCE Scoreboard WITH PORTS <- 3
STB == INSTANCE StoreBuffer WITH Page <- {0}, Data <- 0 .. NR_ENTRIES - 1

TransId == 0 .. NR_ENTRIES - 1

Request == [valid : BOOLEAN, tid : TransId, instr : Instr]

Null == [valid |-> FALSE, tid |-> 0, instr |-> CHOOSE i \in Instr : TRUE]

isLoad(i)  == fu(i) = "LOAD"
isStore(i) == fu(i) = "STORE"

\* What store instruction i with transaction id t writes.
StoreOf(t, i) == [page |-> 0, dword |-> i.dword, data |-> t]

-----------------------------------------------------------------------------
Init ==
    /\ prog \in Program
    /\ sb = SCB!sb_reset
    /\ req = Null
    /\ bypass = [mem |-> [i \in {0, 1} |-> Null], rp |-> 0, wp |-> 0, cnt |-> 0]
    /\ ld = "IDLE" /\ ldd = [tid |-> 0, live |-> FALSE]
    /\ ldpipe = [valid |-> FALSE, tid |-> 0, ex |-> FALSE, live |-> FALSE]
    /\ dc = "IDLE"
    /\ su = "IDLE" /\ sur = Null
    /\ amo = {}
    /\ spec = STB!ResetRing(DEPTH_SPEC)
    /\ comm = STB!ResetRing(DEPTH_COMMIT)
    /\ mmu = [fault |-> FALSE, tlb |-> "unknown"]
    /\ dbg = FALSE

-----------------------------------------------------------------------------
(* The signals of a cycle, in the order in which they depend on each other.*)
(* `x' are the free inputs:                                                *)
(*   hit       the data TLB translates the address at the head             *)
(*   walk      the page table walk ends: "no", "ok", "error"               *)
(*   ev        event of the cache's load port;  gnt: grant to the store    *)
(*             buffer;  amo_ack: the cache has performed the atomic        *)
(*   wb_empty  the cache's write buffer is empty;  not_ni: it holds no     *)
(*             store to a non-idempotent location                          *)
(* To these `x' adds what is used in many places: the outputs `c' of the   *)
(* commit stage and the answer `matches' of the store buffer's checker.    *)

\* The request as it enters the LSU (lsu_valid_i).
lsu_req == IF isLoad(req.instr) \/ isStore(req.instr) THEN req ELSE [req EXCEPT !.valid = FALSE]

head == lsu_ctrl_o(bypass, lsu_req)

c0 == SCB!commit_instr_o(sb, 0)
c1 == SCB!commit_instr_o(sb, 1)

commitIn(wb_empty, amo_ack) ==
    [halt |-> FALSE, lsu_ready |-> STB!commit_ready_o(comm),
     no_st_pending |-> STB!no_st_pending_o(comm) /\ wb_empty,
     amo_ack |-> amo_ack, csr_ex |-> FALSE, single_step |-> STEP]

eret(in) == c0.instr.op = "XRET" /\ commit_csr_o(c0, in)

set_debug_pc(in) == ~dbg /\ set_debug_pc_step(c0, in)

\* What commit stage and controller tell the other units in a cycle.
commitOut(wb_empty, amo_ack) ==
    LET in == commitIn(wb_empty, amo_ack)
    IN  [amo_ack |-> amo_ack, eret |-> eret(in), debug |-> set_debug_pc(in),
         flush |-> flush_ex_o(c0, in, [mispredict |-> FALSE, flush_csr |-> FALSE,
                                       eret |-> eret(in), debug |-> set_debug_pc(in)]),
         commit |-> commit_lsu_o(c0, in), amo_valid |-> amo_valid_commit_o(c0, in),
         ack |-> num_commit(c0, c1, in)]

\* The MMU answers last cycle's translation, or the walker reports an error.
mmu_ex(x) == mmu.fault \/ x.walk = "error"

storeIn(x) ==
    [valid |-> head.valid /\ isStore(head.instr), amo |-> is_amo(head.instr),
     hit |-> x.hit, st_ready |-> STB!ready_o(spec, x.c.commit) /\ amo = {},
     ex |-> mmu_ex(x), flush |-> x.c.flush]

\* The store buffer's inputs: AMOs go to their own buffer.
storeBufferIn(x, s) ==
    [valid |-> st_valid(su, s) /\ ~is_amo(sur.instr),
     st |-> StoreOf(sur.tid, sur.instr), commit |-> x.c.commit, flush |-> s.flush,
     gnt |-> x.gnt]

\* Mutant: only the stores are waited for.
stall_ni_Speculative(x) ==
    /\ head.instr.ni
    /\ ~x.not_ni \/ ~STB!store_buffer_empty_o(spec, comm)

\* A load from a non-idempotent location waits until it is the oldest
\* instruction and no store is in flight.
stall_ni(x) ==
    /\ head.instr.ni
    /\ ~x.not_ni \/ ~STB!store_buffer_empty_o(spec, comm) \/ sb.cp0 # head.tid

\* valid_without_flush_i is not qualified by the exception or the kind of store.
page_offset_matches ==
    STB!page_offset_matches_o(spec, comm,
        IF su = "VALID_STORE" THEN {StoreOf(sur.tid, sur.instr)} ELSE {}, head.instr.dword)

tag_valid == ld \in {"SEND_TAG", "ABORT_TRANSACTION", "ABORT_TRANSACTION_NI", "WAIT_FLUSH"}

\* Inputs of the load unit: without the cache's answer, then with it.
loadIn0(x) ==
    [valid |-> head.valid /\ isLoad(head.instr), matches |-> x.matches,
     hit |-> x.hit, stall_ni |-> stall_ni(x), wb_ok |-> x.not_ni,
     ex |-> mmu_ex(x), flush |-> x.c.flush, gnt |-> FALSE, rvalid |-> FALSE]

loadIn(x) ==
    LET l0   == loadIn0(x)
        kill == kill_req_o(ld, l0)
    IN  [l0 EXCEPT !.gnt = ctrl_gnt(dc, data_req_o(ld, l0), kill, tag_valid, x.ev),
                   !.rvalid = ctrl_rvalid(dc, kill, tag_valid, x.ev)]

\* which_op: the unit of the instruction at the head owns the MMU.
translation_req(l, s) ==
    IF isLoad(head.instr) THEN translation_req_o(ld, l) ELSE st_translation_req(su, s)

\* Write-backs of this cycle: fixed latency unit, load pipe register, store unit.
writeBacks(s) ==
    {[tid |-> req.tid, ex |-> FALSE] : r \in {r \in {req} : r.valid /\ fu(r.instr) = "CSR"}}
    \union {[tid |-> l.tid, ex |-> l.ex] : l \in {l \in {ldpipe} : l.valid}}
    \union {[tid |-> r.tid, ex |-> s.ex] : r \in {r \in {sur} : valid_o(su, s)}}

\* The instructions that can be issued: there must be room in the scoreboard
\* and, for a memory access without an exception, in the LSU.  (The fixed
\* latency unit is taken to be free.)
issuable(flush) ==
    {i \in prog.instrs : /\ ~SCB!issue_full(sb) /\ ~flush
                         /\ (isLoad(i) \/ isStore(i)) /\ ~i.ex => lsu_ready_o(bypass)}

-----------------------------------------------------------------------------
(* The next value of every register.                                       *)

\* A fault that is known from the address alone.
data_misaligned(i) == i.fault = "align"

\* The exception is due one cycle after the translation; a miss starts a walk.
mmu_next(x, l, s, leaves) ==
    [fault |-> /\ translation_req(l, s)
               /\ data_misaligned(head.instr) \/ (head.instr.fault = "page" /\ x.hit),
     tlb   |-> IF leaves \/ s.flush \/ x.walk = "error" THEN "unknown"
               ELSE IF x.walk = "ok" THEN "present"
               ELSE IF mmu.tlb = "unknown" /\ translation_req(l, s)
                    THEN (IF x.hit THEN "present" ELSE "walk")
               ELSE mmu.tlb]

\* load_data_q; `live' records that the load is waiting for its data.
ldd_next(l) ==
    IF save_load_data(ld, l) THEN [tid |-> head.tid, live |-> ~l.flush]
    ELSE [ldd EXCEPT !.live = @ /\ ~l.flush /\ ~l.rvalid]

\* The register behind the load unit; `live' records that what it writes back
\* belongs to an instruction that has not been flushed.
ldpipe_next(l) ==
    LET out == rvalid_output(ld, l)
    IN  [valid |-> out # "none",
         tid   |-> CASE out = "none" -> 0 [] out = "head_ex" -> head.tid [] OTHER -> ldd.tid,
         ex    |-> out \in {"ex", "head_ex"},
         live  |-> /\ out # "none" /\ ~l.flush
                   /\ out \in {"data", "ex"} => ldd.live]

\* One clock cycle with the inputs x, l of the load unit and s of the store
\* unit, in which an instruction may be issued.
Cycle(x, l, s) ==
    LET b      == storeBufferIn(x, s)
        popLd  == pop_ld_o(ld, l)
        popSt  == pop_st_o(su, s)
        su1    == store_next(su, s)
    IN  /\ bypass' = lsu_bypass_next(bypass, lsu_req, popLd, popSt, s.flush, Null)
        /\ ld' = load_next(ld, l)
        /\ ldd' = ldd_next(l)
        /\ ldpipe' = ldpipe_next(l)
        /\ dc' = ctrl_next(dc, data_req_o(ld, l), kill_req_o(ld, l), tag_valid, x.ev)
        /\ su' = su1
        /\ sur' = IF su1 = "IDLE" THEN Null ELSE head
        /\ amo' = amo_next(amo, st_valid(su, s) /\ is_amo(sur.instr), sur.tid, x.c.amo_ack,
                           amo_flush(s.flush, x.c.amo_valid))
        /\ spec' = STB!core_if(spec, b)
        /\ comm' = STB!store_if(spec, comm, b)
        /\ mmu' = mmu_next(x, l, s, popLd \/ popSt)
        /\ dbg' = ((dbg /\ ~x.c.eret) \/ x.c.debug)
        /\ \E wb \in {writeBacks(s)}, issue \in {{}} \union {{i} : i \in issuable(s.flush)} :
             /\ sb' = SCB!sb_next(sb, [issue |-> issue, wb |-> wb, ack |-> x.c.ack,
                                       flush |-> s.flush, flush_unissued |-> s.flush])
             /\ req' = LET sends == {i \in issue : ~i.ex}
                       IN  IF sends = {} \/ s.flush THEN Null
                           ELSE [valid |-> TRUE, tid |-> sb.ip, instr |-> CHOOSE i \in sends : TRUE]

-----------------------------------------------------------------------------
(* The inputs that the environment can offer in a state.                   *)

\* An address that was found in the TLB stays there while its instruction is
\* at the head; one that is being looked up in the page table is not there.
hits == CASE ~prog.translation \/ mmu.tlb = "present" -> {TRUE}
          [] mmu.tlb = "walk"                       -> {FALSE}
          [] OTHER                                  -> BOOLEAN

walks == IF mmu.tlb # "walk" THEN {"no"}
         ELSE {"no", "ok"} \union (IF head.instr.fault = "page" THEN {"error"} ELSE {})

amo_acks ==
    IF /\ amo_req_o(amo, STB!no_st_pending_o(comm),
                    c0.valid /\ ~c0.ex /\ is_amo(c0.instr))
    THEN BOOLEAN ELSE {FALSE}

\* The write buffer's state matters to fences and non-idempotent loads only.
wbuffer ==
    IF (c0.valid /\ fu(c0.instr) = "CSR") \/ head.instr.ni
    THEN {<<TRUE, TRUE>>, <<FALSE, TRUE>>, <<FALSE, FALSE>>} ELSE {<<TRUE, TRUE>>}

commits == {[c |-> commitOut(b[1], a), not_ni |-> b[2]] : b \in wbuffer, a \in amo_acks}

\* What is decided outside: one choice of each kind.
Free ==
    [hit : hits, walk : walks, ev : ctrl_events(dc),
     gnt : IF STB!data_req(comm) THEN BOOLEAN ELSE {FALSE}, k : commits]

Env ==
    {[hit |-> f.hit, walk |-> f.walk, ev |-> f.ev, gnt |-> f.gnt, c |-> f.k.c, not_ni |-> f.k.not_ni,
      matches |-> page_offset_matches] : f \in Free}

Next ==
    \E x \in Env : \E l \in {loadIn(x)}, s \in {storeIn(x)} :
        Cycle(x, l, s) /\ UNCHANGED prog

Spec == Init /\ [][Next]_vars

-----------------------------------------------------------------------------
(* Properties.                                                             *)

\* Registers hold values of their type.
TypeOK ==
    /\ prog \in Program
    /\ sb \in SCB!SB
    /\ req \in Request /\ sur \in Request
    /\ bypass \in [mem : [{0, 1} -> Request], rp : {0, 1}, wp : {0, 1}, cnt : 0 .. 3]
    /\ ld \in LoadState /\ dc \in CtrlState /\ su \in StoreState
    /\ ldd \in [tid : TransId, live : BOOLEAN]
    /\ ldpipe \in [valid : BOOLEAN, tid : TransId, ex : BOOLEAN, live : BOOLEAN]
    /\ amo \in SUBSET TransId
    /\ spec \in STB!Ring(DEPTH_SPEC) /\ comm \in STB!Ring(DEPTH_COMMIT)
    /\ mmu \in [fault : BOOLEAN, tlb : {"unknown", "walk", "present"}]
    /\ dbg \in BOOLEAN

\* The place of transaction t in program order, counted from the oldest.
Age(t) == (t - sb.cp0 + NR_ENTRIES) % NR_ENTRIES

Older(t) == {u \in TransId : sb.mem[u].issued /\ Age(u) < Age(t)}

Faults(i) == i.ex \/ i.fault # "no"

\* Transaction t is in flight and no older instruction traps, so t is going to
\* be committed or to trap itself.
OnPath(t) == sb.mem[t].issued /\ \A u \in Older(t) : ~Faults(sb.mem[u].instr)

\* Program order of the non-trapping stores on the path that are complete.
DoneStores ==
    {t \in TransId : /\ OnPath(t) /\ sb.mem[t].valid /\ ~Faults(sb.mem[t].instr)
                     /\ sb.mem[t].instr.op = "SD"}

\* The assertions of store_buffer.sv about overflow and underflow hold: back
\* pressure (ready_o one place early, one store in the output register)
\* is enough, and a store retires only when it is in the buffer.  (Of the
\* cycle's inputs, only the walk and the commit stage influence the two.)
StoreBufferContract ==
    \A k \in commits, w \in walks :
        LET x == [c |-> k.c, walk |-> w, hit |-> TRUE, gnt |-> FALSE]
            b == storeBufferIn(x, storeIn(x))
        IN  /\ spec.cnt = DEPTH_SPEC => ~b.valid
            /\ spec.cnt = 0 => ~b.commit
            /\ comm.cnt = DEPTH_COMMIT => ~b.commit

\* The assertion commit_and_flush of store_buffer.sv.
CommitFlushExclusive == \A k \in commits : ~(k.c.commit /\ k.c.flush)

\* The commit stage retires stores by count and not by name.  Still the store
\* it retires is the one that moves on: the completed stores on the path are, in
\* program order, the oldest stores of the speculative queue.
BufferMatchesRob ==
    /\ Cardinality(DoneStores) <= Len(STB!specq)
    /\ \A t \in DoneStores :
         STB!specq[1 + Cardinality({u \in DoneStores : Age(u) < Age(t)})]
             = StoreOf(t, sb.mem[t].instr)

\* A load on the path whose index has been accepted by the cache has no older
\* store to its double word in flight or in the buffer: whatever it reads is not
\* stale.  (The address checker ran one or more cycles earlier.)
LoadSeesOlderStores ==
    ldd.live /\ OnPath(ldd.tid) =>
        LET dw == sb.mem[ldd.tid].instr.dword
        IN  /\ \A u \in Older(ldd.tid) : ~(sb.mem[u].instr.op = "SD" /\ sb.mem[u].instr.dword = dw)
            /\ \A k \in DOMAIN STB!commq : STB!commq[k].dword # dw

\* Exceptions are precise: the oldest instruction, once complete, carries an
\* exception exactly if it causes one itself, although the MMU's exception
\* is seen by both units and by instructions behind the one that caused it.
ExceptionPrecise == c0.valid => (c0.ex <=> Faults(c0.instr))

\* A non-idempotent location is read only by the oldest instruction, when no
\* retired store is left in the buffer: the read is never speculative.
NiLoadNonSpeculative ==
    ldd.live /\ sb.mem[ldd.tid].instr.ni => ldd.tid = sb.cp0 /\ STB!commq = <<>>

\* A completed atomic at the head of the scoreboard is the one in the AMO
\* buffer; were it not there, the commit stage would wait for ever.
AmoBuffered ==
    c0.valid /\ ~c0.ex /\ is_amo(c0.instr) => amo = {sb.cp0}

\* Nothing in the LSU outlives its scoreboard entry: a flush, whatever raises
\* it, reaches the queue, both units and all three buffers.
NoOrphans ==
    LET owned(t, i) == sb.mem[t].issued /\ sb.mem[t].instr = i
        used(r) == r.valid => owned(r.tid, r.instr)
    IN  /\ \A k \in {0, 1} : used(bypass.mem[k])
        /\ used(req) /\ used(sur)
        /\ \A k \in DOMAIN STB!specq : sb.mem[STB!specq[k].data].issued
        /\ \A t \in amo : sb.mem[t].issued /\ is_amo(sb.mem[t].instr)
        /\ ldd.live => sb.mem[ldd.tid].issued /\ isLoad(sb.mem[ldd.tid].instr)

\* When a fence or an atomic retires, every store before it has left the
\* store buffer and nothing behind it has been kept: what is behind it is
\* executed again.
FenceOrders ==
    [][c0.valid /\ ~c0.ex /\ c0.instr.op \in {"AMO", "FENCE"} /\ ~sb'.mem[sb.cp0].issued
        => STB!commq' = <<>> /\ STB!specq' = <<>> /\ sb'.cnt = 0 /\ ~ldd'.live]_vars

\* A load that was in flight when the pipeline was flushed never completes an
\* instruction that was issued after the flush under the same transaction id.
NoStaleWriteBack ==
    /\ ldpipe.valid /\ ~ldpipe.live => ~sb.mem[ldpipe.tid].issued
    /\ su = "VALID_STORE" => sb.mem[sur.tid].issued

=============================================================================
