------------------------ MODULE LoadStoreUnit_proofs ------------------------
(***************************************************************************)
(* Proofs about the load/store unit, for scoreboards and store buffers of  *)
(* any size and any set of programs.                                       *)
(***************************************************************************)
EXTENDS LoadStoreUnit, FiniteSetTheorems, TLAPS

\* What is known of the scoreboard and of the store buffer on their own.
SCP == INSTANCE Scoreboard_proofs WITH PORTS <- 3
SBP == INSTANCE StoreBuffer_proofs WITH Page <- {0}, Data <- 0 .. NR_ENTRIES - 1

-----------------------------------------------------------------------------
(* The inductive invariant.                                                *)

entry(t) == sb.mem[t]

\* Entry t waits for its result.
waits(t) == entry(t).issued /\ ~entry(t).valid

memop(i) == isLoad(i) \/ isStore(i)

\* The places of the queue, and which requests are in the queue or enter it.
place(k) == bypass.mem[k]
other == 1 - bypass.rp
inPlace(t) == \E k \in {0, 1} : place(k).valid /\ place(k).tid = t
queued(t) == inPlace(t) \/ (lsu_req.valid /\ req.tid = t)

\* A request for an instruction that waits for its result.
owns(r) == waits(r.tid) /\ entry(r.tid).instr = r.instr

\* The states in which a unit works on the request at the head of the queue.
LdBusy == {"WAIT_GNT", "WAIT_PAGE_OFFSET", "ABORT_TRANSACTION", "ABORT_TRANSACTION_NI",
           "WAIT_TRANSLATION", "WAIT_WB_EMPTY"}
SuWait == {"WAIT_TRANSLATION", "WAIT_STORE_READY"}

\* The states in which the cache looks for the data of a load.
Looking == {"REPLAY_REQ", "REPLAY_READ", "MISS_REQ", "MISS_WAIT"}

\* The scoreboard is a consistent ring.
Ring == SCP!ByIndex(sb) /\ SCP!PortsReady(sb)

\* The exception of the decoder stays with the instruction, which is complete.
Marked == \A t \in TransId : entry(t).issued /\ entry(t).instr.ex => entry(t).ex /\ entry(t).valid

\* Load unit and cache agree on whether a load is outstanding.
LoadProtocol ==
    /\ ld = "SEND_TAG" => dc = "READ" /\ ldd.live
    /\ ldd.live => \/ ld = "SEND_TAG" /\ dc = "READ"
                   \/ dc \in Looking /\ ld \in {"IDLE", "WAIT_GNT", "WAIT_PAGE_OFFSET"}
    /\ dc \in Looking => ldd.live \/ ld = "WAIT_FLUSH"
    /\ ld \in {"ABORT_TRANSACTION", "ABORT_TRANSACTION_NI"} => dc = "READ"

\* After a flush the load unit may still report something, to an empty scoreboard.
Flushing ==
    /\ ldpipe.valid /\ ~ldpipe.live => sb.cnt = 0
    /\ ldpipe.live => ldpipe.valid
    /\ ld = "WAIT_FLUSH" => sb.cnt = 0

\* The queue, whose counter wraps when a store that has left it traps: even then
\* no unit works on a place that is not valid.
Shape ==
    /\ bypass.wp = (bypass.rp + bypass.cnt) % 2
    /\ bypass.cnt = 3 => ~place(bypass.rp).valid /\ su = "IDLE" /\ ld = "IDLE"
    /\ bypass.cnt \in {1, 2} => place(bypass.rp).valid
    /\ bypass.cnt = 2 => place(other).valid /\ ~lsu_req.valid
    /\ ld \in LdBusy => bypass.cnt \in {1, 2} /\ isLoad(place(bypass.rp).instr)
    /\ su \in SuWait => bypass.cnt \in {1, 2} /\ sur = place(bypass.rp)
    /\ su = "VALID_STORE" => ~place(other).valid

\* What is in the unit waits for its result, and is there once.
Held ==
    /\ \A k \in {0, 1} : place(k).valid => owns(place(k)) /\ memop(place(k).instr)
    /\ req.valid => owns(req) /\ ~inPlace(req.tid)
    /\ place(0).valid /\ place(1).valid => place(0).tid # place(1).tid
    /\ su # "IDLE" => sur.valid /\ owns(sur) /\ isStore(sur.instr)
    /\ su = "IDLE" => ~sur.valid
    /\ ldd.live => waits(ldd.tid) /\ isLoad(entry(ldd.tid).instr)
    /\ ldpipe.live => waits(ldpipe.tid) /\ isLoad(entry(ldpipe.tid).instr)
    /\ ldd.live /\ ldpipe.live => ldd.tid # ldpipe.tid
    /\ ldd.live => ~inPlace(ldd.tid) /\ (req.valid => req.tid # ldd.tid)
    /\ ldpipe.live => ~inPlace(ldpipe.tid) /\ (req.valid => req.tid # ldpipe.tid)
    /\ su = "VALID_STORE" => ~inPlace(sur.tid) /\ (req.valid => req.tid # sur.tid)

\* Transaction t is in flight behind the faulty instruction f.
behind(f, t) == entry(f).issued /\ Faults(entry(f).instr) /\ Age(f) < Age(t)

\* The queue is in program order, and complete from its head on ...
InOrder ==
    /\ bypass.cnt # 3
    /\ bypass.cnt = 0 => ~place(0).valid /\ ~place(1).valid
    /\ bypass.cnt = 1 => ~place(other).valid
    /\ bypass.cnt = 2 => Age(place(bypass.rp).tid) < Age(place(other).tid)
    /\ \A t, u \in TransId :
         queued(t) /\ entry(u).issued /\ Age(t) < Age(u) /\ memop(entry(u).instr) /\ ~entry(u).instr.ex => queued(u)

\* ... until a store that has left it traps; then all of it is behind a faulty
\* instruction.
Tripped ==
    \E f \in TransId : /\ entry(f).issued /\ Faults(entry(f).instr)
                       /\ \A t \in TransId : queued(t) \/ (su # "IDLE" /\ t = sur.tid) => Age(f) < Age(t)

Order ==
    /\ req.valid => Age(req.tid) = sb.cnt - 1
    /\ InOrder \/ Tripped

\* A walk is made for the request at the head.
Walking ==
    mmu.tlb = "walk" => /\ prog.translation /\ bypass.cnt \in {1, 2}
                        /\ isStore(head.instr) => su \in SuWait
                        /\ isLoad(head.instr) => su = "IDLE" /\ ld # "SEND_TAG"

\* To whom the exception belongs that the MMU reports in this cycle.
Blamed ==
    /\ su = "VALID_STORE" => mmu.tlb = "unknown" /\ (mmu.fault <=> sur.instr.fault # "no")
    /\ ld = "SEND_TAG" => /\ mmu.tlb = "unknown" /\ su = "IDLE"
                          /\ mmu.fault <=> entry(ldd.tid).instr.fault # "no"
    /\ mmu.fault /\ su \in SuWait => sur.instr.fault # "no"
    /\ mmu.fault /\ su = "IDLE" /\ ld # "SEND_TAG" /\ head.valid /\ isLoad(head.instr) =>
          Faults(head.instr) \/ ~OnPath(head.tid)

\* A load that goes on has no exception, and one that ends has its own.
LoadFaults ==
    /\ ldd.live /\ ld # "SEND_TAG" => entry(ldd.tid).instr.fault = "no"
    /\ ldpipe.live /\ OnPath(ldpipe.tid) => (ldpipe.ex <=> entry(ldpipe.tid).instr.fault # "no")

\* Exceptions are precise for everything on the path.
Precise ==
    /\ \A t \in TransId : waits(t) => ~entry(t).ex
    /\ \A t \in TransId : OnPath(t) /\ entry(t).valid => (entry(t).ex <=> Faults(entry(t).instr))

\* The AMO buffer holds the completed atomic, and there is only one.
Amos ==
    /\ su = "VALID_STORE" /\ is_amo(sur.instr) => amo = {}
    /\ \A t \in amo : entry(t).issued /\ entry(t).valid /\ is_amo(entry(t).instr) /\ amo = {t}
    /\ \A t \in TransId : entry(t).valid /\ ~entry(t).ex /\ is_amo(entry(t).instr) => amo = {t}

\* Pointers, counters and flags of the store buffer's rings agree.
Rings == STB!RingConsistent(spec, DEPTH_SPEC) /\ STB!RingConsistent(comm, DEPTH_COMMIT)

\* Place k of the speculative queue belongs to transaction tidAt(k).
tidAt(k) == STB!specq[k].data

\* The speculative queue holds completed stores, in program order as far as
\* they are on the path, and every completed store that is on the path.
SpecOrder ==
    /\ su = "VALID_STORE" => spec.cnt < DEPTH_SPEC
    /\ \A k \in 1 .. spec.cnt :
         /\ tidAt(k) \in TransId /\ entry(tidAt(k)).issued /\ entry(tidAt(k)).valid
         /\ ~entry(tidAt(k)).ex /\ entry(tidAt(k)).instr.op = "SD"
         /\ STB!specq[k] = StoreOf(tidAt(k), entry(tidAt(k)).instr)
    /\ \A j, k \in 1 .. spec.cnt : j < k /\ OnPath(tidAt(k)) => Age(tidAt(j)) < Age(tidAt(k))
    /\ \A t \in DoneStores : \E k \in 1 .. spec.cnt : tidAt(k) = t
    /\ su = "VALID_STORE" /\ OnPath(sur.tid) => \A k \in 1 .. spec.cnt : Age(tidAt(k)) < Age(sur.tid)

\* A store to double word dw is in the buffer or on its way there.
pending(dw) ==
    \/ \E k \in 1 .. spec.cnt : STB!specq[k].dword = dw
    \/ \E k \in 1 .. comm.cnt : STB!commq[k].dword = dw
    \/ su = "VALID_STORE" /\ sur.instr.dword = dw

\* Once the address checker has let a load pass, nothing gets in its way.
Passed == ld \in LdBusy \ {"WAIT_PAGE_OFFSET"} => ~pending(head.instr.dword)

\* A store on the path that waits for its result is still in the unit.
Expected ==
    \A u \in TransId : OnPath(u) /\ waits(u) /\ entry(u).instr.op = "SD" =>
        queued(u) \/ (su = "VALID_STORE" /\ sur.tid = u)

-----------------------------------------------------------------------------
(* Instructions and the commit stage.                                      *)

\* The unit of an instruction, by its operation.
LEMMA FuFacts ==
    ASSUME NEW i \in Instr
    PROVE  /\ fu(i) = "CSR" <=> i.op \in {"CSRRW", "XRET", "SFENCE_VMA", "FENCE", "FENCE_I"}
           /\ fu(i) = "LOAD" <=> i.op = "LD"
           /\ fu(i) = "STORE" <=> i.op \in {"SD", "AMO"}
           /\ fu(i) = "NONE" <=> i.op = "ECALL"
           /\ fu(i) \in {"CSR", "MULT", "LOAD", "STORE", "NONE", "ALU", "CTRL_FLOW"}
           /\ SCP!fu(i) = fu(i) /\ SCB!fu(i) = fu(i)
<1>1. i.op \in {"ADD", "BRANCH", "MUL", "DIV", "LD", "SD", "AMO", "CSRRW", "XRET", "SFENCE_VMA", "FENCE",
                "FENCE_I", "ECALL"}
  BY InstrAssumption DEF FuOf
<1> QED BY <1>1 DEF fu, FuOf, SCP!fu, SCP!FuOf, SCB!fu, SCB!FuOf

\* What commit stage and controller decide about the oldest entries.
Decided(c) ==
    /\ c.ack \in 0 .. 2 /\ c.flush \in BOOLEAN /\ c.commit \in BOOLEAN /\ c.amo_valid \in BOOLEAN
    /\ c.ack > 0 => c0.valid /\ ~c0.ex
    /\ c.ack > 1 => /\ c1.valid /\ ~c1.ex /\ fu(c1.instr) \in {"ALU", "LOAD", "CTRL_FLOW", "MULT"}
                    /\ fu(c0.instr) # "CSR" /\ ~is_amo(c0.instr)
    /\ c.flush => c0.valid
    /\ c.commit => c.ack > 0 /\ c0.instr.op = "SD" /\ comm.cnt < DEPTH_COMMIT
    /\ c.ack > 0 /\ c0.instr.op = "SD" => c.commit
    /\ c.amo_valid <=> c0.valid /\ ~c0.ex /\ is_amo(c0.instr)
    /\ c.amo_ack => c.amo_valid /\ c.flush /\ comm.cnt = 0
    /\ c.ack > 0 /\ is_amo(c0.instr) => c.amo_ack
    /\ c.ack > 0 /\ c0.instr.op = "FENCE" => c.flush /\ comm.cnt = 0
    /\ c.flush /\ c.amo_valid => c.amo_ack
    /\ c.flush /\ ~c0.ex => c.ack > 0
    /\ ~STEP /\ c.flush => ~c.commit

\* This is what they decide.
LEMMA CommitFacts ==
    ASSUME c0.instr \in Instr, c0.ex \in BOOLEAN, c0.valid \in BOOLEAN, NEW k \in commits
    PROVE  Decided(k.c)
<1>1. PICK b \in wbuffer, a \in amo_acks : k = [c |-> commitOut(b[1], a), not_ni |-> b[2]]
  BY DEF commits
<1> DEFINE in == commitIn(b[1], a)
           c == commitOut(b[1], a)
           rq == [mispredict |-> FALSE, flush_csr |-> FALSE, eret |-> eret(in), debug |-> set_debug_pc(in)]
<1>2. a \in BOOLEAN /\ (a => c0.valid /\ ~c0.ex /\ is_amo(c0.instr) /\ comm.cnt = 0)
  BY DEF amo_acks, amo_req_o, STB!no_st_pending_o
<1>3. /\ in.halt = FALSE /\ in.csr_ex = FALSE /\ in.single_step = STEP /\ in.amo_ack = a
      /\ in.lsu_ready = (comm.cnt < DEPTH_COMMIT)
      /\ in.no_st_pending => comm.cnt = 0
  BY DEF commitIn, STB!commit_ready_o, STB!no_st_pending_o
<1>4. /\ c.amo_ack = a /\ c.flush = flush_ex_o(c0, in, rq) /\ c.commit = commit_lsu_o(c0, in)
      /\ c.amo_valid = amo_valid_commit_o(c0, in) /\ c.ack = num_commit(c0, c1, in)
  BY DEF commitOut
<1>5. /\ rq.flush_csr = FALSE /\ rq.eret = eret(in) /\ rq.debug = set_debug_pc(in)
  OBVIOUS
<1> HIDE DEF in, c, rq
<1>6. retirable(c0, in) <=> c0.valid /\ ~c0.ex
  BY <1>3 DEF retirable
<1>7. commit_ack_0(c0, in) => c0.valid /\ ~c0.ex
  BY <1>6 DEF commit_ack_0
<1>8. /\ c.ack \in 0 .. 2
      /\ c.ack > 0 <=> (commit_ack_0(c0, in) \/ commit_ack_1(c0, c1, in))
      /\ c.ack > 1 <=> commit_ack_1(c0, c1, in)
  BY <1>4 DEF num_commit
<1>9. commit_ack_1(c0, c1, in) => /\ commit_ack_0(c0, in) /\ c1.valid /\ ~c1.ex
                                  /\ fu(c1.instr) \in {"ALU", "LOAD", "CTRL_FLOW", "MULT"}
                                  /\ fu(c0.instr) # "CSR" /\ ~is_amo(c0.instr)
  BY DEF commit_ack_1
<1>10. c.commit <=> c0.valid /\ ~c0.ex /\ c0.instr.op = "SD" /\ comm.cnt < DEPTH_COMMIT
  BY <1>3, <1>4, <1>6 DEF commit_lsu_o
<1>11. c.amo_valid <=> c0.valid /\ ~c0.ex /\ is_amo(c0.instr)
  BY <1>4, <1>6 DEF amo_valid_commit_o
<1>12. c.flush <=> \/ fence_o(c0, in) \/ fence_i_o(c0, in) \/ sfence_vma_o(c0, in)
                   \/ flush_commit_o(c0, in) \/ exception_o(c0, in) \/ eret(in) \/ set_debug_pc(in)
  BY <1>4, <1>5 DEF flush_ex_o
<1>13. flush_commit_o(c0, in) <=> c.amo_valid /\ a
  BY <1>3, <1>4 DEF flush_commit_o
<1>14. exception_o(c0, in) <=> c0.valid /\ c0.ex
  BY <1>3 DEF exception_o
<1>15. eret(in) <=> c0.valid /\ ~c0.ex /\ c0.instr.op = "XRET"
  <2>1. c0.instr.op = "XRET" => fu(c0.instr) = "CSR"
    BY FuFacts
  <2> QED BY <1>3, <1>6, <2>1 DEF eret, commit_csr_o
<1>16. set_debug_pc(in) => STEP /\ commit_ack_0(c0, in)
  BY <1>3 DEF set_debug_pc, set_debug_pc_step
<1>17. /\ fence_o(c0, in) <=> c0.valid /\ ~c0.ex /\ c0.instr.op = "FENCE" /\ in.no_st_pending
       /\ fence_i_o(c0, in) <=> c0.valid /\ ~c0.ex /\ c0.instr.op = "FENCE_I" /\ in.no_st_pending
       /\ sfence_vma_o(c0, in) <=> c0.valid /\ ~c0.ex /\ c0.instr.op = "SFENCE_VMA" /\ in.no_st_pending
  BY <1>6 DEF fence_o, fence_i_o, sfence_vma_o, drained
<1>18. /\ commit_ack_0(c0, in) /\ is_amo(c0.instr) => a
       /\ commit_ack_0(c0, in) /\ c0.instr.op = "SD" => c.commit
       /\ commit_ack_0(c0, in) /\ c0.instr.op = "FENCE" => in.no_st_pending
  BY <1>3, <1>7, <1>10 DEF commit_ack_0, is_amo, drained
<1>19. /\ c0.valid /\ ~c0.ex /\ is_amo(c0.instr) /\ a => commit_ack_0(c0, in)
       /\ c0.valid /\ ~c0.ex /\ c0.instr.op \in {"FENCE", "FENCE_I", "SFENCE_VMA"} /\ in.no_st_pending
            => commit_ack_0(c0, in)
       /\ c0.valid /\ ~c0.ex /\ c0.instr.op = "XRET" => commit_ack_0(c0, in)
       /\ c.commit => commit_ack_0(c0, in)
  BY <1>3, <1>6, <1>10 DEF commit_ack_0, is_amo, drained
<1>20. c.flush \in BOOLEAN /\ c.commit \in BOOLEAN /\ c.amo_valid \in BOOLEAN
  BY <1>4 DEF flush_ex_o, commit_lsu_o, amo_valid_commit_o
<1>21. c.flush => c0.valid
  BY <1>7, <1>11, <1>12, <1>13, <1>14, <1>15, <1>16, <1>17
<1>22. /\ c.flush /\ c.amo_valid => a
       /\ c.flush /\ ~c0.ex => c.ack > 0
       /\ ~STEP /\ c.flush => ~c.commit
  BY <1>2, <1>8, <1>10, <1>11, <1>12, <1>13, <1>14, <1>15, <1>16, <1>17, <1>18, <1>19 DEF is_amo
<1>23. Decided(c)
  BY <1>2, <1>3, <1>4, <1>7, <1>8, <1>9, <1>10, <1>11, <1>12, <1>13, <1>17, <1>18, <1>19, <1>20, <1>21, <1>22
     DEF Decided, is_amo
<1> QED BY <1>1, <1>23 DEF c

-----------------------------------------------------------------------------
(* A clock cycle.                                                          *)

\* The inputs of the scoreboard when the instructions `a' are issued.
sbIn(x, s, a) ==
    [issue |-> a, wb |-> writeBacks(s), ack |-> x.c.ack, flush |-> s.flush, flush_unissued |-> s.flush]

sendsOf(a) == {i \in a : ~i.ex}

\* A clock cycle in which `a' is issued, as equations for the registers.
Step(x, l, s, a) ==
    /\ x \in Env /\ l = loadIn(x) /\ s = storeIn(x)
    /\ a = {} \/ \E i \in issuable(s.flush) : a = {i}
    /\ prog' = prog
    /\ bypass' = lsu_bypass_next(bypass, lsu_req, pop_ld_o(ld, l), pop_st_o(su, s), s.flush, Null)
    /\ ld' = load_next(ld, l) /\ ldd' = ldd_next(l) /\ ldpipe' = ldpipe_next(l)
    /\ dc' = ctrl_next(dc, data_req_o(ld, l), kill_req_o(ld, l), tag_valid, x.ev)
    /\ su' = store_next(su, s)
    /\ sur' = IF store_next(su, s) = "IDLE" THEN Null ELSE head
    /\ amo' = amo_next(amo, st_valid(su, s) /\ is_amo(sur.instr), sur.tid, x.c.amo_ack,
                       amo_flush(s.flush, x.c.amo_valid))
    /\ spec' = STB!core_if(spec, storeBufferIn(x, s))
    /\ comm' = STB!store_if(spec, comm, storeBufferIn(x, s))
    /\ mmu' = mmu_next(x, l, s, pop_ld_o(ld, l) \/ pop_st_o(su, s))
    /\ dbg' = ((dbg /\ ~x.c.eret) \/ x.c.debug)
    /\ sb' = SCB!sb_next(sb, sbIn(x, s, a))
    /\ req' = IF sendsOf(a) = {} \/ s.flush THEN Null
              ELSE [valid |-> TRUE, tid |-> sb.ip, instr |-> CHOOSE i \in sendsOf(a) : TRUE]

\* A step of the specification is one.
LEMMA NextIsStep ==
    ASSUME Next
    PROVE  \E x, l, s, a : Step(x, l, s, a)
<1>1. PICK x \in Env : \E l \in {loadIn(x)}, s \in {storeIn(x)} : Cycle(x, l, s) /\ UNCHANGED prog
  BY DEF Next
<1>2. PICK l \in {loadIn(x)}, s \in {storeIn(x)} : Cycle(x, l, s) /\ UNCHANGED prog
  BY <1>1
<1>3. PICK wb \in {writeBacks(s)}, a \in {{}} \union {{i} : i \in issuable(s.flush)} :
             /\ sb' = SCB!sb_next(sb, [issue |-> a, wb |-> wb, ack |-> x.c.ack,
                                       flush |-> s.flush, flush_unissued |-> s.flush])
             /\ req' = LET sends == {i \in a : ~i.ex}
                       IN  IF sends = {} \/ s.flush THEN Null
                           ELSE [valid |-> TRUE, tid |-> sb.ip, instr |-> CHOOSE i \in sends : TRUE]
  BY <1>2, Zenon DEF Cycle
<1>4. wb = writeBacks(s) /\ l = loadIn(x) /\ s = storeIn(x)
  OBVIOUS
<1>5. a = {} \/ \E i \in issuable(s.flush) : a = {i}
  OBVIOUS
<1>6. /\ sb' = SCB!sb_next(sb, sbIn(x, s, a))
      /\ req' = IF sendsOf(a) = {} \/ s.flush THEN Null
                ELSE [valid |-> TRUE, tid |-> sb.ip, instr |-> CHOOSE i \in sendsOf(a) : TRUE]
  BY <1>3, <1>4, Zenon DEF sbIn, sendsOf
<1>7. /\ bypass' = lsu_bypass_next(bypass, lsu_req, pop_ld_o(ld, l), pop_st_o(su, s), s.flush, Null)
      /\ ld' = load_next(ld, l) /\ ldd' = ldd_next(l) /\ ldpipe' = ldpipe_next(l)
      /\ dc' = ctrl_next(dc, data_req_o(ld, l), kill_req_o(ld, l), tag_valid, x.ev)
      /\ su' = store_next(su, s)
      /\ sur' = IF store_next(su, s) = "IDLE" THEN Null ELSE head
      /\ amo' = amo_next(amo, st_valid(su, s) /\ is_amo(sur.instr), sur.tid, x.c.amo_ack,
                         amo_flush(s.flush, x.c.amo_valid))
      /\ spec' = STB!core_if(spec, storeBufferIn(x, s))
      /\ comm' = STB!store_if(spec, comm, storeBufferIn(x, s))
      /\ mmu' = mmu_next(x, l, s, pop_ld_o(ld, l) \/ pop_st_o(su, s))
      /\ dbg' = ((dbg /\ ~x.c.eret) \/ x.c.debug)
  BY <1>2, Zenon DEF Cycle
<1>8. x \in Env /\ prog' = prog
  BY <1>1, <1>2
<1>9. Step(x, l, s, a)
  BY <1>4, <1>5, <1>6, <1>7, <1>8, Zenon DEF Step
<1> QED BY <1>9

\* The free inputs of a cycle.
Inputs(x) ==
    /\ x.hit \in BOOLEAN /\ x.walk \in {"no", "ok", "error"} /\ x.ev \in CtrlEvent /\ x.gnt \in BOOLEAN
    /\ x.matches = page_offset_matches /\ x.not_ni \in BOOLEAN
    /\ (~prog.translation /\ mmu.tlb # "walk") \/ mmu.tlb = "present" => x.hit
    /\ prog.translation /\ mmu.tlb = "walk" => ~x.hit
    /\ x.walk # "no" => mmu.tlb = "walk"
    /\ x.walk = "error" => head.instr.fault = "page"
    /\ x.ev \in ctrl_events(dc)
    /\ \E k \in commits : x.c = k.c

LEMMA EnvFacts ==
    ASSUME TypeOK, NEW x \in Env
    PROVE  Inputs(x)
<1>1. PICK f \in Free :
        x = [hit |-> f.hit, walk |-> f.walk, ev |-> f.ev, gnt |-> f.gnt, c |-> f.k.c, not_ni |-> f.k.not_ni,
             matches |-> page_offset_matches]
  BY DEF Env
<1> DEFINE h == f.hit
           w == f.walk
           e == f.ev
           g == f.gnt
           k == f.k
<1>a. /\ h \in hits /\ w \in walks /\ e \in ctrl_events(dc) /\ k \in commits /\ g \in BOOLEAN
  BY DEF Free
<1>2. /\ x.hit = h /\ x.walk = w /\ x.ev = e /\ x.gnt = g /\ x.c = k.c /\ x.not_ni = k.not_ni
      /\ x.matches = page_offset_matches
  BY <1>1
<1> HIDE DEF h, w, e, g, k
<1>3. h \in BOOLEAN /\ ((~prog.translation /\ mmu.tlb # "walk") \/ mmu.tlb = "present" => h)
      /\ (prog.translation /\ mmu.tlb = "walk" => ~h)
  <2>1. prog.translation \in BOOLEAN /\ mmu.tlb \in {"unknown", "walk", "present"}
    BY ModeAssumption DEF TypeOK
  <2>2. CASE (~prog.translation /\ mmu.tlb # "walk") \/ mmu.tlb = "present"
    <3>1. hits = {TRUE}
      BY <1>a, <2>2 DEF hits
    <3> QED BY <1>a, <2>2, <3>1
  <2>3. CASE prog.translation /\ mmu.tlb = "walk"
    BY <1>a, <2>3 DEF hits
  <2>4. CASE prog.translation /\ mmu.tlb = "unknown"
    BY <1>a, <2>4 DEF hits
  <2>5. CASE ~prog.translation /\ mmu.tlb = "walk"
    BY <1>a, <2>5 DEF hits
  <2> QED BY <2>1, <2>2, <2>3, <2>4, <2>5
<1>4. w \in {"no", "ok", "error"} /\ (w # "no" => mmu.tlb = "walk")
      /\ (w = "error" => head.instr.fault = "page")
  BY <1>a DEF walks
<1>5. e \in CtrlEvent
  <2>1. dc \in CtrlState
    BY DEF TypeOK
  <2> QED BY <1>a, <2>1 DEF ctrl_events, CtrlEvent, CtrlState
<1>6. g \in BOOLEAN
  BY <1>a
<1>7. k.not_ni \in BOOLEAN
  <2>1. PICK b \in wbuffer, a \in amo_acks : k = [c |-> commitOut(b[1], a), not_ni |-> b[2]]
    BY <1>a DEF commits
  <2>2. b = <<TRUE, TRUE>> \/ b = <<FALSE, TRUE>> \/ b = <<FALSE, FALSE>>
    BY DEF wbuffer
  <2>3. b[2] = TRUE \/ b[2] = FALSE
    BY <2>2
  <2> QED BY <2>1, <2>3
<1> QED BY <1>a, <1>2, <1>3, <1>4, <1>5, <1>6, <1>7 DEF Inputs

\* The request at the head, and the one that comes in, are requests.
LEMMA HeadFacts ==
    ASSUME TypeOK
    PROVE  /\ lsu_req \in Request /\ lsu_req.tid = req.tid /\ lsu_req.instr = req.instr
           /\ lsu_req.valid <=> req.valid /\ memop(req.instr)
           /\ head \in Request
           /\ bypass.cnt = 0 => head = lsu_req
           /\ bypass.cnt # 0 => head = place(bypass.rp)
           /\ bypass.rp \in {0, 1} /\ bypass.wp \in {0, 1} /\ bypass.cnt \in 0 .. 3
           /\ \A k \in {0, 1} : place(k) \in Request
<1>1. /\ req \in Request /\ bypass.mem \in [{0, 1} -> Request]
      /\ bypass.rp \in {0, 1} /\ bypass.wp \in {0, 1} /\ bypass.cnt \in 0 .. 3
  BY DEF TypeOK
<1>2. /\ lsu_req \in Request /\ lsu_req.tid = req.tid /\ lsu_req.instr = req.instr
      /\ lsu_req.valid <=> req.valid /\ memop(req.instr)
  BY <1>1 DEF lsu_req, Request, memop
<1>3. head = IF bypass.cnt = 0 THEN lsu_req ELSE bypass.mem[bypass.rp]
  BY DEF head, lsu_ctrl_o
<1> QED BY <1>1, <1>2, <1>3 DEF place

\* The inputs of load unit, store unit and store buffer.
Wired(x, l, s) ==
    /\ s.valid = (head.valid /\ isStore(head.instr)) /\ s.amo = is_amo(head.instr) /\ s.hit = x.hit
    /\ s.st_ready = (STB!ready_o(spec, x.c.commit) /\ amo = {}) /\ s.ex = mmu_ex(x) /\ s.flush = x.c.flush
    /\ l.valid = (head.valid /\ isLoad(head.instr)) /\ l.matches = page_offset_matches /\ l.hit = x.hit
    /\ l.stall_ni = stall_ni(x) /\ l.wb_ok = x.not_ni /\ l.ex = mmu_ex(x) /\ l.flush = x.c.flush
    /\ l.gnt = ctrl_gnt(dc, data_req_o(ld, l), kill_req_o(ld, l), tag_valid, x.ev)
    /\ l.rvalid = ctrl_rvalid(dc, kill_req_o(ld, l), tag_valid, x.ev)

LEMMA WireFacts ==
    ASSUME TypeOK, NEW x, NEW l, NEW s, NEW a, Step(x, l, s, a)
    PROVE  Inputs(x) /\ Wired(x, l, s)
<1>1. x \in Env /\ l = loadIn(x) /\ s = storeIn(x)
  BY DEF Step
<1>2. Inputs(x)
  BY <1>1, EnvFacts
<1> DEFINE l0 == loadIn0(x)
           g == ctrl_gnt(dc, data_req_o(ld, l0), kill_req_o(ld, l0), tag_valid, x.ev)
           v == ctrl_rvalid(dc, kill_req_o(ld, l0), tag_valid, x.ev)
<1>3. l = [l0 EXCEPT !.gnt = g, !.rvalid = v]
  BY <1>1 DEF loadIn
<1>4. l0 = [valid |-> head.valid /\ isLoad(head.instr), matches |-> x.matches,
            hit |-> x.hit, stall_ni |-> stall_ni(x), wb_ok |-> x.not_ni,
            ex |-> mmu_ex(x), flush |-> x.c.flush, gnt |-> FALSE, rvalid |-> FALSE]
  BY DEF loadIn0
<1> HIDE DEF l0, g, v
<1>5. /\ l.valid = (head.valid /\ isLoad(head.instr)) /\ l.matches = x.matches /\ l.hit = x.hit
      /\ l.stall_ni = stall_ni(x) /\ l.wb_ok = x.not_ni /\ l.ex = mmu_ex(x) /\ l.flush = x.c.flush
      /\ l.gnt = g /\ l.rvalid = v /\ l.valid = l0.valid /\ l.matches = l0.matches /\ l.ex = l0.ex
  BY <1>3, <1>4
<1>6. data_req_o(ld, l) = data_req_o(ld, l0) /\ kill_req_o(ld, l) = kill_req_o(ld, l0)
  BY <1>5 DEF data_req_o, kill_req_o, mayRequest
<1>7. /\ s.valid = (head.valid /\ isStore(head.instr)) /\ s.amo = is_amo(head.instr) /\ s.hit = x.hit
      /\ s.st_ready = (STB!ready_o(spec, x.c.commit) /\ amo = {}) /\ s.ex = mmu_ex(x) /\ s.flush = x.c.flush
  BY <1>1 DEF storeIn
<1>8. l.matches = page_offset_matches
  BY <1>2, <1>5 DEF Inputs
<1> QED BY <1>2, <1>5, <1>6, <1>7, <1>8, Zenon DEF Wired, g, v

\* What commit stage and controller decide in a cycle.
LEMMA CommitStep ==
    ASSUME TypeOK, NEW x, NEW l, NEW s, NEW a, Step(x, l, s, a)
    PROVE  /\ Decided(x.c) /\ s.flush = x.c.flush /\ l.flush = x.c.flush
           /\ c0 = sb.mem[sb.cp0] /\ c1 = sb.mem[sb.cp1]
           /\ sb.cp0 \in TransId /\ sb.cp1 \in TransId /\ sb.ip \in TransId /\ sb.cnt \in TransId
           /\ \A t \in TransId : sb.mem[t] \in SCB!Entry
<1>1. /\ sb.cp0 \in TransId /\ sb.cp1 \in TransId /\ sb.ip \in TransId /\ sb.cnt \in TransId
      /\ \A t \in TransId : sb.mem[t] \in SCB!Entry
  BY DEF TypeOK, SCB!SB, SCB!TransId, TransId
<1>2. c0 = sb.mem[sb.cp0] /\ c1 = sb.mem[sb.cp1]
  BY DEF c0, c1, SCB!commit_instr_o
<1>3. c0.instr \in Instr /\ c0.ex \in BOOLEAN /\ c0.valid \in BOOLEAN
  BY <1>1, <1>2 DEF SCB!Entry
<1>4. PICK k \in commits : x.c = k.c
  BY WireFacts DEF Inputs
<1>5. Decided(x.c)
  BY <1>3, <1>4, CommitFacts
<1> QED BY <1>1, <1>2, <1>5, WireFacts DEF Wired

-----------------------------------------------------------------------------
(* What a cycle does to the scoreboard.                                    *)

\* An entry's age is its distance from the first commit pointer.
LEMMA AgeIsDist ==
    ASSUME NEW c \in TransId, NEW t \in TransId
    PROVE  (t - c + NR_ENTRIES) % NR_ENTRIES = SCP!Dist(c, t)
<1>1. NR_ENTRIES \in Nat /\ NR_ENTRIES > 1 /\ c \in 0 .. NR_ENTRIES - 1 /\ t \in 0 .. NR_ENTRIES - 1
  BY SizeAssumption DEF TransId
<1>2. CASE t >= c
  <2>1. t - c + NR_ENTRIES = 1 * NR_ENTRIES + (t - c) /\ t - c \in 0 .. NR_ENTRIES - 1
    BY <1>1, <1>2
  <2> QED BY <1>1, <1>2, <2>1 DEF SCP!Dist
<1>3. CASE t < c
  BY <1>1, <1>3 DEF SCP!Dist
<1> QED BY <1>1, <1>2, <1>3

\* The instances speak of the same instructions, entries and scoreboards.
LEMMA SameScoreboard ==
    /\ SCP!EntriesAssumption /\ SCP!InstrAssumption
    /\ SCP!SB = SCB!SB /\ SCP!Entry = SCB!Entry /\ SCP!TransId = TransId
    /\ SCP!sb_reset = SCB!sb_reset
    /\ \A r, in : SCP!sb_next(r, in) = SCB!sb_next(r, in)
<1>1. SCP!EntriesAssumption /\ SCP!InstrAssumption
  BY SizeAssumption, InstrAssumption DEF SCP!EntriesAssumption, SCP!InstrAssumption
<1>2. SCP!Entry = SCB!Entry /\ SCP!TransId = TransId /\ SCB!TransId = TransId
  BY DEF SCP!Entry, SCB!Entry, SCP!TransId, SCB!TransId, TransId
<1>3. SCP!SB = SCB!SB
  BY <1>2 DEF SCP!SB, SCB!SB
<1>4. SCP!sb_reset = SCB!sb_reset
  BY <1>2 DEF SCP!sb_reset, SCB!sb_reset, SCP!NullEntry, SCB!NullEntry
<1>5. ASSUME NEW r, NEW in
      PROVE  SCP!sb_next(r, in) = SCB!sb_next(r, in)
  <2>1. \A t : SCP!NextEntry(r, in, t) = SCB!NextEntry(r, in, t)
    BY Zenon DEF SCP!NextEntry, SCB!NextEntry, SCP!issue_en, SCB!issue_en, SCP!issue_full, SCB!issue_full,
       SCP!accepted, SCB!accepted, SCP!exAfter, SCB!exAfter, SCP!Flushed, SCB!Flushed, SCP!fu, SCB!fu,
       SCP!FuOf, SCB!FuOf
  <2> QED BY <1>2, <2>1, Zenon DEF SCP!sb_next, SCB!sb_next, SCP!issue_en, SCB!issue_en, SCP!issue_full,
             SCB!issue_full, SCP!Plus, SCB!Plus, SCP!Minus, SCB!Minus, SCP!commit_pointer_1, SCB!commit_pointer_1
<1> QED BY <1>1, <1>2, <1>3, <1>4, <1>5

\* The entries that stay in flight, the one that is filled, and the results that
\* are written back in a cycle.
kept(x, t) == entry(t).issued /\ ~x.c.flush /\ Age(t) >= x.c.ack
filled(x, a, t) == a # {} /\ t = sb.ip /\ ~x.c.flush
written(s, t) ==
    \/ req.valid /\ fu(req.instr) = "CSR" /\ req.tid = t
    \/ ldpipe.valid /\ ldpipe.tid = t
    \/ valid_o(su, s) /\ sur.tid = t
excepted(s, t) ==
    \/ ldpipe.valid /\ ldpipe.tid = t /\ ldpipe.ex
    \/ valid_o(su, s) /\ sur.tid = t /\ s.ex

\* The fate of an entry in a cycle.
Fate(x, s, a, t) ==
    /\ sb'.mem[t].issued <=> kept(x, t) \/ filled(x, a, t)
    /\ kept(x, t) => /\ sb'.mem[t].instr = entry(t).instr
                     /\ sb'.mem[t].valid <=> entry(t).valid \/ fu(entry(t).instr) = "NONE" \/ written(s, t)
                     /\ sb'.mem[t].ex <=> entry(t).ex \/ excepted(s, t)
                     /\ Age(t)' = Age(t) - x.c.ack
    /\ filled(x, a, t) => /\ ~entry(t).issued /\ Age(t)' = sb'.cnt - 1
                          /\ \E i \in a : sb'.mem[t] = [issued |-> TRUE, valid |-> i.ex, ex |-> i.ex, instr |-> i]
    /\ entry(t).issued /\ Age(t) < x.c.ack => entry(t).valid /\ ~entry(t).ex
    /\ sb'.mem[t].valid => sb'.mem[t].issued
    /\ sb'.mem[t] \in SCB!Entry /\ entry(t) \in SCB!Entry
    /\ Age(t) \in 0 .. NR_ENTRIES - 1 /\ Age(t)' \in 0 .. NR_ENTRIES - 1
    /\ sb'.mem[t].issued <=> Age(t)' < sb'.cnt
    /\ entry(t).issued <=> Age(t) < sb.cnt
    /\ entry(t).valid => entry(t).issued

\* The instances of the write-backs.
LEMMA WriteBackFacts ==
    ASSUME TypeOK, NEW x, NEW l, NEW s, NEW a, Step(x, l, s, a)
    PROVE  /\ writeBacks(s) \subseteq SCP!WriteBack
           /\ \A t : /\ (\E w \in writeBacks(s) : w.tid = t) <=> written(s, t)
                     /\ (\E w \in writeBacks(s) : w.tid = t /\ w.ex) <=> excepted(s, t)
<1>1. req.tid \in TransId /\ ldpipe.tid \in TransId /\ sur.tid \in TransId /\ ldpipe.ex \in BOOLEAN
  BY DEF TypeOK, Request
<1>2. s.ex \in BOOLEAN
  BY WireFacts DEF Wired, mmu_ex
<1>3. ASSUME NEW w
      PROVE  w \in writeBacks(s) <=> \/ req.valid /\ fu(req.instr) = "CSR" /\ w = [tid |-> req.tid, ex |-> FALSE]
                                     \/ ldpipe.valid /\ w = [tid |-> ldpipe.tid, ex |-> ldpipe.ex]
                                     \/ valid_o(su, s) /\ w = [tid |-> sur.tid, ex |-> s.ex]
  <2> DEFINE A == {[tid |-> req.tid, ex |-> FALSE] : r \in {r \in {req} : r.valid /\ fu(r.instr) = "CSR"}}
             B == {[tid |-> p.tid, ex |-> p.ex] : p \in {p \in {ldpipe} : p.valid}}
             C == {[tid |-> r.tid, ex |-> s.ex] : r \in {r \in {sur} : valid_o(su, s)}}
  <2>1. w \in A <=> req.valid /\ fu(req.instr) = "CSR" /\ w = [tid |-> req.tid, ex |-> FALSE]
    OBVIOUS
  <2>2. w \in B <=> ldpipe.valid /\ w = [tid |-> ldpipe.tid, ex |-> ldpipe.ex]
    OBVIOUS
  <2>3. w \in C <=> valid_o(su, s) /\ w = [tid |-> sur.tid, ex |-> s.ex]
    OBVIOUS
  <2>4. writeBacks(s) = A \union B \union C
    BY Zenon DEF writeBacks
  <2> HIDE DEF A, B, C
  <2> QED BY <2>1, <2>2, <2>3, <2>4
<1>4. writeBacks(s) \subseteq SCP!WriteBack
  <2>1. /\ [tid |-> req.tid, ex |-> FALSE] \in SCP!WriteBack
        /\ [tid |-> ldpipe.tid, ex |-> ldpipe.ex] \in SCP!WriteBack
        /\ [tid |-> sur.tid, ex |-> s.ex] \in SCP!WriteBack
    BY <1>1, <1>2, SameScoreboard DEF SCP!WriteBack
  <2> QED BY <1>3, <2>1, Zenon
<1>5. ASSUME NEW t
      PROVE  /\ (\E w \in writeBacks(s) : w.tid = t) <=> written(s, t)
             /\ (\E w \in writeBacks(s) : w.tid = t /\ w.ex) <=> excepted(s, t)
  <2> DEFINE w1 == [tid |-> req.tid, ex |-> FALSE]
             w2 == [tid |-> ldpipe.tid, ex |-> ldpipe.ex]
             w3 == [tid |-> sur.tid, ex |-> s.ex]
  <2>1. /\ w1.tid = req.tid /\ w1.ex = FALSE /\ w2.tid = ldpipe.tid /\ w2.ex = ldpipe.ex
        /\ w3.tid = sur.tid /\ w3.ex = s.ex
    OBVIOUS
  <2>2. \A w : w \in writeBacks(s) <=> \/ req.valid /\ fu(req.instr) = "CSR" /\ w = w1
                                       \/ ldpipe.valid /\ w = w2
                                       \/ valid_o(su, s) /\ w = w3
    BY <1>3
  <2> HIDE DEF w1, w2, w3
  <2> QED BY <2>1, <2>2 DEF written, excepted
<1> QED BY <1>4, <1>5

\* The scoreboard's part of a cycle is a cycle of the scoreboard.
LEMMA ScoreboardCycle ==
    ASSUME TypeOK, NEW x, NEW l, NEW s, NEW a, Step(x, l, s, a)
    PROVE  /\ sbIn(x, s, a) \in SCP!Input /\ SCP!Cycle(sbIn(x, s, a)) /\ sb \in SCP!SB
           /\ SCP!EntriesAssumption /\ SCP!InstrAssumption
           /\ a # {} => ~SCP!issue_full(sb) /\ ~x.c.flush
           /\ a = {} \/ \E i \in Instr : a = {i}
<1>1. Decided(x.c) /\ s.flush = x.c.flush /\ c0 = sb.mem[sb.cp0] /\ c1 = sb.mem[sb.cp1]
  BY CommitStep
<1>2. a # {} => ~SCP!issue_full(sb) /\ ~x.c.flush
  BY <1>1 DEF Step, issuable, SCB!issue_full, SCP!issue_full
<1>3. a = {} \/ \E i \in Instr : a = {i}
  BY DEF Step, issuable, Instr, TypeOK
<1>4. sbIn(x, s, a) \in SCP!Input
  BY <1>1, <1>3, WriteBackFacts DEF sbIn, SCP!Input, Decided
<1>5. SCP!InputContract(sbIn(x, s, a))
  BY <1>1 DEF SCP!InputContract, sbIn, SCP!commit_instr_o, Decided
<1>6. sb' = SCP!sb_next(sb, sbIn(x, s, a))
  BY SameScoreboard DEF Step
<1>7. sb \in SCP!SB
  BY SameScoreboard DEF TypeOK
<1> QED BY <1>2, <1>3, <1>4, <1>5, <1>6, <1>7, SameScoreboard DEF SCP!Cycle

\* Every entry meets its fate.
LEMMA SbStep ==
    ASSUME TypeOK, Ring, NEW x, NEW l, NEW s, NEW a, Step(x, l, s, a)
    PROVE  /\ sb' \in SCB!SB /\ Ring'
           /\ \A t \in TransId : Fate(x, s, a, t)
           /\ x.c.flush => sb'.cnt = 0
<1> DEFINE in == sbIn(x, s, a)
<1>1. /\ in \in SCP!Input /\ SCP!Cycle(in) /\ sb \in SCP!SB
      /\ SCP!EntriesAssumption /\ SCP!InstrAssumption
      /\ a # {} => ~SCP!issue_full(sb) /\ ~x.c.flush
      /\ a = {} \/ \E i \in Instr : a = {i}
  BY ScoreboardCycle
<1>2. Decided(x.c) /\ s.flush = x.c.flush /\ c0 = sb.mem[sb.cp0] /\ c1 = sb.mem[sb.cp1]
  BY CommitStep
<1>3. in.issue = a /\ in.wb = writeBacks(s) /\ in.ack = x.c.ack /\ in.flush = x.c.flush /\ in.flush_unissued = x.c.flush
  BY <1>2 DEF sbIn
<1>4. SCP!ByIndex(sb) /\ SCP!PortsReady(sb)
  BY DEF Ring
<1> HIDE DEF in
<1>5. sb' \in SCP!SB
  BY <1>1, SCP!CycleType
<1>6. SCP!ByIndex(sb') /\ SCP!PortsReady(sb')
  BY <1>1, <1>4, SCP!ConsistentStep
<1>7. Ring'
  BY <1>6 DEF Ring, SCP!ByIndex, SCP!PortsReady
<1>8. x.c.flush => sb'.cnt = 0
  BY <1>1, <1>3 DEF SCP!Cycle, SCP!sb_next
<1>9. ASSUME NEW t \in TransId
      PROVE  Fate(x, s, a, t)
  <2>0. SCP!TransId = TransId /\ t \in SCP!TransId /\ SCP!SB = SCB!SB /\ SCP!Entry = SCB!Entry
    BY SameScoreboard
  <2>1. SCP!Tracked(in, t)
    BY <1>1, <1>4, <2>0, SCP!CycleTracks
  <2>2. /\ sb.cp0 \in TransId /\ sb'.cp0 \in TransId /\ sb.cnt \in TransId /\ sb'.cnt \in TransId
        /\ sb.mem[t] \in SCP!Entry /\ sb'.mem[t] \in SCP!Entry
    BY <1>1, <1>5, <2>0 DEF SCP!SB
  <2>3. Age(t) = SCP!Dist(sb.cp0, t) /\ Age(t)' = SCP!Dist(sb'.cp0, t)
    BY <2>2, AgeIsDist DEF Age
  <2>4. Age(t) \in TransId /\ Age(t)' \in TransId
    BY <1>1, <2>0, <2>2, <2>3, SCP!AtDist
  <2>5. /\ entry(t).issued <=> Age(t) < sb.cnt
        /\ entry(t).valid => entry(t).issued
        /\ sb'.mem[t].issued <=> Age(t)' < sb'.cnt
        /\ sb'.mem[t].valid => sb'.mem[t].issued
    BY <1>4, <1>6, <2>0, <2>3 DEF SCP!ByIndex, entry
  <2>6. SCP!Filled(in, t) <=> filled(x, a, t)
    BY <1>1, <1>3 DEF SCP!Filled, SCP!Enters, SCP!issue_en, filled
  <2>7. SCP!Kept(in, t) <=> kept(x, t)
    <3>1. SCP!Kept(in, t) => Age(t)' = Age(t) - x.c.ack
      BY <1>3, <2>1, <2>3 DEF SCP!Tracked
    <3>2. SCP!Retires(sb, in, t) => Age(t) < x.c.ack
      BY <1>3, <2>1, <2>3 DEF SCP!Tracked
    <3>3. x.c.ack \in 0 .. 2 /\ NR_ENTRIES \in Nat
      BY <1>2, SizeAssumption DEF Decided
    <3> QED BY <1>3, <2>4, <3>1, <3>2, <3>3 DEF SCP!Kept, kept, entry, TransId
  <2>8. entry(t).issued /\ Age(t) < x.c.ack => entry(t).valid /\ ~entry(t).ex
    <3>1. SUFFICES ASSUME entry(t).issued, Age(t) < x.c.ack
                   PROVE  entry(t).valid /\ ~entry(t).ex
      OBVIOUS
    <3>2. x.c.ack \in 0 .. 2 /\ Age(t) \in Nat /\ NR_ENTRIES \in Nat /\ NR_ENTRIES > 1
      BY <1>2, <2>4, SizeAssumption DEF Decided, TransId
    <3>3. CASE Age(t) = 0
      <4>1. t = sb.cp0
        BY <2>2, <2>3, <3>2, <3>3 DEF SCP!Dist, TransId
      <4> QED BY <1>2, <3>1, <3>2, <3>3, <4>1 DEF Decided, entry
    <3>4. CASE Age(t) = 1 /\ x.c.ack = 2
      <4>1. t = SCP!At(sb.cp0, 1)
        BY <2>2, <2>3, <3>2, <3>4 DEF SCP!Dist, SCP!At, TransId
      <4>2. sb.cp1 = SCP!At(sb.cp0, 1)
        BY <1>4, <2>2, <2>5, <3>1, <3>2, <3>4 DEF SCP!PortsReady, TransId
      <4> QED BY <1>2, <3>4, <4>1, <4>2 DEF Decided, entry
    <3> QED BY <3>1, <3>2, <3>3, <3>4
  <2>9. fu(entry(t).instr) = SCP!fu(sb.mem[t].instr)
    <3>1. entry(t).instr \in Instr
      BY <2>2 DEF SCP!Entry, entry
    <3> QED BY <3>1, FuFacts DEF entry
  <2>10. kept(x, t) => /\ sb'.mem[t].instr = entry(t).instr
                       /\ sb'.mem[t].valid <=> entry(t).valid \/ fu(entry(t).instr) = "NONE" \/ written(s, t)
                       /\ sb'.mem[t].ex <=> entry(t).ex \/ excepted(s, t)
                       /\ Age(t)' = Age(t) - x.c.ack
    BY <1>3, <2>1, <2>3, <2>7, <2>9, WriteBackFacts DEF SCP!Tracked, entry
  <2>11. filled(x, a, t) => /\ ~entry(t).issued /\ Age(t)' = sb'.cnt - 1
                            /\ \E i \in a : sb'.mem[t] = [issued |-> TRUE, valid |-> i.ex, ex |-> i.ex, instr |-> i]
    BY <1>3, <2>1, <2>3, <2>6 DEF SCP!Tracked, entry
  <2>12. sb'.mem[t].issued <=> kept(x, t) \/ filled(x, a, t)
    BY <2>1, <2>6, <2>7 DEF SCP!Tracked
  <2> QED BY <2>0, <2>2, <2>4, <2>5, <2>8, <2>10, <2>11, <2>12, Zenon DEF Fate, entry, TransId
<1> QED BY <1>5, <1>7, <1>8, <1>9, SameScoreboard

-----------------------------------------------------------------------------
(* The queue of requests and the registers of the units.                   *)

\* The empty request is one.
LEMMA NullFacts == Null \in Request /\ Null.valid = FALSE
<1>1. (CHOOSE i \in Instr : TRUE) \in Instr
  BY InstrAssumption
<1>2. 0 \in TransId
  BY SizeAssumption DEF TransId
<1> QED BY <1>1, <1>2 DEF Null, Request

\* How many requests leave the queue, and a place after the incoming request has
\* been written.
pops(l, s) == (IF pop_ld_o(ld, l) THEN 1 ELSE 0) + (IF pop_st_o(su, s) THEN 1 ELSE 0)
wrote(k) == IF lsu_req.valid /\ k = bypass.wp THEN lsu_req ELSE place(k)

\* The queue in a cycle.
Queue(l, s) ==
    /\ s.flush => /\ bypass'.cnt = 0 /\ bypass'.rp = 0 /\ bypass'.wp = 0
                  /\ \A k \in {0, 1} : bypass'.mem[k] = Null
    /\ ~s.flush =>
         /\ bypass'.rp = (bypass.rp + pops(l, s)) % 2
         /\ bypass'.wp = (bypass.wp + (IF lsu_req.valid THEN 1 ELSE 0)) % 2
         /\ bypass'.cnt = (bypass.cnt + (IF lsu_req.valid THEN 1 ELSE 0) + 4 - pops(l, s)) % 4
         /\ \A k \in {0, 1} : /\ pops(l, s) = 2 => bypass'.mem[k] = Null
                              /\ pops(l, s) = 1 /\ k = bypass.rp => bypass'.mem[k] = Invalid(wrote(k))
                              /\ pops(l, s) = 1 /\ k # bypass.rp => bypass'.mem[k] = wrote(k)
                              /\ pops(l, s) = 0 => bypass'.mem[k] = wrote(k)
    /\ pops(l, s) \in 0 .. 2
    /\ bypass' \in [mem : [{0, 1} -> Request], rp : {0, 1}, wp : {0, 1}, cnt : 0 .. 3]

LEMMA QueueStep ==
    ASSUME TypeOK, NEW x, NEW l, NEW s, NEW a, Step(x, l, s, a)
    PROVE  Queue(l, s)
<1> DEFINE p == pops(l, s)
           n == IF lsu_req.valid THEN 1 ELSE 0
           w == IF lsu_req.valid THEN [bypass.mem EXCEPT ![bypass.wp] = lsu_req] ELSE bypass.mem
           empty == [i \in {0, 1} |-> Null]
           m == CASE p = 2 -> empty
                  [] p = 1 -> [w EXCEPT ![bypass.rp] = Invalid(@)]
                  [] OTHER -> w
<1>1. bypass' = IF s.flush THEN [mem |-> empty, rp |-> 0, wp |-> 0, cnt |-> 0]
                ELSE [mem |-> m, rp |-> (bypass.rp + p) % 2, wp |-> (bypass.wp + n) % 2,
                      cnt |-> status_cnt(bypass.cnt, n, p)]
  BY Zenon DEF Step, lsu_bypass_next, pops
<1>2. p \in 0 .. 2 /\ n \in 0 .. 1
  BY DEF pops
<1>3. /\ bypass.rp \in {0, 1} /\ bypass.wp \in {0, 1} /\ bypass.cnt \in 0 .. 3 /\ lsu_req \in Request
      /\ bypass.mem \in [{0, 1} -> Request]
  BY HeadFacts DEF TypeOK
<1>4. w \in [{0, 1} -> Request] /\ \A k \in {0, 1} : w[k] = wrote(k)
  BY <1>3 DEF wrote, place
<1>5. empty \in [{0, 1} -> Request] /\ \A k \in {0, 1} : empty[k] = Null
  BY NullFacts
<1> HIDE DEF w, empty, p, n
<1>6. \A r \in Request : Invalid(r) \in Request
  BY DEF Invalid, Request
<1>7. /\ m \in [{0, 1} -> Request]
      /\ \A k \in {0, 1} : /\ p = 2 => m[k] = Null
                           /\ p = 1 /\ k = bypass.rp => m[k] = Invalid(wrote(k))
                           /\ p = 1 /\ k # bypass.rp => m[k] = wrote(k)
                           /\ p = 0 => m[k] = wrote(k)
  <2>1. CASE p = 0
    <3>1. m = w
      BY <2>1
    <3> QED BY <1>4, <2>1, <3>1
  <2>2. CASE p = 1
    <3>1. m = [w EXCEPT ![bypass.rp] = Invalid(@)]
      BY <2>2
    <3> HIDE DEF m
    <3> QED BY <1>3, <1>4, <1>6, <2>2, <3>1
  <2>3. CASE p = 2
    <3>1. m = empty
      BY <2>3
    <3> QED BY <1>5, <2>3, <3>1
  <2> QED BY <1>2, <2>1, <2>2, <2>3
<1> HIDE DEF m
<1>8. /\ (bypass.rp + p) % 2 \in {0, 1} /\ (bypass.wp + n) % 2 \in {0, 1}
      /\ status_cnt(bypass.cnt, n, p) \in 0 .. 3
      /\ status_cnt(bypass.cnt, n, p) = (bypass.cnt + n + 4 - p) % 4
  BY <1>2, <1>3 DEF status_cnt
<1>9. CASE s.flush
  BY <1>1, <1>2, <1>5, <1>9 DEF Queue, p
<1>10. CASE ~s.flush
  <2>1. /\ bypass'.mem = m /\ bypass'.rp = (bypass.rp + p) % 2 /\ bypass'.wp = (bypass.wp + n) % 2
        /\ bypass'.cnt = (bypass.cnt + n + 4 - p) % 4
        /\ bypass' \in [mem : [{0, 1} -> Request], rp : {0, 1}, wp : {0, 1}, cnt : 0 .. 3]
    BY <1>1, <1>7, <1>8, <1>10
  <2> QED BY <1>2, <1>7, <1>10, <2>1 DEF Queue, p, n
<1> QED BY <1>9, <1>10

\* The instances speak of the same store buffer.
LEMMA SameStoreBuffer ==
    /\ SBP!DepthAssumption /\ SBP!StoreAssumption
    /\ SBP!Store = STB!Store
    /\ \A d : SBP!Ring(d) = STB!Ring(d) /\ SBP!ResetRing(d) = STB!ResetRing(d)
    /\ \A r, in : SBP!core_if(r, in) = STB!core_if(r, in)
    /\ \A r, c, in : SBP!store_if(r, c, in) = STB!store_if(r, c, in)
    /\ \A r, d : SBP!RingConsistent(r, d) = STB!RingConsistent(r, d) /\ SBP!Contents(r, d) = STB!Contents(r, d)
<1>1. SBP!DepthAssumption /\ SBP!StoreAssumption
  <2>1. Dword # {}
    BY InstrAssumption
  <2> QED BY <2>1, SizeAssumption DEF SBP!DepthAssumption, SBP!StoreAssumption
<1>2. SBP!Store = STB!Store
  BY DEF SBP!Store, STB!Store
<1>3. SBP!NullEntry = STB!NullEntry /\ SBP!Entry = STB!Entry
  BY DEF SBP!NullEntry, STB!NullEntry, SBP!Entry, STB!Entry, SBP!Store, STB!Store
<1>4. \A d : SBP!Ring(d) = STB!Ring(d) /\ SBP!ResetRing(d) = STB!ResetRing(d)
  BY <1>3 DEF SBP!Ring, STB!Ring, SBP!ResetRing, STB!ResetRing
<1>5. ASSUME NEW r, NEW in
      PROVE  SBP!core_if(r, in) = STB!core_if(r, in)
  BY Zenon DEF SBP!core_if, STB!core_if, SBP!IncCnt, STB!IncCnt, SBP!DecCnt, STB!DecCnt, SBP!IncPtr, STB!IncPtr,
     SBP!FlushPtr, STB!FlushPtr
<1>6. ASSUME NEW r, NEW c, NEW in
      PROVE  SBP!store_if(r, c, in) = STB!store_if(r, c, in)
  BY Zenon DEF SBP!store_if, STB!store_if, SBP!IncCnt, STB!IncCnt, SBP!DecCnt, STB!DecCnt, SBP!IncPtr, STB!IncPtr,
     SBP!data_req, STB!data_req, SBP!Oldest, STB!Oldest
<1>7. \A r, d : SBP!RingConsistent(r, d) = STB!RingConsistent(r, d) /\ SBP!Contents(r, d) = STB!Contents(r, d)
  BY DEF SBP!RingConsistent, STB!RingConsistent, SBP!Contents, STB!Contents, SBP!At, STB!At
<1> QED BY <1>1, <1>2, <1>4, <1>5, <1>6, <1>7

\* What the store buffer gets in a cycle.
LEMMA BufferInput ==
    ASSUME TypeOK, NEW x, NEW l, NEW s, NEW a, Step(x, l, s, a)
    PROVE  LET b == storeBufferIn(x, s)
           IN  /\ b \in SBP!Input
               /\ b.valid <=> st_valid(su, s) /\ ~is_amo(sur.instr)
               /\ b.st = StoreOf(sur.tid, sur.instr) /\ b.commit = x.c.commit /\ b.flush = x.c.flush /\ b.gnt = x.gnt
<1>1. Decided(x.c) /\ s.flush = x.c.flush
  BY CommitStep
<1>2. x.gnt \in BOOLEAN
  BY WireFacts DEF Inputs
<1>3. StoreOf(sur.tid, sur.instr) \in SBP!Store
  BY InstrAssumption DEF TypeOK, Request, StoreOf, SBP!Store, TransId
<1> DEFINE v == st_valid(su, s) /\ ~is_amo(sur.instr)
<1>4. storeBufferIn(x, s) = [valid |-> v, st |-> StoreOf(sur.tid, sur.instr), commit |-> x.c.commit,
                             flush |-> x.c.flush, gnt |-> x.gnt]
  BY <1>1 DEF storeBufferIn
<1>5. v \in BOOLEAN
  OBVIOUS
<1> HIDE DEF v
<1>6. /\ storeBufferIn(x, s).valid = v /\ storeBufferIn(x, s).st = StoreOf(sur.tid, sur.instr)
      /\ storeBufferIn(x, s).commit = x.c.commit /\ storeBufferIn(x, s).flush = x.c.flush
      /\ storeBufferIn(x, s).gnt = x.gnt
  BY <1>4
<1>7. storeBufferIn(x, s) \in SBP!Input
  BY <1>1, <1>2, <1>3, <1>4, <1>5 DEF SBP!Input, Decided
<1> QED BY <1>6, <1>7 DEF v

\* The instruction that is handed to its functional unit.
Handed(x, a) ==
    /\ req' \in Request
    /\ req'.valid => /\ ~x.c.flush /\ a = {req'.instr} /\ req'.tid = sb.ip /\ ~req'.instr.ex
                     /\ memop(req'.instr) => bypass.cnt = 0

LEMMA HandedStep ==
    ASSUME TypeOK, NEW x, NEW l, NEW s, NEW a, Step(x, l, s, a)
    PROVE  Handed(x, a)
<1>1. s.flush = x.c.flush /\ sb.ip \in TransId
  BY CommitStep
<1>2. CASE sendsOf(a) = {} \/ s.flush
  <2>1. req' = Null
    BY <1>2 DEF Step
  <2> QED BY <2>1, NullFacts DEF Handed
<1>3. CASE sendsOf(a) # {} /\ ~s.flush
  <2>1. PICK i \in issuable(s.flush) : a = {i}
    BY <1>3 DEF Step, sendsOf
  <2>2. i \in Instr /\ (memop(i) /\ ~i.ex => bypass.cnt = 0)
    BY DEF issuable, Instr, TypeOK, memop, lsu_ready_o
  <2>3. ~i.ex /\ sendsOf(a) = {i}
    BY <1>3, <2>1 DEF sendsOf
  <2>4. (CHOOSE j \in sendsOf(a) : TRUE) = i
    BY <2>3
  <2>5. req' = [valid |-> TRUE, tid |-> sb.ip, instr |-> i]
    BY <1>3, <2>4 DEF Step
  <2> QED BY <1>1, <1>3, <2>1, <2>2, <2>3, <2>5 DEF Handed, Request
<1> QED BY <1>2, <1>3

\* A cycle leaves values of their types in the registers.
LEMMA TypeStep ==
    ASSUME TypeOK, Ring, NEW x, NEW l, NEW s, NEW a, Step(x, l, s, a)
    PROVE  TypeOK'
<1>1. sb' \in SCB!SB
  BY SbStep
<1>2. prog' \in Program
  BY DEF Step, TypeOK
<1>3. req' \in Request
  BY HandedStep DEF Handed
<1>4. sur' \in Request
  BY NullFacts, HeadFacts DEF Step
<1>5. bypass' \in [mem : [{0, 1} -> Request], rp : {0, 1}, wp : {0, 1}, cnt : 0 .. 3]
  BY QueueStep DEF Queue
<1>6. ld' \in LoadState
  <2>1. ld' = load_next(ld, l) /\ ld \in LoadState
    BY DEF Step, TypeOK
  <2>2. afterRequest(l) \in LoadState
    BY DEF afterRequest, LoadState
  <2> QED BY <2>1, <2>2 DEF load_next, LoadState, afterFlush
<1>7. dc' \in CtrlState
  <2>1. dc' = ctrl_next(dc, data_req_o(ld, l), kill_req_o(ld, l), tag_valid, x.ev) /\ dc \in CtrlState
    BY DEF Step, TypeOK
  <2> QED BY <2>1 DEF ctrl_next, CtrlState
<1>8. su' \in StoreState
  <2>1. su' = store_next(su, s) /\ su \in StoreState
    BY DEF Step, TypeOK
  <2> QED BY <2>1 DEF store_next, StoreState, afterTake
<1>9. head.tid \in TransId /\ ldd.tid \in TransId /\ ldd.live \in BOOLEAN /\ 0 \in TransId
  BY HeadFacts, SizeAssumption DEF Request, TypeOK, TransId
<1>10. ldd' \in [tid : TransId, live : BOOLEAN]
  <2>1. ldd' = ldd_next(l) /\ ldd \in [tid : TransId, live : BOOLEAN]
    BY DEF Step, TypeOK
  <2>2. l.flush \in BOOLEAN
    BY CommitStep DEF Decided
  <2> QED BY <1>9, <2>1, <2>2 DEF ldd_next
<1>11. ldpipe' \in [valid : BOOLEAN, tid : TransId, ex : BOOLEAN, live : BOOLEAN]
  <2> DEFINE out == rvalid_output(ld, l)
             t == CASE out = "none" -> 0 [] out = "head_ex" -> head.tid [] OTHER -> ldd.tid
             v == /\ out # "none" /\ ~l.flush
                  /\ out \in {"data", "ex"} => ldd.live
  <2>1. ldpipe' = [valid |-> out # "none", tid |-> t, ex |-> out \in {"ex", "head_ex"}, live |-> v]
    BY Zenon DEF Step, ldpipe_next
  <2> HIDE DEF out
  <2>2. t \in TransId /\ v \in BOOLEAN
    BY <1>9
  <2> HIDE DEF t, v
  <2> QED BY <2>1, <2>2
<1>12. amo' \in SUBSET TransId
  <2>1. sur.tid \in TransId /\ amo \subseteq TransId
    BY DEF TypeOK, Request
  <2> QED BY <2>1 DEF Step, amo_next
<1>13. spec' \in STB!Ring(DEPTH_SPEC) /\ comm' \in STB!Ring(DEPTH_COMMIT)
  <2>1. spec' = SBP!core_if(spec, storeBufferIn(x, s)) /\ comm' = SBP!store_if(spec, comm, storeBufferIn(x, s))
    BY SameStoreBuffer DEF Step
  <2>2. spec \in SBP!Ring(DEPTH_SPEC) /\ comm \in SBP!Ring(DEPTH_COMMIT) /\ storeBufferIn(x, s) \in SBP!Input
    BY SameStoreBuffer, BufferInput DEF TypeOK
  <2>3. spec' \in SBP!Ring(DEPTH_SPEC)
    BY <2>1, <2>2, SameStoreBuffer, SBP!CoreIfType
  <2>4. comm' \in SBP!Ring(DEPTH_COMMIT)
    BY <2>1, <2>2, SameStoreBuffer, SBP!StoreIfType
  <2> QED BY <2>3, <2>4, SameStoreBuffer
<1>14. mmu' \in [fault : BOOLEAN, tlb : {"unknown", "walk", "present"}]
  <2> DEFINE p == pop_ld_o(ld, l) \/ pop_st_o(su, s)
             f == /\ translation_req(l, s)
                  /\ data_misaligned(head.instr) \/ (head.instr.fault = "page" /\ x.hit)
             w == IF p \/ s.flush \/ x.walk = "error" THEN "unknown"
                  ELSE IF x.walk = "ok" THEN "present"
                  ELSE IF mmu.tlb = "unknown" /\ translation_req(l, s)
                       THEN (IF x.hit THEN "present" ELSE "walk")
                  ELSE mmu.tlb
  <2>1. mmu' = [fault |-> f, tlb |-> w]
    BY Zenon DEF Step, mmu_next
  <2>2. mmu.tlb \in {"unknown", "walk", "present"}
    BY DEF TypeOK
  <2>3. f \in BOOLEAN
    OBVIOUS
  <2>4. w \in {"unknown", "walk", "present"}
    BY <2>2
  <2> HIDE DEF f, w
  <2> QED BY <2>1, <2>3, <2>4
<1>15. dbg' \in BOOLEAN
  BY DEF Step
<1> QED BY <1>1, <1>2, <1>3, <1>4, <1>5, <1>6, <1>7, <1>8, <1>10, <1>11, <1>12, <1>13, <1>14, <1>15 DEF TypeOK

-----------------------------------------------------------------------------
(* The load unit and the cache.                                            *)

\* Which unit works on the head of the queue.
Heads(l, s) ==
    /\ l.valid <=> head.valid /\ isLoad(head.instr)
    /\ s.valid <=> head.valid /\ isStore(head.instr)
    /\ ~(l.valid /\ s.valid)
    /\ ld \in LdBusy => l.valid /\ bypass.cnt \in {1, 2}
    /\ su \in SuWait => head = sur /\ s.valid /\ bypass.cnt \in {1, 2}
    /\ pop_ld_o(ld, l) => l.valid
    /\ pop_st_o(su, s) => s.valid \/ (su # "IDLE" /\ s.ex)
    /\ pop_st_o(su, s) /\ l.valid => su = "VALID_STORE" /\ s.ex
    /\ s.flush = l.flush /\ s.ex = l.ex /\ s.hit = l.hit /\ s.ex \in BOOLEAN /\ s.flush \in BOOLEAN
    /\ l.hit \in BOOLEAN /\ l.stall_ni \in BOOLEAN /\ l.gnt \in BOOLEAN /\ l.rvalid \in BOOLEAN
    /\ s.st_ready \in BOOLEAN /\ s.amo \in BOOLEAN /\ l.matches \in BOOLEAN

LEMMA HeadStep ==
    ASSUME TypeOK, Shape, Held, NEW x, NEW l, NEW s, NEW a, Step(x, l, s, a)
    PROVE  Heads(l, s)
<1>1. Wired(x, l, s) /\ Inputs(x)
  BY WireFacts
<1>2. Decided(x.c)
  BY CommitStep
<1>3. /\ head \in Request
      /\ bypass.cnt # 0 => head = place(bypass.rp)
      /\ bypass.cnt \in 0 .. 3
  BY HeadFacts
<1>4. head.valid \in BOOLEAN /\ head.instr \in Instr
  BY <1>3 DEF Request
<1>5. /\ l.valid <=> head.valid /\ isLoad(head.instr)
      /\ s.valid <=> head.valid /\ isStore(head.instr)
      /\ ~(isLoad(head.instr) /\ isStore(head.instr))
  BY <1>1 DEF Wired, isLoad, isStore
<1>6. ld \in LdBusy => l.valid /\ bypass.cnt \in {1, 2}
  BY <1>3, <1>5 DEF Shape
<1>7. su \in SuWait => head = sur /\ s.valid /\ bypass.cnt \in {1, 2}
  BY <1>3, <1>5 DEF Shape, Held, SuWait
<1>8. /\ s.flush = l.flush /\ s.ex = l.ex /\ s.hit = l.hit /\ s.ex \in BOOLEAN /\ s.flush \in BOOLEAN
      /\ l.hit \in BOOLEAN /\ l.stall_ni \in BOOLEAN /\ l.gnt \in BOOLEAN /\ l.rvalid \in BOOLEAN
      /\ s.st_ready \in BOOLEAN /\ s.amo \in BOOLEAN /\ l.matches \in BOOLEAN
  BY <1>1, <1>2 DEF Wired, Inputs, Decided, mmu_ex, stall_ni, ctrl_gnt, ctrl_rvalid, is_amo, page_offset_matches,
     STB!page_offset_matches_o
<1>9. pop_ld_o(ld, l) => l.valid
  BY <1>6 DEF pop_ld_o, data_req_o, mayRequest, trapped, LdBusy
<1>10. pop_st_o(su, s) => s.valid \/ (su # "IDLE" /\ s.ex)
  BY DEF pop_st_o, taken, trap
<1>11. pop_st_o(su, s) /\ l.valid => su = "VALID_STORE" /\ s.ex
  <2>1. su \in StoreState
    BY DEF TypeOK
  <2> QED BY <1>5, <1>7, <1>10, <2>1 DEF StoreState, SuWait
<1> QED BY <1>5, <1>6, <1>7, <1>8, <1>9, <1>10, <1>11 DEF Heads

\* Load unit and cache in a cycle.
LEMMA LoadProtocolStep ==
    ASSUME TypeOK, LoadProtocol, Shape, Held, NEW x, NEW l, NEW s, NEW a, Step(x, l, s, a)
    PROVE  LoadProtocol'
<1> DEFINE r == data_req_o(ld, l)
           k == kill_req_o(ld, l)
           pop == pop_ld_o(ld, l)
<1>1. Wired(x, l, s) /\ Heads(l, s) /\ Inputs(x)
  BY WireFacts, HeadStep
<1>2. /\ ld \in LoadState /\ dc \in CtrlState /\ ldd.live \in BOOLEAN
      /\ ld' = load_next(ld, l) /\ dc' = ctrl_next(dc, r, k, tag_valid, x.ev)
      /\ l.gnt = ctrl_gnt(dc, r, k, tag_valid, x.ev) /\ l.rvalid = ctrl_rvalid(dc, k, tag_valid, x.ev)
  BY <1>1 DEF TypeOK, Step, Wired
<1>3. ldd'.live = IF pop /\ ~l.ex THEN ~l.flush ELSE ldd.live /\ ~l.flush /\ ~l.rvalid
  <2>1. ldd' = ldd_next(l) /\ ldd \in [tid : TransId, live : BOOLEAN]
    BY DEF Step, TypeOK
  <2>2. CASE pop /\ ~l.ex
    BY <2>1, <2>2 DEF ldd_next, save_load_data
  <2>3. CASE ~(pop /\ ~l.ex)
    BY <2>1, <2>3 DEF ldd_next, save_load_data
  <2> QED BY <2>2, <2>3
<1>4. /\ r <=> (l.valid /\ ld \in {"IDLE", "SEND_TAG"} /\ ~l.matches) \/ ld = "WAIT_GNT"
      /\ k <=> ld \in {"ABORT_TRANSACTION", "ABORT_TRANSACTION_NI", "WAIT_FLUSH"} \/ (ld = "SEND_TAG" /\ l.ex)
      /\ pop <=> (r /\ l.gnt /\ l.hit /\ ~l.stall_ni) \/ (l.ex /\ l.valid /\ ~l.rvalid)
      /\ r \in BOOLEAN /\ k \in BOOLEAN
  BY DEF data_req_o, mayRequest, kill_req_o, pop_ld_o, trapped
<1>5. tag_valid <=> ld \in {"SEND_TAG", "ABORT_TRANSACTION", "ABORT_TRANSACTION_NI", "WAIT_FLUSH"}
  BY DEF tag_valid
<1>6. /\ l.flush \in BOOLEAN /\ l.ex \in BOOLEAN /\ l.hit \in BOOLEAN /\ l.stall_ni \in BOOLEAN /\ l.gnt \in BOOLEAN
      /\ l.rvalid \in BOOLEAN /\ (ld = "WAIT_GNT" => l.valid)
  BY <1>1 DEF Heads, LdBusy
<1> DEFINE ar == afterRequest(l)
<1>7. /\ ~l.gnt => ar = "WAIT_GNT"
      /\ l.gnt /\ ~l.hit => ar = "ABORT_TRANSACTION"
      /\ l.gnt /\ l.hit /\ l.stall_ni => ar = "ABORT_TRANSACTION_NI"
      /\ l.gnt /\ l.hit /\ ~l.stall_ni => ar = "SEND_TAG"
  BY <1>6 DEF afterRequest
<1>8. /\ l.flush => ld' = "WAIT_FLUSH"
      /\ ~l.flush /\ l.ex /\ l.valid => ld' = "IDLE"
      /\ ~l.flush /\ ~(l.ex /\ l.valid) =>
            /\ r => ld' = ar
            /\ ~r => /\ ld \in {"IDLE", "SEND_TAG"} => ld' \in {"IDLE", "WAIT_PAGE_OFFSET"}
                     /\ ld = "WAIT_PAGE_OFFSET" => ld' \in {"WAIT_PAGE_OFFSET", "WAIT_GNT"}
                     /\ ld' \notin {"SEND_TAG", "ABORT_TRANSACTION", "ABORT_TRANSACTION_NI"}
  <2> HIDE DEF r, ar
  <2>1. mayRequest(ld, l) <=> l.valid /\ ld \in {"IDLE", "SEND_TAG"} /\ ~l.matches
    BY DEF mayRequest
  <2>2. trapped(l) <=> l.ex /\ l.valid
    BY DEF trapped
  <2> QED BY <1>2, <1>4, <1>6, <2>1, <2>2 DEF load_next, afterFlush, LoadState, ar
<1> HIDE DEF r, k, pop, ar
<1>9. l.gnt => r /\ dc' = "READ" /\ (dc = "IDLE" \/ (~k /\ l.rvalid))
  BY <1>2 DEF ctrl_gnt, ctrl_next, ctrl_rvalid, looksUp
<1>10. (l.ex /\ l.valid) \/ ld' # "SEND_TAG" \/ (dc' = "READ" /\ ldd'.live)
  BY <1>3, <1>4, <1>6, <1>7, <1>8, <1>9
<1>11. ld' = "SEND_TAG" => dc' = "READ" /\ ldd'.live
  BY <1>6, <1>8, <1>10
<1>12. ld' \in {"ABORT_TRANSACTION", "ABORT_TRANSACTION_NI"} => dc' = "READ"
  BY <1>6, <1>7, <1>8, <1>9
<1>13. ldd'.live => \/ ld' = "SEND_TAG" /\ dc' = "READ"
                    \/ dc' \in Looking /\ ld' \in {"IDLE", "WAIT_GNT", "WAIT_PAGE_OFFSET"}
  <2>1. SUFFICES ASSUME ldd'.live
                 PROVE  \/ ld' = "SEND_TAG" /\ dc' = "READ"
                        \/ dc' \in Looking /\ ld' \in {"IDLE", "WAIT_GNT", "WAIT_PAGE_OFFSET"}
    OBVIOUS
  <2>2. CASE pop /\ ~l.ex
    <3>1. ~l.flush /\ r /\ l.gnt /\ l.hit /\ ~l.stall_ni
      BY <1>3, <1>4, <2>1, <2>2
    <3> QED BY <1>7, <1>8, <1>9, <2>2, <3>1
  <2>3. CASE ~(pop /\ ~l.ex)
    <3>1. ldd.live /\ ~l.flush /\ ~l.rvalid
      BY <1>3, <2>1, <2>3
    <3>2. CASE ld = "SEND_TAG" /\ dc = "READ"
      <4>1. ~k /\ tag_valid /\ x.ev \notin {"hit", "hit_ack"}
        BY <1>2, <1>4, <1>5, <3>1, <3>2 DEF ctrl_rvalid, looksUp
      <4>2. dc' \in {"REPLAY_REQ", "MISS_REQ"}
        BY <1>2, <3>2, <4>1 DEF ctrl_next, looksUp
      <4>3. ~l.gnt
        BY <1>9, <4>2
      <4> QED BY <1>6, <1>7, <1>8, <3>1, <3>2, <4>2, <4>3 DEF Looking
    <3>3. CASE dc \in Looking /\ ld \in {"IDLE", "WAIT_GNT", "WAIT_PAGE_OFFSET"}
      <4>1. ~k /\ ~l.gnt
        BY <1>4, <1>9, <3>1, <3>3 DEF Looking
      <4>2. dc' \in Looking
        BY <1>2, <3>1, <3>3, <4>1 DEF ctrl_next, ctrl_rvalid, looksUp, Looking
      <4> QED BY <1>4, <1>6, <1>7, <1>8, <3>1, <3>3, <4>1, <4>2
    <3> QED BY <3>1, <3>2, <3>3 DEF LoadProtocol
  <2> QED BY <2>2, <2>3
<1>14. dc' \in Looking => ldd'.live \/ ld' = "WAIT_FLUSH"
  <2>1. SUFFICES ASSUME dc' \in Looking, ~l.flush, ~(pop /\ ~l.ex)
                 PROVE  ldd'.live
    BY <1>3, <1>6, <1>8
  <2>2. ldd.live
    <3>1. CASE dc \in Looking
      <4>1. ld = "WAIT_FLUSH" => dc' \notin Looking
        BY <1>2, <1>4, <3>1 DEF ctrl_next, Looking
      <4> QED BY <2>1, <3>1, <4>1 DEF LoadProtocol
    <3>2. CASE dc \notin Looking
      <4>1. dc = "READ" /\ ~k /\ tag_valid
        BY <1>2, <2>1, <3>2 DEF ctrl_next, Looking, looksUp, CtrlState
      <4> QED BY <1>4, <1>5, <4>1 DEF LoadProtocol
    <3> QED BY <3>1, <3>2
  <2>3. ~l.rvalid
    BY <1>2, <2>1 DEF ctrl_rvalid, ctrl_next, looksUp, Looking, CtrlState
  <2> QED BY <1>3, <2>1, <2>2, <2>3
<1> QED BY <1>11, <1>12, <1>13, <1>14 DEF LoadProtocol, Looking

\* The exception of the decoder is kept.
LEMMA MarkedStep ==
    ASSUME TypeOK, Ring, Marked, NEW x, NEW l, NEW s, NEW a, Step(x, l, s, a)
    PROVE  Marked'
<1> SUFFICES ASSUME NEW t \in TransId, sb'.mem[t].issued, sb'.mem[t].instr.ex
             PROVE  sb'.mem[t].ex /\ sb'.mem[t].valid
  BY DEF Marked, entry
<1>1. Fate(x, s, a, t)
  BY SbStep
<1>2. CASE kept(x, t)
  BY <1>1, <1>2 DEF Fate, kept, Marked
<1>3. CASE filled(x, a, t)
  <2>1. PICK i \in a : sb'.mem[t] = [issued |-> TRUE, valid |-> i.ex, ex |-> i.ex, instr |-> i]
    BY <1>1, <1>3 DEF Fate
  <2> QED BY <2>1
<1> QED BY <1>1, <1>2, <1>3 DEF Fate

\* The register behind the load unit gets the result of the outstanding load or
\* the exception of the load at the head.
Piped(l) ==
    /\ ldpipe'.valid /\ ~ldpipe'.live => l.flush
    /\ ldpipe'.live => ldpipe'.valid
    /\ ldpipe'.live => ~l.flush
    /\ ldpipe'.live => \/ /\ l.valid /\ l.ex /\ ~l.rvalid
                          /\ ldpipe'.tid = head.tid /\ ldpipe'.ex
                       \/ /\ ldd.live /\ l.rvalid /\ ldpipe'.tid = ldd.tid
                          /\ ldpipe'.ex <=> l.ex /\ ld = "SEND_TAG"

LEMMA PipeStep ==
    ASSUME TypeOK, LoadProtocol, Shape, Held, NEW x, NEW l, NEW s, NEW a, Step(x, l, s, a)
    PROVE  Piped(l)
<1> DEFINE out == rvalid_output(ld, l)
           t == CASE out = "none" -> 0 [] out = "head_ex" -> head.tid [] OTHER -> ldd.tid
           v == /\ out # "none" /\ ~l.flush
                /\ out \in {"data", "ex"} => ldd.live
<1>1. ldpipe' = [valid |-> out # "none", tid |-> t, ex |-> out \in {"ex", "head_ex"}, live |-> v]
  BY Zenon DEF Step, ldpipe_next
<1>2. Wired(x, l, s) /\ Heads(l, s)
  BY WireFacts, HeadStep
<1> DEFINE k == kill_req_o(ld, l)
<1>3. /\ l.rvalid = ctrl_rvalid(dc, k, tag_valid, x.ev) /\ l.rvalid \in BOOLEAN
      /\ l.ex \in BOOLEAN /\ l.flush \in BOOLEAN /\ ld \in LoadState /\ dc \in CtrlState
  BY <1>2 DEF Wired, Heads, TypeOK
<1>4. k <=> ld \in {"ABORT_TRANSACTION", "ABORT_TRANSACTION_NI", "WAIT_FLUSH"} \/ (ld = "SEND_TAG" /\ l.ex)
  BY DEF kill_req_o
<1> HIDE DEF k
<1>5. out \in {"none", "data", "ex", "head_ex"}
  BY DEF rvalid_output
<1>6. out = "head_ex" <=> l.valid /\ l.ex /\ ~l.rvalid
  BY DEF rvalid_output
<1>7. out = "ex" => l.rvalid /\ l.ex /\ ld = "SEND_TAG"
  BY <1>3 DEF rvalid_output
<1>8. out = "data" => l.rvalid /\ ~k /\ ld # "WAIT_FLUSH" /\ ~(l.ex /\ ld = "SEND_TAG")
  BY <1>3, <1>4 DEF rvalid_output, k
<1> HIDE DEF out
<1>9. out \in {"data", "ex"} => ldd.live
  <2>1. out = "ex" => ldd.live
    BY <1>7 DEF LoadProtocol
  <2>2. ASSUME out = "data" PROVE ldd.live
    <3>1. (dc = "READ" /\ tag_valid) \/ dc \in {"REPLAY_READ", "MISS_WAIT"}
      BY <1>3, <1>8, <2>2 DEF ctrl_rvalid, looksUp
    <3>2. CASE dc \in {"REPLAY_READ", "MISS_WAIT"}
      BY <1>8, <2>2, <3>2 DEF LoadProtocol, Looking
    <3>3. CASE tag_valid
      BY <1>4, <1>8, <2>2, <3>3 DEF LoadProtocol, tag_valid
    <3> QED BY <3>1, <3>2, <3>3
  <2> QED BY <2>1, <2>2
<1>10. v <=> out # "none" /\ ~l.flush
  BY <1>9
<1>11. /\ out = "head_ex" => t = head.tid
       /\ out \in {"data", "ex"} => t = ldd.tid
  OBVIOUS
<1> HIDE DEF v, t
<1>12. ldpipe'.valid = (out # "none") /\ ldpipe'.tid = t /\ ldpipe'.ex = (out \in {"ex", "head_ex"}) /\ ldpipe'.live = v
  BY <1>1
<1>13. v \in BOOLEAN
  BY DEF v
<1> QED BY <1>3, <1>5, <1>6, <1>7, <1>8, <1>9, <1>10, <1>11, <1>12, <1>13 DEF Piped

\* The load whose data is outstanding is the one that was sent to the cache last.
Outstanding(l) ==
    ldd'.live =>
       /\ ~l.flush
       /\ \/ /\ pop_ld_o(ld, l) /\ ~l.ex /\ l.valid /\ l.hit /\ ~l.stall_ni /\ l.gnt /\ data_req_o(ld, l)
             /\ ldd'.tid = head.tid /\ ld' = "SEND_TAG"
          \/ /\ ldd.live /\ ~l.rvalid /\ ldd'.tid = ldd.tid /\ ~(pop_ld_o(ld, l) /\ ~l.ex)
             /\ ld' # "SEND_TAG"

LEMMA OutstandingStep ==
    ASSUME TypeOK, LoadProtocol, Shape, Held, NEW x, NEW l, NEW s, NEW a, Step(x, l, s, a)
    PROVE  Outstanding(l)
<1>1. Heads(l, s)
  BY HeadStep
<1>2. ldd' = ldd_next(l) /\ ldd \in [tid : TransId, live : BOOLEAN] /\ ld' = load_next(ld, l) /\ ld \in LoadState
  BY DEF Step, TypeOK
<1>3. /\ l.flush \in BOOLEAN /\ l.gnt \in BOOLEAN /\ l.hit \in BOOLEAN /\ l.stall_ni \in BOOLEAN
      /\ pop_ld_o(ld, l) => l.valid
      /\ ld = "WAIT_GNT" => l.valid
  BY <1>1 DEF Heads, LdBusy
<1>4. CASE pop_ld_o(ld, l) /\ ~l.ex
  <2>1. ldd' = [tid |-> head.tid, live |-> ~l.flush]
    BY <1>2, <1>4 DEF ldd_next, save_load_data
  <2>2. l.valid /\ l.hit /\ ~l.stall_ni /\ l.gnt /\ data_req_o(ld, l)
    BY <1>3, <1>4 DEF pop_ld_o, trapped
  <2>3. afterRequest(l) = "SEND_TAG"
    BY <2>2 DEF afterRequest
  <2>4. ~l.flush => ld' = "SEND_TAG"
    BY <1>2, <1>4, <2>2, <2>3 DEF load_next, trapped, data_req_o, mayRequest
  <2> QED BY <1>3, <1>4, <2>1, <2>2, <2>4 DEF Outstanding
<1>5. CASE ~(pop_ld_o(ld, l) /\ ~l.ex)
  <2>1. ldd' = [ldd EXCEPT !.live = @ /\ ~l.flush /\ ~l.rvalid]
    BY <1>2, <1>5 DEF ldd_next, save_load_data
  <2>2. ldd'.tid = ldd.tid /\ (ldd'.live => ldd.live /\ ~l.flush /\ ~l.rvalid)
    BY <1>2, <2>1
  <2>3. ~l.flush => ld' # "SEND_TAG"
    <3>1. SUFFICES ASSUME ~l.flush, ld' = "SEND_TAG"
                   PROVE  FALSE
      OBVIOUS
    <3>2. ~trapped(l)
      BY <1>2, <3>1 DEF load_next
    <3>3. data_req_o(ld, l) /\ afterRequest(l) = "SEND_TAG"
      BY <1>2, <3>1, <3>2 DEF load_next, data_req_o, LoadState
    <3>4. l.gnt /\ l.hit /\ ~l.stall_ni
      BY <1>3, <3>3 DEF afterRequest
    <3>5. pop_ld_o(ld, l)
      BY <3>3, <3>4 DEF pop_ld_o
    <3> QED BY <1>3, <1>5, <3>2, <3>5 DEF trapped
  <2> QED BY <1>5, <2>2, <2>3 DEF Outstanding
<1> QED BY <1>4, <1>5

\* Late reports find an empty scoreboard.
LEMMA FlushingStep ==
    ASSUME TypeOK, Ring, LoadProtocol, Shape, Held, NEW x, NEW l, NEW s, NEW a, Step(x, l, s, a)
    PROVE  Flushing'
<1>1. Piped(l)
  BY PipeStep
<1>2. l.flush => sb'.cnt = 0
  BY SbStep, CommitStep
<1>3. ld' = "WAIT_FLUSH" => l.flush
  <2>1. ld' = load_next(ld, l) /\ ld \in LoadState
    BY DEF Step, TypeOK
  <2>2. afterRequest(l) # "WAIT_FLUSH"
    <3>1. l.gnt \in BOOLEAN /\ l.hit \in BOOLEAN
      BY HeadStep DEF Heads
    <3> QED BY <3>1 DEF afterRequest
  <2> QED BY <2>1, <2>2 DEF load_next, LoadState
<1> QED BY <1>1, <1>2, <1>3 DEF Piped, Flushing

-----------------------------------------------------------------------------
(* The queue and the store unit.                                           *)

\* What leaves the queue and what stays, by the next states of the units.
Works(l, s) ==
    /\ su' \in SuWait => ~pop_st_o(su, s) /\ s.valid /\ sur' = head
    /\ su' = "VALID_STORE" => /\ taken(su, s) /\ s.hit /\ s.st_ready /\ ~trap(su, s)
                              /\ pop_st_o(su, s) /\ s.valid /\ sur' = head
    /\ su' = "IDLE" => sur' = Null
    /\ su' # "IDLE" => sur' = head
    /\ ld' \in LdBusy => l.valid /\ ~pop_ld_o(ld, l) /\ ~l.ex
    /\ su' # "IDLE" => ~pop_ld_o(ld, l)
    /\ ~l.valid => ld' = "IDLE"
    /\ l.valid /\ l.ex => ld' = "IDLE"

LEMMA WorkStep ==
    ASSUME TypeOK, Shape, Held, NEW x, NEW l, NEW s, NEW a, Step(x, l, s, a), ~s.flush
    PROVE  Works(l, s)
<1>1. Heads(l, s)
  BY HeadStep
<1>2. su \in StoreState /\ ld \in LoadState /\ su' = store_next(su, s) /\ ld' = load_next(ld, l)
  BY DEF TypeOK, Step
<1>3. su' = "IDLE" => sur' = Null
  BY <1>2 DEF Step
<1>4. su' # "IDLE" => sur' = head
  BY <1>2 DEF Step
<1>5. /\ su' \in SuWait => ~pop_st_o(su, s) /\ s.valid
      /\ su' = "VALID_STORE" => taken(su, s) /\ s.hit /\ s.st_ready /\ ~trap(su, s) /\ pop_st_o(su, s) /\ s.valid
  <2>1. CASE trap(su, s)
    BY <1>2, <2>1 DEF store_next, SuWait
  <2>2. CASE ~trap(su, s) /\ taken(su, s)
    <3>1. su' = afterTake(s) /\ s.valid
      BY <1>2, <2>2 DEF store_next, taken
    <3>2. su' \in SuWait => ~(s.hit /\ s.st_ready)
      BY <3>1 DEF afterTake, SuWait
    <3>3. su' = "VALID_STORE" => s.hit /\ s.st_ready
      BY <3>1 DEF afterTake
    <3> QED BY <2>2, <3>1, <3>2, <3>3 DEF pop_st_o, SuWait
  <2>3. CASE ~trap(su, s) /\ ~taken(su, s)
    <3>1. su' # "IDLE" => su \in SuWait /\ su' = su
      BY <1>2, <2>3 DEF store_next, StoreState, SuWait
    <3> QED BY <1>1, <2>3, <3>1 DEF Heads, pop_st_o, SuWait
  <2> QED BY <2>1, <2>2, <2>3
<1>6. su' # "IDLE" => ~pop_ld_o(ld, l)
  <2>1. su' # "IDLE" => s.valid
    <3>1. su' \in StoreState
      BY TypeOK, <1>2 DEF store_next, StoreState, afterTake
    <3> QED BY <1>5, <3>1 DEF StoreState, SuWait
  <2> QED BY <1>1, <2>1 DEF Heads
<1>7. ld' \in LdBusy => l.valid /\ ~pop_ld_o(ld, l) /\ ~l.ex
  <2>1. SUFFICES ASSUME ld' \in LdBusy
                 PROVE  l.valid /\ ~pop_ld_o(ld, l) /\ ~l.ex
    OBVIOUS
  <2>2. ~trapped(l) /\ ~l.flush
    BY <1>1, <1>2, <2>1 DEF load_next, LdBusy, afterFlush, Heads
  <2>3. l.valid
    BY <1>1, <1>2, <2>1, <2>2 DEF load_next, LdBusy, LoadState, Heads
  <2>4. ASSUME pop_ld_o(ld, l) PROVE FALSE
    <3>1. data_req_o(ld, l) /\ l.gnt /\ l.hit /\ ~l.stall_ni
      BY <2>2, <2>4 DEF pop_ld_o
    <3>2. afterRequest(l) = "SEND_TAG"
      BY <3>1 DEF afterRequest
    <3> QED BY <1>2, <2>1, <2>2, <2>3, <3>1, <3>2 DEF load_next, data_req_o, mayRequest, LdBusy
  <2> QED BY <2>2, <2>3, <2>4 DEF trapped
<1>8. ~l.valid => ld' = "IDLE"
  <2>1. ~l.valid => ld \in {"IDLE", "SEND_TAG", "WAIT_FLUSH"} /\ ~l.flush
    BY <1>1, <1>2 DEF Heads, LdBusy, LoadState
  <2> QED BY <1>2, <2>1 DEF load_next, trapped
<1>9. l.valid /\ l.ex => ld' = "IDLE"
  BY <1>1, <1>2 DEF load_next, trapped, Heads
<1> QED BY <1>3, <1>4, <1>5, <1>6, <1>7, <1>8, <1>9, Zenon DEF Works, SuWait

\* The counters of the queue without the modulus, and the places.
Counted(l, s) ==
    LET n == IF lsu_req.valid THEN 1 ELSE 0
        p == pops(l, s)
    IN  /\ bypass.rp \in {0, 1} /\ bypass.cnt \in 0 .. 3 /\ p \in 0 .. 2
        /\ bypass.wp = IF bypass.cnt \in {0, 2} THEN bypass.rp ELSE 1 - bypass.rp
        /\ bypass'.rp = IF p = 1 THEN 1 - bypass.rp ELSE bypass.rp
        /\ bypass'.wp = IF lsu_req.valid THEN 1 - bypass.wp ELSE bypass.wp
        /\ bypass'.cnt = CASE bypass.cnt + n - p < 0 -> bypass.cnt + n - p + 4
                           [] bypass.cnt + n - p > 3 -> bypass.cnt + n - p - 4
                           [] OTHER -> bypass.cnt + n - p
        /\ bypass'.wp = (bypass'.rp + bypass'.cnt) % 2
        /\ p > 0 => ~bypass'.mem[bypass.rp].valid
        /\ p = 2 => ~bypass'.mem[0].valid /\ ~bypass'.mem[1].valid
        /\ \A k \in {0, 1} : p = 0 \/ (p = 1 /\ k # bypass.rp) => bypass'.mem[k] = wrote(k)
        /\ \A k \in {0, 1} : bypass'.mem[k].valid => bypass'.mem[k] = wrote(k)
        /\ bypass.cnt = 0 => head = lsu_req
        /\ bypass.cnt # 0 => head = place(bypass.rp)

LEMMA CountStep ==
    ASSUME TypeOK, Shape, Held, NEW x, NEW l, NEW s, NEW a, Step(x, l, s, a), ~s.flush
    PROVE  Counted(l, s)
<1> DEFINE n == IF lsu_req.valid THEN 1 ELSE 0
           p == pops(l, s)
<1>1. Queue(l, s)
  BY QueueStep
<1>2. /\ bypass.rp \in {0, 1} /\ bypass.cnt \in 0 .. 3 /\ p \in 0 .. 2 /\ n \in 0 .. 1
      /\ bypass.wp = (bypass.rp + bypass.cnt) % 2
  BY <1>1, HeadFacts DEF Shape, Queue
<1>3. bypass.wp = IF bypass.cnt \in {0, 2} THEN bypass.rp ELSE 1 - bypass.rp
  <2>1. bypass.cnt = 0 \/ bypass.cnt = 1 \/ bypass.cnt = 2 \/ bypass.cnt = 3
    BY <1>2
  <2> QED BY <1>2, <2>1
<1>4. /\ bypass'.rp = (bypass.rp + p) % 2 /\ bypass'.wp = (bypass.wp + n) % 2
      /\ bypass'.cnt = (bypass.cnt + n + 4 - p) % 4
      /\ \A k \in {0, 1} : /\ p = 2 => bypass'.mem[k] = Null
                           /\ p = 1 /\ k = bypass.rp => bypass'.mem[k] = Invalid(wrote(k))
                           /\ p = 1 /\ k # bypass.rp => bypass'.mem[k] = wrote(k)
                           /\ p = 0 => bypass'.mem[k] = wrote(k)
  BY <1>1 DEF Queue
<1>5. n = IF lsu_req.valid THEN 1 ELSE 0
  OBVIOUS
<1> HIDE DEF n, p
<1>6. bypass'.rp = IF p = 1 THEN 1 - bypass.rp ELSE bypass.rp
  <2>1. p = 0 \/ p = 1 \/ p = 2
    BY <1>2
  <2> QED BY <1>2, <1>4, <2>1
<1>7. bypass'.wp = IF lsu_req.valid THEN 1 - bypass.wp ELSE bypass.wp
  BY <1>2, <1>3, <1>4, <1>5
<1>8. bypass'.cnt = CASE bypass.cnt + n - p < 0 -> bypass.cnt + n - p + 4
                      [] bypass.cnt + n - p > 3 -> bypass.cnt + n - p - 4
                      [] OTHER -> bypass.cnt + n - p
  <2> DEFINE z == bypass.cnt + n - p
  <2>1. z \in -2 .. 4
    BY <1>2
  <2>2. bypass'.cnt = (z + 4) % 4
    BY <1>2, <1>4
  <2> HIDE DEF z
  <2>3. bypass'.cnt = CASE z < 0 -> z + 4 [] z > 3 -> z - 4 [] OTHER -> z
    BY <2>1, <2>2
  <2> QED BY <2>3 DEF z
<1>9. bypass'.wp = (bypass'.rp + bypass'.cnt) % 2
  <2>1. ASSUME NEW r \in {0, 1}, NEW q \in {0, 1}, NEW i \in 0 .. 2, NEW c \in 0 .. 3
        PROVE  (((r + c) % 2) + q) % 2 = (((r + i) % 2) + ((c + q + 4 - i) % 4)) % 2
    <3>1. c = 0 \/ c = 1 \/ c = 2 \/ c = 3
      OBVIOUS
    <3>2. i = 0 \/ i = 1 \/ i = 2
      OBVIOUS
    <3> QED BY <3>1, <3>2
  <2>2. n \in {0, 1}
    BY <1>2
  <2>3. (((bypass.rp + bypass.cnt) % 2) + n) % 2 = (((bypass.rp + p) % 2) + ((bypass.cnt + n + 4 - p) % 4)) % 2
    BY <1>2, <2>1, <2>2, Zenon
  <2>4. bypass'.wp = (((bypass.rp + bypass.cnt) % 2) + n) % 2
    BY <1>2, <1>4
  <2>5. bypass'.rp + bypass'.cnt = ((bypass.rp + p) % 2) + ((bypass.cnt + n + 4 - p) % 4)
    BY <1>4
  <2> QED BY <2>3, <2>4, <2>5
<1>10. \A r \in Request : ~Invalid(r).valid
  BY DEF Invalid, Request
<1>11. \A k \in {0, 1} : wrote(k) \in Request
  BY HeadFacts DEF wrote
<1>12. p > 0 => ~bypass'.mem[bypass.rp].valid
  BY <1>2, <1>4, <1>10, <1>11, NullFacts
<1>13. p = 2 => ~bypass'.mem[0].valid /\ ~bypass'.mem[1].valid
  BY <1>4, NullFacts
<1>14. \A k \in {0, 1} : bypass'.mem[k].valid => bypass'.mem[k] = wrote(k)
  BY <1>2, <1>4, <1>12, <1>13
<1> QED BY <1>2, <1>3, <1>4, <1>6, <1>7, <1>8, <1>9, <1>12, <1>13, <1>14, HeadFacts DEF Counted, n, p

\* The cases of the queue that can and that cannot occur.
Usual(l, s) ==
    /\ l.valid \/ s.valid => bypass.cnt # 3 /\ (bypass.cnt = 0 => lsu_req.valid)
    /\ bypass.cnt = 3 => pops(l, s) = 0
    /\ bypass.cnt = 2 => ~lsu_req.valid
    /\ bypass.cnt = 0 /\ ~lsu_req.valid => ~pop_ld_o(ld, l) /\ pops(l, s) < 2
    /\ bypass.cnt = 0 /\ ~lsu_req.valid /\ pops(l, s) = 1 => su = "VALID_STORE" /\ s.ex
    /\ pops(l, s) = 0 <=> ~pop_ld_o(ld, l) /\ ~pop_st_o(su, s)
    /\ pops(l, s) = 2 <=> pop_ld_o(ld, l) /\ pop_st_o(su, s)
    /\ pops(l, s) = 2 => su = "VALID_STORE" /\ s.ex /\ l.valid
    /\ pops(l, s) = 2 => su' = "IDLE" /\ ld' = "IDLE"
    /\ su' \in SuWait \/ ld' \in LdBusy => pops(l, s) = 0
    /\ su' = "VALID_STORE" => pops(l, s) = 1
    /\ pops(l, s) = 0 /\ (l.valid \/ s.valid) =>
          bypass'.cnt \in {1, 2} /\ bypass'.rp = bypass.rp /\ bypass'.mem[bypass'.rp] = head

LEMMA UsualStep ==
    ASSUME TypeOK, Shape, Held, NEW x, NEW l, NEW s, NEW a, Step(x, l, s, a), ~s.flush
    PROVE  Usual(l, s)
<1>1. Heads(l, s) /\ Works(l, s) /\ Counted(l, s)
  BY HeadStep, WorkStep, CountStep
<1>2. /\ l.valid <=> head.valid /\ isLoad(head.instr)
      /\ s.valid <=> head.valid /\ isStore(head.instr)
      /\ bypass.cnt = 0 => head = lsu_req
      /\ bypass.cnt # 0 => head = place(bypass.rp)
  BY <1>1 DEF Heads, Counted
<1>3. l.valid \/ s.valid => bypass.cnt # 3 /\ (bypass.cnt = 0 => lsu_req.valid)
  BY <1>2 DEF Shape
<1>4. su \in StoreState
  BY DEF TypeOK
<1>5. bypass.cnt = 3 => ~pop_ld_o(ld, l) /\ ~pop_st_o(su, s)
  BY <1>1, <1>3 DEF Heads, Shape
<1>6. bypass.cnt = 2 => ~lsu_req.valid
  BY DEF Shape
<1>7. bypass.cnt = 0 /\ ~lsu_req.valid => ~pop_ld_o(ld, l)
  BY <1>1, <1>3 DEF Heads
<1>8. bypass.cnt = 0 /\ ~lsu_req.valid /\ pop_st_o(su, s) => su = "VALID_STORE" /\ s.ex
  BY <1>1, <1>3, <1>4 DEF Heads, StoreState, SuWait
<1>9. /\ pops(l, s) = 0 <=> ~pop_ld_o(ld, l) /\ ~pop_st_o(su, s)
      /\ pops(l, s) = 2 <=> pop_ld_o(ld, l) /\ pop_st_o(su, s)
      /\ pops(l, s) \in 0 .. 2
  BY DEF pops
<1>10. pops(l, s) = 2 => su = "VALID_STORE" /\ s.ex /\ l.valid
  BY <1>1, <1>9 DEF Heads
<1>11. pops(l, s) = 2 => su' = "IDLE" /\ ld' = "IDLE"
  BY <1>1, <1>9, <1>10 DEF Works, Heads
<1>12. su' \in SuWait \/ ld' \in LdBusy => pops(l, s) = 0
  BY <1>1, <1>9 DEF Works, Heads, SuWait
<1>13. su' = "VALID_STORE" => pops(l, s) = 1
  BY <1>1, <1>9 DEF Works
<1>14. ASSUME pops(l, s) = 0, l.valid \/ s.valid
       PROVE  bypass'.cnt \in {1, 2} /\ bypass'.rp = bypass.rp /\ bypass'.mem[bypass'.rp] = head
  <2>1. bypass.cnt \in {0, 1, 2}
    BY <1>1, <1>3, <1>14 DEF Counted
  <2>2. bypass'.rp = bypass.rp /\ bypass'.mem[bypass.rp] = wrote(bypass.rp)
    BY <1>1, <1>14 DEF Counted
  <2>3. CASE bypass.cnt = 0
    <3>1. lsu_req.valid /\ bypass.wp = bypass.rp
      BY <1>1, <1>3, <1>14, <2>3 DEF Counted
    <3>2. bypass'.cnt = 1
      BY <1>1, <1>14, <2>3, <3>1 DEF Counted
    <3> QED BY <1>2, <2>2, <2>3, <3>1, <3>2 DEF wrote
  <2>4. CASE bypass.cnt = 1
    <3>1. bypass.wp # bypass.rp
      BY <1>1, <2>4 DEF Counted
    <3>2. bypass'.cnt \in {1, 2}
      BY <1>1, <1>14, <2>4 DEF Counted
    <3> QED BY <1>2, <2>2, <2>4, <3>1, <3>2 DEF wrote
  <2>5. CASE bypass.cnt = 2
    <3>1. bypass'.cnt = 2
      BY <1>1, <1>6, <1>14, <2>5 DEF Counted
    <3> QED BY <1>2, <1>6, <2>2, <2>5, <3>1 DEF wrote
  <2> QED BY <2>1, <2>3, <2>4, <2>5
<1>15. bypass.cnt = 0 /\ ~lsu_req.valid => pops(l, s) < 2
  BY <1>7, <1>9
<1>16. bypass.cnt = 0 /\ ~lsu_req.valid /\ pops(l, s) = 1 => pop_st_o(su, s)
  BY <1>7, <1>9
<1> QED BY <1>3, <1>5, <1>6, <1>7, <1>8, <1>9, <1>10, <1>11, <1>12, <1>13, <1>14, <1>15, <1>16 DEF Usual

\* The shape of the queue is kept.
LEMMA ShapeStep ==
    ASSUME TypeOK, Shape, Held, NEW x, NEW l, NEW s, NEW a, Step(x, l, s, a)
    PROVE  Shape'
<1>1. CASE s.flush
  <2>1. Queue(l, s)
    BY QueueStep
  <2>2. su' = "IDLE" /\ ld' = "WAIT_FLUSH"
    <3>1. su' = store_next(su, s) /\ ld' = load_next(ld, l) /\ l.flush
      BY <1>1, HeadStep DEF Step, Heads
    <3> QED BY <1>1, <3>1 DEF store_next, load_next, afterFlush
  <2> QED BY <1>1, <2>1, <2>2 DEF Queue, Shape, LdBusy, SuWait
<1>2. CASE ~s.flush
  <2>1. Usual(l, s) /\ Works(l, s) /\ Counted(l, s) /\ Heads(l, s)
    BY <1>2, UsualStep, WorkStep, CountStep, HeadStep
  <2> DEFINE c == bypass.cnt
             n == IF lsu_req.valid THEN 1 ELSE 0
             p == pops(l, s)
  <2>2. /\ c \in 0 .. 3 /\ n \in 0 .. 1 /\ p \in 0 .. 2 /\ bypass.rp \in {0, 1}
        /\ bypass.wp = IF c \in {0, 2} THEN bypass.rp ELSE 1 - bypass.rp
        /\ bypass'.rp = IF p = 1 THEN 1 - bypass.rp ELSE bypass.rp
        /\ bypass'.cnt = CASE c + n - p < 0 -> c + n - p + 4
                           [] c + n - p > 3 -> c + n - p - 4
                           [] OTHER -> c + n - p
    BY <2>1 DEF Counted
  <2>3. /\ n = 1 <=> lsu_req.valid
        /\ c = 3 => p = 0
        /\ c = 2 => n = 0
        /\ c = 0 /\ n = 0 => p < 2
    BY <2>1 DEF Usual
  <2>4. /\ p > 0 => ~bypass'.mem[bypass.rp].valid
        /\ p = 2 => ~bypass'.mem[0].valid /\ ~bypass'.mem[1].valid
        /\ \A k \in {0, 1} : p = 0 \/ (p = 1 /\ k # bypass.rp) => bypass'.mem[k] = wrote(k)
    BY <2>1 DEF Counted
  <2> HIDE DEF c, n, p
  <2>5. bypass'.cnt = 3 => \/ c = 3 /\ n = 0 /\ p = 0
                           \/ c = 0 /\ n = 0 /\ p = 1
                           \/ p = 2
    BY <2>2, <2>3
  <2>6. bypass'.cnt = 1 => \/ c = 1 /\ n = 0 /\ p = 0
                           \/ c = 0 /\ n = 1 /\ p = 0
                           \/ c = 2 /\ n = 0 /\ p = 1
                           \/ c = 1 /\ n = 1 /\ p = 1
    BY <2>2, <2>3
  <2>7. bypass'.cnt = 2 => \/ c = 2 /\ n = 0 /\ p = 0
                           \/ c = 1 /\ n = 1 /\ p = 0
    BY <2>2, <2>3
  <2>8. ASSUME bypass'.cnt = 3
        PROVE  ~bypass'.mem[bypass'.rp].valid /\ su' = "IDLE" /\ ld' = "IDLE"
    <3>1. CASE c = 3 /\ n = 0 /\ p = 0
      <4>1. ~l.valid /\ ~s.valid /\ su = "IDLE"
        BY <2>1, <3>1 DEF Usual, Shape, c
      <4>2. su' = "IDLE"
        BY <1>2, <4>1 DEF Step, store_next, trap, taken
      <4>3. bypass'.mem[bypass'.rp] = place(bypass.rp)
        BY <2>2, <2>3, <2>4, <3>1 DEF wrote
      <4> QED BY <2>1, <3>1, <4>1, <4>2, <4>3 DEF Works, Shape, c
    <3>2. CASE c = 0 /\ n = 0 /\ p = 1
      <4>1. su = "VALID_STORE" /\ s.ex /\ ~l.valid /\ ~s.valid
        BY <2>1, <2>3, <3>2 DEF Usual, c, p
      <4>2. su' = "IDLE"
        BY <4>1 DEF Step, store_next, trap
      <4>3. bypass'.mem[bypass'.rp] = place(other)
        BY <2>2, <2>3, <2>4, <3>2 DEF wrote, other
      <4> QED BY <2>1, <4>1, <4>2, <4>3 DEF Works, Shape
    <3>3. CASE p = 2
      BY <2>1, <2>2, <2>4, <3>3 DEF Usual, p
    <3> QED BY <2>5, <2>8, <3>1, <3>2, <3>3
  <2>9. bypass'.cnt \in {1, 2} => bypass'.mem[bypass'.rp].valid
    <3>1. CASE c = 1 /\ p = 0
      BY <2>2, <2>3, <2>4, <3>1 DEF wrote, Shape, c
    <3>2. CASE c = 0 /\ n = 1 /\ p = 0
      BY <2>2, <2>3, <2>4, <3>2 DEF wrote
    <3>3. CASE c = 2 /\ n = 0 /\ p = 1
      BY <2>2, <2>3, <2>4, <3>3 DEF wrote, Shape, other, c
    <3>4. CASE c = 1 /\ n = 1 /\ p = 1
      BY <2>2, <2>3, <2>4, <3>4 DEF wrote
    <3>5. CASE c = 2 /\ n = 0 /\ p = 0
      BY <2>2, <2>3, <2>4, <3>5 DEF wrote, Shape, c
    <3> QED BY <2>6, <2>7, <3>1, <3>2, <3>3, <3>4, <3>5
  <2>10. bypass'.cnt = 2 => bypass'.mem[1 - bypass'.rp].valid
    <3>1. CASE c = 2 /\ n = 0 /\ p = 0
      BY <2>2, <2>3, <2>4, <3>1 DEF wrote, Shape, other, c
    <3>2. CASE c = 1 /\ n = 1 /\ p = 0
      BY <2>2, <2>3, <2>4, <3>2 DEF wrote
    <3> QED BY <2>7, <3>1, <3>2
  <2>11. bypass'.cnt = 2 => ~lsu_req'.valid
    <3>1. req' \in Request /\ (req'.valid /\ memop(req'.instr) => c = 0)
      BY HandedStep DEF Handed, c
    <3>2. lsu_req'.valid => req'.valid /\ memop(req'.instr)
      BY <3>1 DEF lsu_req, memop, Request
    <3> QED BY <2>2, <2>7, <3>1, <3>2
  <2>12. ld' \in LdBusy => bypass'.cnt \in {1, 2} /\ isLoad(bypass'.mem[bypass'.rp].instr)
    BY <2>1 DEF Usual, Works, Heads
  <2>13. su' \in SuWait => bypass'.cnt \in {1, 2} /\ sur' = bypass'.mem[bypass'.rp]
    BY <2>1 DEF Usual, Works
  <2>14. su' = "VALID_STORE" => ~bypass'.mem[1 - bypass'.rp].valid
    BY <2>1, <2>2, <2>4 DEF Usual, p
  <2>15. bypass'.wp = (bypass'.rp + bypass'.cnt) % 2
    BY <2>1 DEF Counted
  <2> QED BY <2>8, <2>9, <2>10, <2>11, <2>12, <2>13, <2>14, <2>15 DEF Shape, place, other, isLoad, LdBusy, SuWait
<1> QED BY <1>1, <1>2

-----------------------------------------------------------------------------
(* What is in the unit waits for its result.                               *)

\* A request that the queue holds or takes in.
member(r) == r.valid /\ (r = place(0) \/ r = place(1) \/ r = lsu_req)

\* The entry of t goes on waiting.
staysWaiting(t) ==
    /\ sb'.mem[t].issued /\ ~sb'.mem[t].valid /\ sb'.mem[t].instr = entry(t).instr
    /\ t # sb.ip

LEMMA MemberFacts ==
    ASSUME TypeOK, Held, NEW r, member(r)
    PROVE  /\ r \in Request /\ r.tid \in TransId /\ r.instr \in Instr
           /\ owns(r) /\ memop(r.instr) /\ queued(r.tid)
           /\ ldd.live => ldd.tid # r.tid
           /\ ldpipe.live => ldpipe.tid # r.tid
           /\ su = "VALID_STORE" => sur.tid # r.tid
           /\ req.valid /\ fu(req.instr) = "CSR" => req.tid # r.tid
           /\ \A q : member(q) /\ q.tid = r.tid => q = r
<1>1. /\ lsu_req \in Request /\ lsu_req.tid = req.tid /\ lsu_req.instr = req.instr
      /\ lsu_req.valid <=> req.valid /\ memop(req.instr)
      /\ place(0) \in Request /\ place(1) \in Request
  BY HeadFacts
<1>2. r \in Request /\ r.tid \in TransId /\ r.instr \in Instr
  BY <1>1 DEF member, Request
<1>3. CASE r = lsu_req
  <2>1. req.valid /\ r.tid = req.tid /\ r.instr = req.instr /\ memop(req.instr)
    BY <1>1, <1>3 DEF member
  <2>2. owns(r) /\ ~inPlace(req.tid) /\ queued(r.tid)
    BY <1>1, <1>3, <2>1 DEF Held, owns, queued, member
  <2>3. fu(req.instr) # "CSR"
    BY <2>1 DEF memop, isLoad, isStore
  <2>4. \A q : member(q) /\ q.tid = r.tid => q = r
    BY <1>3, <2>1, <2>2 DEF member, inPlace
  <2> QED BY <1>2, <2>1, <2>2, <2>3, <2>4 DEF Held
<1>4. CASE r = place(0) \/ r = place(1)
  <2>1. inPlace(r.tid) /\ owns(r) /\ memop(r.instr)
    BY <1>4 DEF member, inPlace, Held
  <2>2. req.valid => req.tid # r.tid
    BY <2>1 DEF Held
  <2>3. \A q : member(q) /\ q.tid = r.tid => q = r
    BY <1>1, <1>4, <2>2 DEF member, Held
  <2> QED BY <1>2, <2>1, <2>2, <2>3 DEF Held, queued
<1> QED BY <1>3, <1>4 DEF member

\* The head of the queue, if there is one, is a member.
LEMMA HeadMember ==
    ASSUME TypeOK, Held, head.valid
    PROVE  member(head)
BY HeadFacts DEF member

\* Nobody writes back to an entry whose request stays in the queue.
LEMMA NotWritten ==
    ASSUME TypeOK, Ring, Flushing, Shape, Held, NEW x, NEW l, NEW s, NEW a, Step(x, l, s, a),
           NEW r, member(r), ~(trap(su, s) /\ r.tid = sur.tid)
    PROVE  ~written(s, r.tid)
<1>1. /\ r.tid \in TransId /\ owns(r)
      /\ ldpipe.live => ldpipe.tid # r.tid
      /\ su = "VALID_STORE" => sur.tid # r.tid
      /\ req.valid /\ fu(req.instr) = "CSR" => req.tid # r.tid
  BY MemberFacts
<1>2. entry(r.tid).issued
  BY <1>1 DEF owns, waits
<1>3. sb.cnt # 0
  <2>1. Fate(x, s, a, r.tid)
    BY <1>1, SbStep
  <2>2. sb.cnt \in TransId
    BY CommitStep
  <2> QED BY <1>2, <2>1, <2>2, SizeAssumption DEF Fate, TransId
<1>4. ~(ldpipe.valid /\ ldpipe.tid = r.tid)
  BY <1>1, <1>3 DEF Flushing
<1> QED BY <1>1, <1>4 DEF written, valid_o

\* An entry that waits for a memory access and is not written goes on waiting.
LEMMA WaitStep ==
    ASSUME TypeOK, Ring, NEW x, NEW l, NEW s, NEW a, Step(x, l, s, a), ~s.flush,
           NEW t \in TransId, waits(t), memop(entry(t).instr), ~written(s, t)
    PROVE  staysWaiting(t) /\ kept(x, t)
<1>1. Fate(x, s, a, t)
  BY SbStep
<1>2. ~x.c.flush /\ Decided(x.c) /\ sb.ip \in TransId
  BY CommitStep
<1>3. kept(x, t)
  BY <1>1, <1>2 DEF Fate, kept, waits, Decided
<1>4. fu(entry(t).instr) # "NONE"
  BY DEF memop, isLoad, isStore
<1>5. t # sb.ip
  <2>1. ~sb.mem[sb.ip].issued
    <3>1. SCP!ByIndex(sb) /\ sb.cp0 \in SCP!TransId /\ sb.cnt \in SCP!TransId
      BY CommitStep, SameScoreboard DEF Ring
    <3>2. sb.ip \in SCP!TransId /\ sb.ip = SCP!At(sb.cp0, sb.cnt)
      BY <1>2, <3>1, SameScoreboard DEF SCP!ByIndex
    <3>3. SCP!Dist(sb.cp0, sb.ip) = sb.cnt
      BY <3>1, <3>2, SameScoreboard, SCP!AtDist
    <3>4. sb.cnt \in Nat
      BY <3>1, SameScoreboard, SizeAssumption DEF TransId
    <3> QED BY <3>1, <3>2, <3>3, <3>4 DEF SCP!ByIndex
  <2> QED BY <2>1 DEF waits, entry
<1> QED BY <1>1, <1>3, <1>4, <1>5 DEF staysWaiting, Fate, waits

\* What the queue holds after a cycle was a member before, and neither the request
\* that left nor the store that trapped is among it.
LEMMA QueueMembers ==
    ASSUME TypeOK, Shape, Held, NEW x, NEW l, NEW s, NEW a, Step(x, l, s, a), ~s.flush,
           NEW k \in {0, 1}, bypass'.mem[k].valid
    PROVE  /\ member(bypass'.mem[k])
           /\ bypass'.mem[k] = wrote(k)
           /\ pops(l, s) > 0 /\ head.valid => bypass'.mem[k].tid # head.tid
           /\ trap(su, s) => bypass'.mem[k].tid # sur.tid
<1>1. Counted(l, s) /\ Heads(l, s) /\ Usual(l, s)
  BY CountStep, HeadStep, UsualStep
<1>2. bypass'.mem[k] = wrote(k) /\ ~(pops(l, s) > 0 /\ k = bypass.rp) /\ bypass.rp \in {0, 1}
  BY <1>1 DEF Counted
<1>3. member(bypass'.mem[k])
  BY <1>2 DEF wrote, member
<1>4. ASSUME pops(l, s) > 0, head.valid
      PROVE  bypass'.mem[k].tid # head.tid
  <2>1. member(head)
    BY <1>4, HeadMember
  <2>2. SUFFICES ASSUME bypass'.mem[k] = head
                 PROVE  FALSE
    BY <1>3, <2>1, MemberFacts
  <2>3. k # bypass.rp
    BY <1>2, <1>4
  <2>4. CASE bypass.cnt = 0
    <3>1. head = lsu_req /\ bypass.wp = bypass.rp
      BY <1>1, <2>4 DEF Counted
    <3>2. wrote(k) = place(k)
      BY <2>3, <3>1 DEF wrote
    <3>3. req.valid /\ ~inPlace(req.tid) /\ lsu_req.tid = req.tid
      BY <1>4, <3>1, HeadFacts DEF Held
    <3> QED BY <1>2, <1>4, <2>2, <3>1, <3>2, <3>3 DEF inPlace
  <2>5. CASE bypass.cnt # 0
    <3>1. head = place(bypass.rp)
      BY <1>1, <2>5 DEF Counted
    <3>2. place(bypass.rp).valid /\ inPlace(place(bypass.rp).tid)
      BY <1>2, <1>4, <3>1 DEF inPlace
    <3>3. CASE lsu_req.valid /\ k = bypass.wp
      <4>1. lsu_req.tid = req.tid /\ req.valid
        BY <3>3, HeadFacts
      <4> QED BY <1>2, <2>2, <3>1, <3>2, <3>3, <4>1 DEF wrote, Held
    <3>4. CASE ~(lsu_req.valid /\ k = bypass.wp)
      <4>1. place(k) = place(bypass.rp) /\ place(k).valid
        BY <1>2, <2>2, <3>1, <3>2, <3>4 DEF wrote
      <4>2. (k = 0 /\ bypass.rp = 1) \/ (k = 1 /\ bypass.rp = 0)
        BY <1>2, <2>3
      <4> QED BY <4>1, <4>2 DEF Held
    <3> QED BY <3>3, <3>4
  <2> QED BY <2>4, <2>5
<1>5. ASSUME trap(su, s)
      PROVE  bypass'.mem[k].tid # sur.tid
  <2>1. su \in StoreState /\ su # "IDLE"
    BY <1>5 DEF trap, TypeOK
  <2>2. CASE su = "VALID_STORE"
    BY <1>3, <2>2, MemberFacts
  <2>3. CASE su \in SuWait
    <3>1. head = sur /\ head.valid
      BY <1>1, <2>3 DEF Heads
    <3>2. pops(l, s) > 0
      BY <1>1, <1>5 DEF Usual, Counted, pop_st_o
    <3> QED BY <1>4, <3>1, <3>2
  <2> QED BY <2>1, <2>2, <2>3 DEF StoreState, SuWait
<1> QED BY <1>2, <1>3, <1>4, <1>5

\* The outstanding load and the load in the register behind the unit are not
\* written by anybody else.
LEMMA LoadNotWritten ==
    ASSUME TypeOK, Ring, Flushing, Shape, Held, NEW x, NEW l, NEW s, NEW a, Step(x, l, s, a), ldd.live
    PROVE  /\ ldd.tid \in TransId /\ waits(ldd.tid) /\ memop(entry(ldd.tid).instr)
           /\ ~written(s, ldd.tid)
<1>1. /\ ldd.tid \in TransId /\ waits(ldd.tid) /\ isLoad(entry(ldd.tid).instr)
      /\ req.valid => req.tid # ldd.tid
      /\ ldpipe.live => ldd.tid # ldpipe.tid
  BY DEF TypeOK, Held
<1>2. sb.cnt # 0
  <2>1. Fate(x, s, a, ldd.tid)
    BY <1>1, SbStep
  <2>2. sb.cnt \in TransId
    BY CommitStep
  <2> QED BY <1>1, <2>1, <2>2, SizeAssumption DEF Fate, TransId, waits
<1>3. ~(ldpipe.valid /\ ldpipe.tid = ldd.tid)
  BY <1>1, <1>2 DEF Flushing
<1>4. ~(valid_o(su, s) /\ sur.tid = ldd.tid)
  <2>1. valid_o(su, s) => su # "IDLE"
    BY DEF valid_o, trap
  <2>2. su # "IDLE" => entry(sur.tid).instr = sur.instr /\ isStore(sur.instr)
    BY DEF Held, owns
  <2> QED BY <1>1, <2>1, <2>2 DEF isLoad, isStore
<1> QED BY <1>1, <1>3, <1>4 DEF written, memop

\* What is in the unit after a cycle waits for its result, and is there once.
LEMMA HeldStep ==
    ASSUME TypeOK, Ring, LoadProtocol, Flushing, Shape, Held, NEW x, NEW l, NEW s, NEW a, Step(x, l, s, a)
    PROVE  Held'
<1>1. CASE s.flush
  <2>1. Queue(l, s) /\ Handed(x, a) /\ Piped(l) /\ Outstanding(l) /\ Heads(l, s) /\ s.flush = x.c.flush
    BY QueueStep, HandedStep, PipeStep, OutstandingStep, HeadStep, CommitStep
  <2>2. su' = "IDLE"
    BY <1>1 DEF Step, store_next
  <2>3. sur' = Null
    BY <1>1 DEF Step, store_next
  <2>4. ~req'.valid /\ ~ldd'.live /\ ~ldpipe'.live /\ ~bypass'.mem[0].valid /\ ~bypass'.mem[1].valid
    BY <1>1, <2>1, NullFacts DEF Queue, Handed, Piped, Outstanding, Heads
  <2> QED BY <2>2, <2>3, <2>4, NullFacts DEF Held, place
<1>2. CASE ~s.flush
  <2>1. /\ Handed(x, a) /\ Piped(l) /\ Outstanding(l) /\ Heads(l, s) /\ Works(l, s) /\ Usual(l, s) /\ Counted(l, s)
        /\ ~x.c.flush /\ su \in StoreState /\ su' \in StoreState
    <3>1. su \in StoreState
      BY DEF TypeOK
    <3>2. su' \in StoreState
      BY <3>1 DEF Step, store_next, StoreState, afterTake
    <3> QED BY <1>2, <3>1, <3>2, HandedStep, PipeStep, OutstandingStep, HeadStep, WorkStep, UsualStep, CountStep, CommitStep
  <2> DEFINE Next_(r) == staysWaiting(r.tid) /\ sb'.mem[r.tid].instr = r.instr
  <2>2. ASSUME NEW r, member(r), ~(trap(su, s) /\ r.tid = sur.tid)
        PROVE  Next_(r) /\ r.tid \in TransId
    <3>1. r.tid \in TransId /\ owns(r) /\ memop(r.instr)
      BY <2>2, MemberFacts
    <3>2. ~written(s, r.tid)
      BY <2>2, NotWritten
    <3>3. staysWaiting(r.tid)
      BY <1>2, <3>1, <3>2, WaitStep DEF owns
    <3> QED BY <3>1, <3>3 DEF owns, staysWaiting
  <2>3. ASSUME NEW k \in {0, 1}, bypass'.mem[k].valid
        PROVE  LET r == bypass'.mem[k] IN member(r) /\ Next_(r) /\ memop(r.instr) /\ r.tid # sb.ip
    <3>1. member(bypass'.mem[k]) /\ (trap(su, s) => bypass'.mem[k].tid # sur.tid)
      BY <1>2, <2>3, QueueMembers
    <3>2. memop(bypass'.mem[k].instr)
      BY <3>1, MemberFacts
    <3> QED BY <2>2, <3>1, <3>2 DEF staysWaiting
  <2>4. head.valid => member(head)
    BY HeadMember
  <2>5. l.valid => head.valid /\ Next_(head) /\ isLoad(head.instr) /\ head.tid \in TransId
    <3>1. ASSUME l.valid, trap(su, s), head.tid = sur.tid
          PROVE  FALSE
      <4>1. su = "VALID_STORE"
        BY <2>1, <3>1 DEF Heads, trap, StoreState, SuWait
      <4> QED BY <2>1, <2>4, <3>1, <4>1, MemberFacts DEF Heads
    <3> QED BY <2>1, <2>2, <2>4, <3>1 DEF Heads
  <2>6. ldd.live => staysWaiting(ldd.tid) /\ isLoad(sb'.mem[ldd.tid].instr)
    <3>1. ASSUME ldd.live
          PROVE  staysWaiting(ldd.tid) /\ isLoad(sb'.mem[ldd.tid].instr)
      <4>1. staysWaiting(ldd.tid)
        BY <1>2, <3>1, LoadNotWritten, WaitStep
      <4> QED BY <3>1, <4>1 DEF staysWaiting, Held
    <3> QED BY <3>1
  <2>7. \A k \in {0, 1} : bypass'.mem[k].valid /\ ldd.live => bypass'.mem[k].tid # ldd.tid
    BY <2>3, MemberFacts
  <2>8. \A k \in {0, 1} : bypass'.mem[k].valid /\ head.valid /\ (pop_ld_o(ld, l) \/ pop_st_o(su, s))
                            => bypass'.mem[k].tid # head.tid
    <3>1. pop_ld_o(ld, l) \/ pop_st_o(su, s) => pops(l, s) > 0
      BY DEF pops
    <3> QED BY <1>2, <3>1, QueueMembers
  <2>9. req'.valid => /\ sb'.mem[req'.tid].issued /\ ~sb'.mem[req'.tid].valid
                      /\ sb'.mem[req'.tid].instr = req'.instr /\ req'.tid = sb.ip
    <3>1. SUFFICES ASSUME req'.valid
                   PROVE  /\ sb'.mem[req'.tid].issued /\ ~sb'.mem[req'.tid].valid
                          /\ sb'.mem[req'.tid].instr = req'.instr /\ req'.tid = sb.ip
      OBVIOUS
    <3>2. a = {req'.instr} /\ req'.tid = sb.ip /\ ~req'.instr.ex
      BY <2>1, <3>1 DEF Handed
    <3>3. Fate(x, s, a, sb.ip) /\ filled(x, a, sb.ip)
      BY <2>1, <3>2, SbStep, CommitStep DEF filled
    <3>4. PICK i \in a : sb'.mem[sb.ip] = [issued |-> TRUE, valid |-> i.ex, ex |-> i.ex, instr |-> i]
      BY <3>3 DEF Fate
    <3> QED BY <3>2, <3>4
  <2>10. \A k \in {0, 1} : bypass'.mem[k].valid =>
           /\ owns(bypass.mem[k])' /\ memop(bypass.mem[k].instr)'
    BY <2>3 DEF owns, waits, entry, staysWaiting, memop, isLoad, isStore
  <2>11. ldd'.live => /\ staysWaiting(ldd'.tid) /\ isLoad(sb'.mem[ldd'.tid].instr)
                      /\ \A k \in {0, 1} : bypass'.mem[k].valid => bypass'.mem[k].tid # ldd'.tid
    BY <2>1, <2>5, <2>6, <2>7, <2>8 DEF Outstanding, isLoad
  <2>12. ldpipe'.live => /\ staysWaiting(ldpipe'.tid) /\ isLoad(sb'.mem[ldpipe'.tid].instr)
                         /\ \A k \in {0, 1} : bypass'.mem[k].valid => bypass'.mem[k].tid # ldpipe'.tid
    <3>1. l.valid /\ l.ex /\ ~l.rvalid => pop_ld_o(ld, l)
      BY DEF pop_ld_o, trapped
    <3> QED BY <2>1, <2>5, <2>6, <2>7, <2>8, <3>1 DEF Piped, isLoad
  <2>13. ldd'.live /\ ldpipe'.live => ldd'.tid # ldpipe'.tid
    <3>1. l.valid /\ ldd.live => head.tid # ldd.tid
      BY <2>4, <2>5, MemberFacts
    <3> QED BY <2>1, <3>1 DEF Outstanding, Piped
  <2>14. su' # "IDLE" => /\ sur' = head /\ head.valid /\ isStore(head.instr) /\ Next_(head)
    <3>1. su' # "IDLE" => s.valid /\ ~trap(su, s)
      <4>1. su' = store_next(su, s)
        BY DEF Step
      <4>2. su' # "IDLE" => ~trap(su, s)
        BY <1>2, <4>1 DEF store_next
      <4> QED BY <2>1, <4>2 DEF Works, StoreState, SuWait
    <3> QED BY <2>1, <2>2, <2>4, <3>1 DEF Works, Heads
  <2>15. su' = "VALID_STORE" => \A k \in {0, 1} : bypass'.mem[k].valid => bypass'.mem[k].tid # sur'.tid
    BY <2>1, <2>8, <2>14 DEF Works
  <2>16. su' = "IDLE" => ~sur'.valid
    BY <2>1, NullFacts DEF Works
  <2>17. bypass'.mem[0].valid /\ bypass'.mem[1].valid => bypass'.mem[0].tid # bypass'.mem[1].tid
    <3>1. SUFFICES ASSUME bypass'.mem[0].valid, bypass'.mem[1].valid, bypass'.mem[0].tid = bypass'.mem[1].tid
                   PROVE  FALSE
      OBVIOUS
    <3>2. member(bypass'.mem[0]) /\ member(bypass'.mem[1])
      BY <1>2, <3>1, QueueMembers
    <3>3. bypass'.mem[0] = wrote(0) /\ bypass'.mem[1] = wrote(1) /\ bypass.wp \in {0, 1}
      BY <1>2, <3>1, QueueMembers, HeadFacts
    <3>4. wrote(0) = place(0) \/ wrote(1) = place(1)
      BY <3>3 DEF wrote
    <3>5. wrote(0) = wrote(1)
      BY <3>1, <3>2, <3>3, MemberFacts
    <3>6. CASE lsu_req.valid
      <4>1. req.valid /\ lsu_req.tid = req.tid /\ ~inPlace(req.tid)
        BY <3>6, HeadFacts DEF Held
      <4>2. (wrote(0) = lsu_req /\ wrote(1) = place(1)) \/ (wrote(0) = place(0) /\ wrote(1) = lsu_req)
        BY <3>3, <3>6 DEF wrote
      <4> QED BY <3>1, <3>3, <3>5, <4>1, <4>2 DEF inPlace
    <3>7. CASE ~lsu_req.valid
      BY <3>1, <3>3, <3>7 DEF wrote, Held
    <3> QED BY <3>6, <3>7
  <2>18. \A k \in {0, 1} : bypass'.mem[k].valid => bypass'.mem[k].tid # sb.ip
    BY <2>3
  <2> HIDE DEF Next_
  <2>19. req'.valid => owns(req)' /\ ~inPlace(req.tid)'
    BY <2>9, <2>18 DEF owns, waits, entry, inPlace, place
  <2>20. su' # "IDLE" => sur'.valid /\ owns(sur)' /\ isStore(sur.instr)'
    BY <2>14 DEF Next_, staysWaiting, owns, waits, entry, isStore
  <2>21. /\ ldd'.live => waits(ldd.tid)' /\ isLoad(entry(ldd.tid).instr)' /\ ~inPlace(ldd.tid)'
         /\ ldpipe'.live => waits(ldpipe.tid)' /\ isLoad(entry(ldpipe.tid).instr)' /\ ~inPlace(ldpipe.tid)'
    BY <2>11, <2>12 DEF staysWaiting, waits, entry, isLoad, inPlace, place
  <2>22. su' = "VALID_STORE" => ~inPlace(sur.tid)'
    BY <2>15 DEF inPlace, place
  <2>23. req'.valid => /\ ldd'.live => req'.tid # ldd'.tid
                       /\ ldpipe'.live => req'.tid # ldpipe'.tid
                       /\ su' = "VALID_STORE" => req'.tid # sur'.tid
    BY <2>9, <2>11, <2>12, <2>14 DEF Next_, staysWaiting
  <2> QED BY <2>10, <2>13, <2>16, <2>17, <2>19, <2>20, <2>21, <2>22, <2>23 DEF Held, place, memop, isLoad, isStore
<1> QED BY <1>1, <1>2

-----------------------------------------------------------------------------
(* The basic invariant: types, queue, and who waits for what.              *)

Basic == TypeOK /\ Ring /\ Marked /\ LoadProtocol /\ Flushing /\ Shape /\ Held

\* The scoreboard after reset.
LEMMA ResetScoreboard ==
    ASSUME Init
    PROVE  /\ sb \in SCB!SB /\ Ring /\ sb.cnt = 0 /\ sb.cp0 = 0
           /\ \A t \in TransId : ~entry(t).issued /\ ~entry(t).valid
<1>1. sb = SCP!sb_reset
  BY SameScoreboard DEF Init
<1>2. SCP!NullEntry \in SCP!Entry
  BY SameScoreboard, SCP!NullEntryType
<1>3. 0 \in TransId /\ SCP!TransId = TransId
  BY SizeAssumption, SameScoreboard DEF TransId
<1>4. sb \in SCP!SB
  BY <1>1, <1>2, <1>3 DEF SCP!sb_reset, SCP!SB
<1>5. \A t \in TransId : ~entry(t).issued /\ ~entry(t).valid
  BY <1>1, <1>3 DEF SCP!sb_reset, SCP!NullEntry, entry
<1>6. sb.cnt = 0 /\ sb.cp0 = 0 /\ sb.ip = 0
  BY <1>1 DEF SCP!sb_reset
<1>7. \A t \in TransId : SCP!Dist(0, t) \in Nat
  BY SizeAssumption DEF SCP!Dist, TransId
<1>8. SCP!ByIndex(sb) /\ SCP!PortsReady(sb)
  BY <1>3, <1>5, <1>6, <1>7, SizeAssumption DEF SCP!ByIndex, SCP!PortsReady, SCP!At, entry
<1> QED BY <1>4, <1>5, <1>6, <1>8, SameScoreboard DEF Ring

LEMMA BasicInit ==
    ASSUME Init
    PROVE  Basic
<1>1. 0 \in TransId /\ Null \in Request /\ Null.valid = FALSE
  BY NullFacts, SizeAssumption DEF TransId
<1>2. /\ req = Null /\ sur = Null /\ bypass.mem = [i \in {0, 1} |-> Null]
      /\ bypass.rp = 0 /\ bypass.wp = 0 /\ bypass.cnt = 0
      /\ ld = "IDLE" /\ ldd.live = FALSE /\ ldpipe.valid = FALSE /\ ldpipe.live = FALSE /\ dc = "IDLE" /\ su = "IDLE"
  BY DEF Init
<1>3. ~place(0).valid /\ ~place(1).valid
  BY <1>1, <1>2 DEF place
<1>4. spec \in STB!Ring(DEPTH_SPEC) /\ comm \in STB!Ring(DEPTH_COMMIT)
  <2>1. spec = SBP!ResetRing(DEPTH_SPEC) /\ comm = SBP!ResetRing(DEPTH_COMMIT)
    BY SameStoreBuffer DEF Init
  <2>2. DEPTH_SPEC \in Nat \ {0} /\ DEPTH_COMMIT \in Nat \ {0}
    BY SizeAssumption
  <2>3. SBP!ResetRing(DEPTH_SPEC) \in SBP!Ring(DEPTH_SPEC) /\ SBP!ResetRing(DEPTH_COMMIT) \in SBP!Ring(DEPTH_COMMIT)
    BY <2>2, SameStoreBuffer, SBP!ResetRingType
  <2> QED BY <2>1, <2>3, SameStoreBuffer
<1>5. TypeOK
  <2>1. bypass \in [mem : [{0, 1} -> Request], rp : {0, 1}, wp : {0, 1}, cnt : 0 .. 3]
    BY <1>1 DEF Init
  <2>2. /\ prog \in Program /\ sb \in SCB!SB /\ req \in Request /\ sur \in Request
        /\ ld \in LoadState /\ dc \in CtrlState /\ su \in StoreState /\ amo \in SUBSET TransId /\ dbg \in BOOLEAN
    BY <1>1, <1>2, ResetScoreboard DEF Init, LoadState, CtrlState, StoreState
  <2>3. /\ ldd \in [tid : TransId, live : BOOLEAN]
        /\ ldpipe \in [valid : BOOLEAN, tid : TransId, ex : BOOLEAN, live : BOOLEAN]
        /\ mmu \in [fault : BOOLEAN, tlb : {"unknown", "walk", "present"}]
    BY <1>1 DEF Init
  <2> QED BY <1>4, <2>1, <2>2, <2>3 DEF TypeOK
<1>6. Ring /\ Marked
  BY ResetScoreboard DEF Marked
<1>7. LoadProtocol /\ Flushing
  BY <1>2 DEF LoadProtocol, Flushing, Looking
<1>8. Shape
  BY <1>2, <1>3 DEF Shape, LdBusy, SuWait
<1>9. Held
  BY <1>1, <1>2, <1>3 DEF Held
<1> QED BY <1>5, <1>6, <1>7, <1>8, <1>9 DEF Basic

LEMMA BasicStep ==
    ASSUME Basic, Next
    PROVE  Basic'
<1>1. PICK x, l, s, a : Step(x, l, s, a)
  BY NextIsStep
<1>2. TypeOK /\ Ring /\ Marked /\ LoadProtocol /\ Flushing /\ Shape /\ Held
  BY DEF Basic
<1>3. TypeOK'
  BY <1>1, <1>2, TypeStep
<1>4. Ring'
  BY <1>1, <1>2, SbStep
<1>5. Marked'
  BY <1>1, <1>2, MarkedStep
<1>6. LoadProtocol' /\ Flushing'
  BY <1>1, <1>2, LoadProtocolStep, FlushingStep
<1>7. Shape' /\ Held'
  BY <1>1, <1>2, ShapeStep, HeldStep
<1> QED BY <1>3, <1>4, <1>5, <1>6, <1>7 DEF Basic

LEMMA BasicStutter ==
    ASSUME Basic, UNCHANGED vars
    PROVE  Basic'
<1>1. /\ prog' = prog /\ sb' = sb /\ req' = req /\ bypass' = bypass /\ ld' = ld /\ ldd' = ldd /\ ldpipe' = ldpipe
      /\ dc' = dc /\ su' = su /\ sur' = sur /\ amo' = amo /\ spec' = spec /\ comm' = comm /\ mmu' = mmu /\ dbg' = dbg
  BY DEF vars
<1>2. TypeOK'
  BY <1>1 DEF Basic, TypeOK
<1>3. Ring' /\ Marked' /\ LoadProtocol' /\ Flushing'
  BY <1>1 DEF Basic, Ring, Marked, LoadProtocol, Flushing, entry, SCP!ByIndex, SCP!PortsReady
<1>4. lsu_req' = lsu_req
  BY <1>1 DEF lsu_req, isLoad, isStore
<1>5. Shape'
  BY <1>1, <1>4 DEF Basic, Shape, place, other, isLoad
<1>6. Held'
  BY <1>1 DEF Basic, Held, place, owns, waits, entry, inPlace, memop, isLoad, isStore
<1> QED BY <1>2, <1>3, <1>5, <1>6 DEF Basic

LEMMA BasicAlways == Spec => []Basic
<1>1. Init => Basic
  BY BasicInit
<1>2. Basic /\ [Next]_vars => Basic'
  BY BasicStep, BasicStutter
<1> QED BY <1>1, <1>2, PTL DEF Spec

\* Type correctness of the registers of load_store_unit.sv and of all its parts.
THEOREM TypeCorrect == Spec => []TypeOK
<1>1. Basic => TypeOK
  BY DEF Basic
<1> QED BY <1>1, BasicAlways, PTL

\* A flush reaches a load or a store wherever it is: what the load unit reports
\* late finds a scoreboard without that entry, and what the store unit reports
\* belongs to an entry that is still there.
THEOREM WriteBacksFresh == Spec => []NoStaleWriteBack
<1>1. Basic => NoStaleWriteBack
  <2> SUFFICES ASSUME Basic
               PROVE  NoStaleWriteBack
    OBVIOUS
  <2>1. ldpipe.valid /\ ~ldpipe.live => ~sb.mem[ldpipe.tid].issued
    <3>1. ldpipe.tid \in SCP!TransId /\ sb.cp0 \in SCP!TransId
      BY SameScoreboard DEF Basic, TypeOK, SCB!SB, SCB!TransId, TransId
    <3>2. SCP!Dist(sb.cp0, ldpipe.tid) \in Nat
      BY <3>1, SizeAssumption, SameScoreboard DEF SCP!Dist, TransId
    <3> QED BY <3>1, <3>2 DEF Basic, Ring, Flushing, SCP!ByIndex
  <2>2. su = "VALID_STORE" => sb.mem[sur.tid].issued
    BY DEF Basic, Held, owns, waits, entry
  <2> QED BY <2>1, <2>2 DEF NoStaleWriteBack
<1> QED BY <1>1, BasicAlways, PTL

-----------------------------------------------------------------------------
(* Program order.                                                          *)

\* Entries of the same age are the same.
LEMMA AgeInjective ==
    ASSUME TypeOK, NEW t \in TransId, NEW u \in TransId, Age(t) = Age(u)
    PROVE  t = u
<1>1. sb.cp0 \in TransId
  BY DEF TypeOK, SCB!SB, SCB!TransId, TransId
<1>2. Age(t) = SCP!Dist(sb.cp0, t) /\ Age(u) = SCP!Dist(sb.cp0, u)
  BY <1>1, AgeIsDist DEF Age
<1>3. SCP!Dist(sb.cp0, t) = SCP!Dist(sb.cp0, u)
  BY <1>2
<1> DEFINE c == sb.cp0
<1>4. c \in Int /\ NR_ENTRIES \in Int /\ t \in Int /\ u \in Int /\ c >= 0 /\ c < NR_ENTRIES /\ t >= 0 /\ t < NR_ENTRIES
      /\ u >= 0 /\ u < NR_ENTRIES
  BY <1>1, SizeAssumption DEF TransId
<1>5. (IF t >= c THEN t - c ELSE t - c + NR_ENTRIES) = (IF u >= c THEN u - c ELSE u - c + NR_ENTRIES)
  BY <1>3 DEF SCP!Dist
<1> HIDE DEF c
<1> QED BY <1>4, <1>5

\* Nobody but an instruction that waits for it gets a result.
LEMMA WrittenWaits ==
    ASSUME Basic, NEW x, NEW l, NEW s, NEW a, Step(x, l, s, a), NEW t \in TransId, entry(t).issued, written(s, t)
    PROVE  /\ waits(t)
           /\ excepted(s, t) => memop(entry(t).instr)
           /\ \/ /\ req.valid /\ fu(req.instr) = "CSR" /\ req.tid = t /\ ~excepted(s, t)
                 /\ entry(t).instr = req.instr
              \/ /\ ldpipe.live /\ ldpipe.tid = t /\ (excepted(s, t) <=> ldpipe.ex)
                 /\ isLoad(entry(t).instr)
              \/ /\ valid_o(su, s) /\ su # "IDLE" /\ sur.tid = t /\ (excepted(s, t) <=> s.ex)
                 /\ entry(t).instr = sur.instr /\ isStore(sur.instr)
<1>1. sb.cnt # 0
  <2>1. Fate(x, s, a, t)
    BY SbStep DEF Basic
  <2>2. sb.cnt \in TransId
    BY CommitStep DEF Basic
  <2> QED BY <2>1, <2>2, SizeAssumption DEF Fate, TransId
<1>2. ldpipe.valid => ldpipe.live
  BY <1>1 DEF Basic, Flushing
<1>3. valid_o(su, s) => su # "IDLE"
  BY DEF valid_o, trap
<1>4. /\ req.valid => waits(req.tid) /\ entry(req.tid).instr = req.instr
      /\ ldpipe.live => waits(ldpipe.tid) /\ isLoad(entry(ldpipe.tid).instr)
      /\ su # "IDLE" => waits(sur.tid) /\ entry(sur.tid).instr = sur.instr /\ isStore(sur.instr)
  BY DEF Basic, Held, owns
<1>5. CASE req.valid /\ fu(req.instr) = "CSR" /\ req.tid = t
  <2>1. fu(entry(t).instr) = "CSR"
    BY <1>4, <1>5
  <2>2. ~excepted(s, t)
    BY <1>2, <1>3, <1>4, <2>1 DEF excepted, isLoad, isStore
  <2> QED BY <1>4, <1>5, <2>2
<1>6. CASE ldpipe.valid /\ ldpipe.tid = t
  <2>1. excepted(s, t) <=> ldpipe.ex
    BY <1>2, <1>3, <1>4, <1>6 DEF excepted, isLoad, isStore
  <2> QED BY <1>2, <1>4, <1>6, <2>1 DEF memop
<1>7. CASE valid_o(su, s) /\ sur.tid = t
  <2>1. excepted(s, t) <=> s.ex
    BY <1>2, <1>3, <1>4, <1>7 DEF excepted, isLoad, isStore
  <2> QED BY <1>3, <1>4, <1>7, <2>1 DEF memop
<1> QED BY <1>5, <1>6, <1>7 DEF written

\* The order of two entries does not change, and a new one is the youngest.
LEMMA AgeStep ==
    ASSUME TypeOK, Ring, NEW x, NEW l, NEW s, NEW a, Step(x, l, s, a), NEW t \in TransId, NEW u \in TransId
    PROVE  /\ kept(x, t) /\ kept(x, u) => (Age(t)' < Age(u)' <=> Age(t) < Age(u))
           /\ kept(x, t) /\ filled(x, a, u) => Age(t)' < Age(u)'
           /\ filled(x, a, t) /\ sb'.mem[u].issued => ~(Age(t)' < Age(u)')
           /\ kept(x, u) /\ entry(t).issued /\ Age(t) < Age(u) /\ ~kept(x, t) => Age(t) < x.c.ack
<1>1. Fate(x, s, a, t) /\ Fate(x, s, a, u)
  BY SbStep
<1>2. Decided(x.c) /\ sb.cnt \in Nat
  BY CommitStep, SizeAssumption DEF TransId
<1>3. NR_ENTRIES \in Nat /\ x.c.ack \in Nat
  BY <1>2, SizeAssumption DEF Decided
<1>4. sb'.cnt \in Nat
  BY SbStep, SizeAssumption DEF SCB!SB, SCB!TransId
<1>5. kept(x, t) /\ kept(x, u) => (Age(t)' < Age(u)' <=> Age(t) < Age(u))
  BY <1>1, <1>3 DEF Fate
<1>6. kept(x, t) /\ filled(x, a, u) => Age(t)' < Age(u)'
  <2>1. SUFFICES ASSUME kept(x, t), filled(x, a, u)
                 PROVE  Age(t)' < Age(u)'
    OBVIOUS
  <2>2. Age(t)' < sb'.cnt /\ Age(u)' = sb'.cnt - 1 /\ Age(t)' \in 0 .. NR_ENTRIES - 1
    BY <1>1, <2>1 DEF Fate
  <2>3. t # u
    BY <1>1, <2>1 DEF Fate, kept
  <2>4. Age(t)' # Age(u)'
    <3>1. sb'.cp0 \in TransId
      BY SbStep DEF SCB!SB, SCB!TransId, TransId
    <3>2. Age(t)' = SCP!Dist(sb'.cp0, t) /\ Age(u)' = SCP!Dist(sb'.cp0, u)
      BY <3>1, AgeIsDist DEF Age
    <3> QED BY <2>3, <3>1, <3>2, SizeAssumption DEF SCP!Dist, TransId
  <2> QED BY <1>3, <1>4, <2>2, <2>4
<1>7. filled(x, a, t) /\ sb'.mem[u].issued => ~(Age(t)' < Age(u)')
  BY <1>1, <1>3, <1>4 DEF Fate
<1>8. kept(x, u) /\ entry(t).issued /\ Age(t) < Age(u) /\ ~kept(x, t) => Age(t) < x.c.ack
  BY <1>1, <1>3 DEF Fate, kept
<1> QED BY <1>5, <1>6, <1>7, <1>8

\* What retires is on the path and has no exception; what stays on it, or comes
\* off it, has done so before.
Onward(x, t) ==
    /\ entry(t).issued /\ Age(t) < x.c.ack => ~Faults(entry(t).instr)
    /\ entry(t).issued /\ Faults(entry(t).instr) => kept(x, t)
    /\ kept(x, t) => (OnPath(t)' <=> OnPath(t))
    /\ \A f \in TransId : /\ kept(x, f) /\ Faults(entry(f).instr) /\ sb'.mem[t].issued /\ Age(f)' < Age(t)' => ~OnPath(t)'

LEMMA PathStep ==
    ASSUME Basic, Precise, NEW x, NEW l, NEW s, NEW a, Step(x, l, s, a), ~x.c.flush, NEW t \in TransId
    PROVE  Onward(x, t)
<1>1. \A u \in TransId : Fate(x, s, a, u)
  BY SbStep DEF Basic
<1>2. x.c.ack \in {0, 1, 2} /\ NR_ENTRIES \in Nat
  BY CommitStep, SizeAssumption DEF Basic, Decided
<1>3. \A u \in TransId : Age(u) \in Nat
  BY <1>1, <1>2 DEF Fate
<1>4. \A u \in TransId : entry(u).issued /\ Age(u) = 0 /\ 0 < x.c.ack => ~Faults(entry(u).instr)
  <2>1. SUFFICES ASSUME NEW u \in TransId, entry(u).issued, Age(u) = 0, 0 < x.c.ack
                 PROVE  ~Faults(entry(u).instr)
    OBVIOUS
  <2>2. entry(u).valid /\ ~entry(u).ex
    BY <1>1, <2>1 DEF Fate
  <2>3. OnPath(u)
    BY <1>3, <2>1 DEF OnPath, Older, entry
  <2> QED BY <2>2, <2>3 DEF Precise
<1>5. \A u \in TransId : entry(u).issued /\ Age(u) < x.c.ack => ~Faults(entry(u).instr)
  <2>1. SUFFICES ASSUME NEW u \in TransId, entry(u).issued, Age(u) < x.c.ack
                 PROVE  ~Faults(entry(u).instr)
    OBVIOUS
  <2>2. entry(u).valid /\ ~entry(u).ex
    BY <1>1, <2>1 DEF Fate
  <2>3. \A w \in TransId : Age(w) < Age(u) => Age(w) = 0 /\ 0 < x.c.ack
    BY <1>2, <1>3, <2>1
  <2>4. OnPath(u)
    BY <1>4, <2>1, <2>3 DEF OnPath, Older, entry
  <2> QED BY <2>2, <2>4 DEF Precise
<1>6. \A u \in TransId : entry(u).issued /\ Faults(entry(u).instr) => kept(x, u)
  BY <1>2, <1>3, <1>5 DEF kept
<1>7. ASSUME kept(x, t), OnPath(t)'
      PROVE  OnPath(t)
  <2>1. SUFFICES ASSUME NEW u \in TransId, entry(u).issued, Age(u) < Age(t), Faults(entry(u).instr)
                 PROVE  FALSE
    BY <1>7 DEF OnPath, Older, entry, kept
  <2>2. kept(x, u)
    BY <1>6, <2>1
  <2>3. Age(u)' < Age(t)'
    BY <1>7, <2>1, <2>2, AgeStep DEF Basic
  <2>4. sb'.mem[u].issued /\ sb'.mem[u].instr = entry(u).instr
    BY <1>1, <2>2 DEF Fate
  <2> QED BY <1>7, <2>1, <2>3, <2>4 DEF OnPath, Older
<1>8. ASSUME kept(x, t), OnPath(t)
      PROVE  OnPath(t)'
  <2>0. sb'.mem[t].issued
    BY <1>1, <1>8 DEF Fate
  <2>1. SUFFICES ASSUME NEW u \in TransId, sb'.mem[u].issued, Age(u)' < Age(t)'
                 PROVE  ~Faults(sb'.mem[u].instr)
    BY <2>0 DEF OnPath, Older
  <2>2. kept(x, u)
    BY <1>1, <2>0, <2>1, AgeStep DEF Fate, Basic
  <2>3. Age(u) < Age(t) /\ entry(u).issued
    BY <1>8, <2>1, <2>2, AgeStep DEF Basic, kept
  <2>4. sb'.mem[u].instr = entry(u).instr
    BY <1>1, <2>2 DEF Fate
  <2> QED BY <1>8, <2>3, <2>4 DEF OnPath, Older, entry
<1>9. ASSUME NEW f \in TransId, kept(x, f), Faults(entry(f).instr), sb'.mem[t].issued, Age(f)' < Age(t)'
      PROVE  ~OnPath(t)'
  <2>1. sb'.mem[f].issued /\ sb'.mem[f].instr = entry(f).instr
    BY <1>1, <1>9 DEF Fate
  <2> QED BY <1>9, <2>1 DEF OnPath, Older
<1> QED BY <1>5, <1>6, <1>7, <1>8, <1>9 DEF Onward

\* A store that is reported to the scoreboard has its own exception.
LEMMA StoreBlame ==
    ASSUME Basic, Blamed, NEW x, NEW l, NEW s, NEW a, Step(x, l, s, a), valid_o(su, s)
    PROVE  su # "IDLE" /\ (s.ex <=> sur.instr.fault # "no")
<1>1. Inputs(x) /\ Wired(x, l, s) /\ Heads(l, s)
  BY WireFacts, HeadStep DEF Basic
<1>2. su \in {"IDLE", "VALID_STORE", "WAIT_TRANSLATION", "WAIT_STORE_READY"}
  BY DEF Basic, TypeOK, StoreState
<1>3. s.ex <=> mmu.fault \/ x.walk = "error"
  BY <1>1 DEF Wired, mmu_ex
<1>4. CASE su = "VALID_STORE"
  BY <1>1, <1>3, <1>4 DEF Inputs, Blamed
<1>5. CASE su \in SuWait
  <2>1. s.ex
    BY <1>5 DEF valid_o, trap, SuWait
  <2>2. sur.instr.fault # "no"
    BY <1>1, <1>3, <1>5, <2>1 DEF Inputs, Blamed, Heads
  <2> QED BY <1>5, <2>1, <2>2 DEF SuWait
<1>6. su # "IDLE"
  BY DEF valid_o, trap
<1> QED BY <1>2, <1>4, <1>5, <1>6 DEF SuWait

\* Exceptions stay precise.
LEMMA PreciseStep ==
    ASSUME Basic, Precise, Blamed, LoadFaults, NEW x, NEW l, NEW s, NEW a, Step(x, l, s, a)
    PROVE  Precise'
<1>1. \A u \in TransId : Fate(x, s, a, u)
  BY SbStep DEF Basic
<1>2. \A u \in TransId : sb'.mem[u].issued => ~x.c.flush /\ (kept(x, u) \/ filled(x, a, u))
  BY <1>1 DEF Fate, kept, filled
<1>3. \A u \in TransId : entry(u).issued /\ written(s, u) => waits(u)
  BY WrittenWaits
<1>4. \A u \in TransId : excepted(s, u) => written(s, u)
  BY DEF excepted, written
<1>5. \A u \in TransId : filled(x, a, u) => \E i \in a : sb'.mem[u] = [issued |-> TRUE, valid |-> i.ex, ex |-> i.ex, instr |-> i]
  BY <1>1 DEF Fate
<1>6. ASSUME NEW t \in TransId, sb'.mem[t].issued, ~sb'.mem[t].valid
      PROVE  ~sb'.mem[t].ex
  <2>1. CASE kept(x, t)
    <3>1. waits(t) /\ ~excepted(s, t)
      BY <1>1, <1>4, <1>6, <2>1 DEF Fate, kept, waits
    <3> QED BY <1>1, <2>1, <3>1 DEF Fate, Precise
  <2>2. CASE filled(x, a, t)
    <3>1. PICK i \in a : sb'.mem[t] = [issued |-> TRUE, valid |-> i.ex, ex |-> i.ex, instr |-> i]
      BY <1>5, <2>2
    <3> QED BY <1>6, <3>1
  <2> QED BY <1>2, <1>6, <2>1, <2>2
<1>7. ASSUME NEW t \in TransId, OnPath(t)', sb'.mem[t].valid
      PROVE  sb'.mem[t].ex <=> Faults(sb'.mem[t].instr)
  <2>1. CASE filled(x, a, t)
    <3>1. PICK i \in a : sb'.mem[t] = [issued |-> TRUE, valid |-> i.ex, ex |-> i.ex, instr |-> i]
      BY <1>5, <2>1
    <3> QED BY <1>7, <3>1 DEF Faults
  <2>2. CASE kept(x, t)
    <3>1. ~x.c.flush /\ entry(t).issued
      BY <2>2 DEF kept
    <3>2. OnPath(t)
      BY <1>7, <2>2, <3>1, PathStep DEF Onward
    <3>3. /\ sb'.mem[t].instr = entry(t).instr
          /\ sb'.mem[t].valid <=> entry(t).valid \/ fu(entry(t).instr) = "NONE" \/ written(s, t)
          /\ sb'.mem[t].ex <=> entry(t).ex \/ excepted(s, t)
      BY <1>1, <2>2 DEF Fate
    <3>4. CASE entry(t).valid
      BY <1>3, <1>4, <3>1, <3>2, <3>3, <3>4 DEF Precise, waits
    <3>5. CASE ~entry(t).valid
      <4>1. ~entry(t).ex /\ ~entry(t).instr.ex
        BY <3>1, <3>5 DEF Precise, waits, Basic, Marked
      <4>2. entry(t).instr \in Instr
        BY CommitStep DEF entry, SCB!Entry, Basic
      <4>3. fu(entry(t).instr) \notin {"LOAD", "STORE"} => entry(t).instr.fault = "no"
        BY <4>2, InstrAssumption
      <4>4. excepted(s, t) <=> entry(t).instr.fault # "no"
        <5>1. CASE ~written(s, t)
          BY <1>4, <1>7, <3>3, <3>5, <4>3, <5>1
        <5>2. CASE req.valid /\ fu(req.instr) = "CSR" /\ ~excepted(s, t) /\ entry(t).instr = req.instr
          BY <4>3, <5>2
        <5>3. CASE ldpipe.live /\ ldpipe.tid = t /\ (excepted(s, t) <=> ldpipe.ex)
          BY <3>2, <5>3 DEF LoadFaults
        <5>4. CASE valid_o(su, s) /\ (excepted(s, t) <=> s.ex) /\ entry(t).instr = sur.instr
          BY <5>4, StoreBlame
        <5> QED BY <3>1, <5>1, <5>2, <5>3, <5>4, WrittenWaits
      <4> QED BY <3>3, <4>1, <4>4 DEF Faults
    <3> QED BY <3>4, <3>5
  <2>3. sb'.mem[t].issued
    BY <1>7 DEF OnPath
  <2> QED BY <1>2, <2>1, <2>2, <2>3
<1> QED BY <1>6, <1>7 DEF Precise, waits, entry

-----------------------------------------------------------------------------
(* Whose exception it is.                                                  *)

\* A request that does not leave stays at the head.
LEMMA HeadStays ==
    ASSUME Basic, NEW x, NEW l, NEW s, NEW a, Step(x, l, s, a), ~s.flush, l.valid \/ s.valid,
           ~pop_ld_o(ld, l), ~pop_st_o(su, s)
    PROVE  bypass'.cnt \in {1, 2} /\ head' = head
<1>1. bypass'.cnt \in {1, 2} /\ bypass'.mem[bypass'.rp] = head
  BY UsualStep DEF Basic, Usual
<1>2. bypass'.cnt # 0
  BY <1>1
<1>3. head' = IF bypass'.cnt = 0 THEN lsu_req' ELSE bypass'.mem[bypass'.rp]
  BY DEF head, lsu_ctrl_o
<1> QED BY <1>1, <1>2, <1>3

\* The MMU after a cycle.
Translated(x, l, s) ==
    /\ mmu'.fault <=> /\ translation_req(l, s)
                      /\ head.instr.fault = "align" \/ (head.instr.fault = "page" /\ x.hit)
    /\ mmu'.tlb = "walk" => /\ ~pop_ld_o(ld, l) /\ ~pop_st_o(su, s) /\ ~s.flush /\ x.walk = "no" /\ ~x.hit
                            /\ \/ mmu.tlb = "unknown" /\ translation_req(l, s)
                               \/ mmu.tlb = "walk"
    /\ pop_ld_o(ld, l) \/ pop_st_o(su, s) \/ s.flush => mmu'.tlb = "unknown"
    /\ translation_req(l, s) => \/ l.valid /\ isLoad(head.instr) /\ translation_req_o(ld, l)
                                \/ s.valid /\ isStore(head.instr) /\ st_translation_req(su, s)

LEMMA TranslateStep ==
    ASSUME Basic, Walking, NEW x, NEW l, NEW s, NEW a, Step(x, l, s, a)
    PROVE  Translated(x, l, s)
<1>1. Inputs(x) /\ Wired(x, l, s) /\ Heads(l, s)
  BY WireFacts, HeadStep DEF Basic
<1> DEFINE out == pop_ld_o(ld, l) \/ pop_st_o(su, s)
           tr == translation_req(l, s)
<1>2. mmu' = [fault |-> tr /\ (data_misaligned(head.instr) \/ (head.instr.fault = "page" /\ x.hit)),
              tlb |-> IF out \/ s.flush \/ x.walk = "error" THEN "unknown"
                      ELSE IF x.walk = "ok" THEN "present"
                      ELSE IF mmu.tlb = "unknown" /\ tr THEN (IF x.hit THEN "present" ELSE "walk")
                      ELSE mmu.tlb]
  <2>1. mmu' = mmu_next(x, l, s, out)
    BY Zenon DEF Step
  <2> QED BY <2>1, Zenon DEF mmu_next
<1>3. tr => \/ l.valid /\ isLoad(head.instr) /\ translation_req_o(ld, l)
            \/ s.valid /\ isStore(head.instr) /\ st_translation_req(su, s)
  <2>1. ld \in {"WAIT_TRANSLATION", "WAIT_GNT"} => l.valid
    BY <1>1 DEF Heads, LdBusy
  <2>2. su \in {"WAIT_STORE_READY", "WAIT_TRANSLATION"} => s.valid
    BY <1>1 DEF Heads, SuWait
  <2>3. CASE isLoad(head.instr)
    BY <2>1, <2>3 DEF translation_req, translation_req_o
  <2>4. CASE ~isLoad(head.instr)
    <3>1. tr => st_translation_req(su, s)
      BY <2>4 DEF translation_req
    <3>2. st_translation_req(su, s) => s.valid
      BY <2>2 DEF st_translation_req, taken
    <3> QED BY <1>1, <3>1, <3>2 DEF Heads
  <2> QED BY <2>3, <2>4
<1>4. x.hit \in BOOLEAN /\ x.walk \in {"no", "ok", "error"}
  BY <1>1 DEF Inputs
<1>5. mmu.tlb = "walk" => ~x.hit
  BY <1>1 DEF Inputs, Walking
<1> HIDE DEF out, tr
<1>6. mmu'.fault <=> tr /\ (head.instr.fault = "align" \/ (head.instr.fault = "page" /\ x.hit))
  BY <1>2 DEF data_misaligned
<1>7. mmu'.tlb = "walk" => /\ ~out /\ ~s.flush /\ x.walk = "no" /\ ~x.hit
                           /\ (mmu.tlb = "unknown" /\ tr) \/ mmu.tlb = "walk"
  BY <1>2, <1>4, <1>5
<1>8. out \/ s.flush => mmu'.tlb = "unknown"
  BY <1>2
<1> QED BY <1>3, <1>6, <1>7, <1>8, Zenon DEF Translated, out, tr

\* A walk is made for the request at the head.
LEMMA WalkingStep ==
    ASSUME Basic, Walking, NEW x, NEW l, NEW s, NEW a, Step(x, l, s, a)
    PROVE  Walking'
<1> SUFFICES ASSUME mmu'.tlb = "walk"
             PROVE  /\ prog'.translation /\ bypass'.cnt \in {1, 2}
                    /\ isStore(head'.instr) => su' \in SuWait
                    /\ isLoad(head'.instr) => su' = "IDLE" /\ ld' # "SEND_TAG"
  BY DEF Walking, isStore, isLoad, SuWait
<1>1. Inputs(x) /\ Wired(x, l, s) /\ Heads(l, s) /\ Translated(x, l, s)
  BY WireFacts, HeadStep, TranslateStep DEF Basic
<1>2. /\ ~pop_ld_o(ld, l) /\ ~pop_st_o(su, s) /\ ~s.flush /\ ~x.hit
      /\ (mmu.tlb = "unknown" /\ translation_req(l, s)) \/ mmu.tlb = "walk"
  BY <1>1 DEF Translated
<1>3. prog'.translation
  <2>1. prog' = prog
    BY DEF Step
  <2> QED BY <1>1, <1>2, <2>1 DEF Inputs, Walking
<1>4. /\ (l.valid /\ isLoad(head.instr)) \/ (s.valid /\ isStore(head.instr))
      /\ s.valid => su \in SuWait \/ taken(su, s)
  <2>1. CASE mmu.tlb = "unknown" /\ translation_req(l, s)
    <3>1. \/ l.valid /\ isLoad(head.instr)
          \/ s.valid /\ isStore(head.instr) /\ st_translation_req(su, s)
      BY <1>1, <2>1 DEF Translated
    <3> QED BY <1>1, <3>1 DEF Heads, st_translation_req, SuWait
  <2>2. CASE mmu.tlb = "walk"
    <3>1. bypass.cnt \in {1, 2} /\ bypass.cnt # 0
      BY <2>2 DEF Walking
    <3>2. head = place(bypass.rp) /\ head.valid /\ bypass.rp \in {0, 1}
      BY <3>1, HeadFacts DEF Basic, Shape
    <3>3. memop(head.instr)
      BY <3>2 DEF Basic, Held
    <3> QED BY <1>1, <2>2, <3>2, <3>3 DEF Heads, memop, Walking
  <2> QED BY <1>2, <2>1, <2>2
<1>5. bypass'.cnt \in {1, 2} /\ head' = head
  BY <1>2, <1>4, HeadStays
<1>6. ~s.hit /\ ~l.hit
  BY <1>1, <1>2 DEF Wired
<1>7. su' = store_next(su, s) /\ ld' = load_next(ld, l) /\ ~trap(su, s) /\ ~l.flush
  BY <1>1, <1>2 DEF Step, pop_st_o, Heads
<1>8. su \in {"IDLE", "VALID_STORE", "WAIT_TRANSLATION", "WAIT_STORE_READY"} /\ ld \in LoadState
  BY DEF Basic, TypeOK, StoreState
<1>9. ASSUME isStore(head.instr)
      PROVE  su' \in SuWait
  <2>1. s.valid
    BY <1>4, <1>9 DEF isStore, isLoad
  <2>2. CASE taken(su, s)
    BY <1>2, <1>6, <1>7, <2>2 DEF store_next, afterTake, SuWait
  <2>3. CASE su \in SuWait /\ ~taken(su, s)
    BY <1>2, <1>6, <1>7, <2>3 DEF store_next, SuWait
  <2> QED BY <1>4, <2>1, <2>2, <2>3
<1>10. ASSUME isLoad(head.instr)
       PROVE  su' = "IDLE" /\ ld' # "SEND_TAG"
  <2>1. ~s.valid
    BY <1>1, <1>10 DEF Heads, isLoad, isStore
  <2>2. ~taken(su, s) /\ su \notin SuWait
    BY <1>1, <2>1 DEF taken, Heads
  <2>3. su' = "IDLE"
    BY <1>2, <1>7, <1>8, <2>2 DEF store_next, SuWait
  <2>4. ld' # "SEND_TAG"
    <3>1. afterRequest(l) # "SEND_TAG"
      <4>1. CASE ~l.gnt
        BY <4>1 DEF afterRequest
      <4>2. CASE l.gnt
        BY <1>6, <4>2 DEF afterRequest
      <4> QED BY <4>1, <4>2
    <3> QED BY <1>7, <1>8, <3>1 DEF load_next, LoadState
  <2> QED BY <2>3, <2>4
<1> QED BY <1>3, <1>5, <1>9, <1>10

\* Ages of entries in flight.
LEMMA AgeFacts ==
    ASSUME TypeOK, Ring, NEW t \in TransId
    PROVE  /\ Age(t) \in Nat /\ Age(t) < NR_ENTRIES /\ sb.cnt \in Nat
           /\ entry(t).issued <=> Age(t) < sb.cnt
<1>1. sb.cp0 \in TransId /\ sb.cnt \in TransId
  BY DEF TypeOK, SCB!SB, SCB!TransId, TransId
<1>2. Age(t) = SCP!Dist(sb.cp0, t)
  BY <1>1, AgeIsDist DEF Age
<1>3. SCP!Dist(sb.cp0, t) \in Nat /\ SCP!Dist(sb.cp0, t) < NR_ENTRIES
  BY <1>1, SizeAssumption DEF SCP!Dist, TransId
<1>4. entry(t).issued <=> SCP!Dist(sb.cp0, t) < sb.cnt
  BY SameScoreboard DEF Ring, SCP!ByIndex, entry
<1> QED BY <1>1, <1>2, <1>3, <1>4, SizeAssumption DEF TransId

\* What is queued after a cycle was queued before and is still waiting, or has
\* been issued in it.
Remains(x, l, s, a, t) ==
    \/ /\ \E r : member(r) /\ r.tid = t
       /\ kept(x, t)
       /\ pops(l, s) > 0 /\ head.valid => t # head.tid
       /\ trap(su, s) => t # sur.tid
    \/ filled(x, a, t) /\ req'.valid /\ req'.tid = t

LEMMA QueuedStep ==
    ASSUME Basic, NEW x, NEW l, NEW s, NEW a, Step(x, l, s, a), NEW t, queued(t)'
    PROVE  ~s.flush /\ t \in TransId /\ Remains(x, l, s, a, t)
<1>1. Queue(l, s) /\ Handed(x, a) /\ s.flush = x.c.flush
  BY QueueStep, HandedStep, CommitStep DEF Basic
<1>2. CASE inPlace(t)'
  <2>1. PICK k \in {0, 1} : bypass'.mem[k].valid /\ bypass'.mem[k].tid = t
    BY <1>2 DEF inPlace, place
  <2>2. ~s.flush
    BY <1>1, <2>1, NullFacts DEF Queue
  <2>3. /\ member(bypass'.mem[k])
        /\ pops(l, s) > 0 /\ head.valid => t # head.tid
        /\ trap(su, s) => t # sur.tid
    BY <2>1, <2>2, QueueMembers DEF Basic
  <2> DEFINE r == bypass'.mem[k]
  <2>4. member(r) /\ r.tid = t /\ ~(trap(su, s) /\ r.tid = sur.tid)
    BY <2>1, <2>3
  <2> HIDE DEF r
  <2>5. t \in TransId /\ waits(t) /\ memop(entry(t).instr)
    BY <2>4, MemberFacts DEF Basic, owns
  <2>6. ~written(s, t)
    BY <2>4, NotWritten DEF Basic
  <2>7. kept(x, t)
    BY <2>2, <2>5, <2>6, WaitStep DEF Basic
  <2> QED BY <2>2, <2>3, <2>4, <2>5, <2>7 DEF Remains
<1>3. CASE lsu_req'.valid /\ req'.tid = t
  <2>1. req'.valid
    BY <1>1, <1>3, TypeStep, HeadFacts DEF Basic, lsu_req, Handed, Request
  <2>2. ~x.c.flush /\ a # {} /\ req'.tid = sb.ip /\ sb.ip \in TransId
    BY <1>1, <2>1, CommitStep DEF Handed, Basic
  <2> QED BY <1>1, <1>3, <2>1, <2>2 DEF Remains, filled
<1> QED BY <1>2, <1>3 DEF queued

\* In an ordered queue the head is the oldest.
LEMMA HeadOldest ==
    ASSUME Basic, Order, InOrder, head.valid, NEW r, member(r), r.tid # head.tid
    PROVE  Age(head.tid) < Age(r.tid)
<1>1. member(head)
  BY HeadMember DEF Basic
<1>2. r.tid \in TransId /\ head.tid \in TransId /\ entry(head.tid).issued
  BY <1>1, MemberFacts DEF Basic, owns, waits
<1>3. /\ Age(head.tid) \in Nat /\ Age(r.tid) \in Nat /\ sb.cnt \in Nat /\ Age(head.tid) < sb.cnt
  BY <1>2, AgeFacts DEF Basic
<1>4. Age(head.tid) # Age(r.tid)
  BY <1>2, AgeInjective DEF Basic
<1>5. /\ bypass.cnt = 0 => head = lsu_req
      /\ bypass.cnt # 0 => head = place(bypass.rp)
      /\ bypass.rp \in {0, 1} /\ bypass.cnt \in 0 .. 3
      /\ lsu_req.valid => req.valid /\ lsu_req.tid = req.tid
  BY HeadFacts DEF Basic
<1>6. CASE r = lsu_req
  BY <1>3, <1>4, <1>5, <1>6 DEF Order, member
<1>7. CASE r # lsu_req
  <2>1. r = place(bypass.rp) \/ r = place(other)
    BY <1>5, <1>7 DEF member, other
  <2>2. r.valid
    BY DEF member
  <2>3. bypass.cnt # 0
    BY <1>5, <2>1, <2>2 DEF InOrder, other
  <2>4. r = place(other)
    BY <1>5, <2>1, <2>3
  <2>5. bypass.cnt = 2
    BY <1>5, <2>2, <2>3, <2>4 DEF InOrder
  <2> QED BY <1>5, <2>4, <2>5 DEF InOrder
<1> QED BY <1>6, <1>7

\* Once a faulty request has left, what is queued is off the path.
LEMMA FaultyLeft ==
    ASSUME Basic, Order, Precise, NEW x, NEW l, NEW s, NEW a, Step(x, l, s, a), pops(l, s) > 0,
           head.valid, head.instr.fault # "no", NEW t, queued(t)'
    PROVE  ~OnPath(t)'
<1>1. ~s.flush /\ t \in TransId /\ Remains(x, l, s, a, t) /\ s.flush = x.c.flush
  BY QueuedStep, CommitStep DEF Basic
<1>2. member(head) /\ head.tid \in TransId /\ entry(head.tid).issued /\ entry(head.tid).instr = head.instr
  BY HeadMember, MemberFacts DEF Basic, owns, waits
<1>3. \A f \in TransId : entry(f).issued /\ Faults(entry(f).instr) => kept(x, f)
  BY <1>1, PathStep DEF Onward
<1>4. SUFFICES ASSUME TRUE
               PROVE  \E f \in TransId : entry(f).issued /\ Faults(entry(f).instr) /\ Age(f)' < Age(t)'
  <2>1. sb'.mem[t].issued
    BY <1>1, SbStep DEF Basic, Fate, Remains
  <2> QED BY <1>1, <1>3, <1>4, <2>1, PathStep DEF Onward
<1>5. Faults(entry(head.tid).instr)
  BY <1>2 DEF Faults
<1>6. CASE filled(x, a, t)
  BY <1>1, <1>2, <1>3, <1>5, <1>6, AgeStep DEF Basic
<1>7. CASE ~filled(x, a, t)
  <2>1. PICK r : member(r) /\ r.tid = t
    BY <1>1, <1>7 DEF Remains
  <2>2. kept(x, t) /\ t # head.tid
    BY <1>1, <1>7 DEF Remains
  <2>3. PICK f \in TransId : entry(f).issued /\ Faults(entry(f).instr) /\ Age(f) < Age(t)
    <3>1. CASE InOrder
      BY <1>2, <1>5, <2>1, <2>2, <3>1, HeadOldest
    <3>2. CASE Tripped
      BY <1>1, <2>1, <3>2, MemberFacts DEF Tripped, Basic
    <3> QED BY <3>1, <3>2 DEF Order
  <2> QED BY <1>1, <1>3, <2>2, <2>3, AgeStep DEF Basic
<1> QED BY <1>6, <1>7

\* An entry that was in flight before and after a cycle is the same entry.
LEMMA SameEntry ==
    ASSUME Basic, NEW x, NEW l, NEW s, NEW a, Step(x, l, s, a), NEW t \in TransId, entry(t).issued, sb'.mem[t].issued
    PROVE  kept(x, t) /\ sb'.mem[t].instr = entry(t).instr /\ ~x.c.flush
<1>1. Fate(x, s, a, t)
  BY SbStep DEF Basic
<1> QED BY <1>1 DEF Fate, kept

\* The head after a cycle is queued after it.
LEMMA HeadQueued ==
    ASSUME Basic', head'.valid, NEW t, t = head'.tid
    PROVE  queued(t)'
<1>1. bypass'.rp \in {0, 1} /\ req' \in Request
  BY DEF Basic, TypeOK
<1>2. CASE bypass'.cnt = 0
  <2>1. head' = lsu_req'
    BY <1>2 DEF head, lsu_ctrl_o
  <2>2. lsu_req'.tid = req'.tid
    BY <1>1 DEF lsu_req, Request
  <2> QED BY <2>1, <2>2 DEF queued
<1>3. CASE bypass'.cnt # 0
  <2>1. head' = bypass'.mem[bypass'.rp]
    BY <1>3 DEF head, lsu_ctrl_o
  <2> QED BY <1>1, <2>1 DEF queued, inPlace, place
<1> QED BY <1>2, <1>3

\* The exception that the MMU is going to report belongs to the request that is
\* translated in this cycle.
LEMMA BlamedStep ==
    ASSUME Basic, Order, Walking, Precise, NEW x, NEW l, NEW s, NEW a, Step(x, l, s, a), Basic'
    PROVE  Blamed'
<1>1. Inputs(x) /\ Wired(x, l, s) /\ Heads(l, s) /\ Translated(x, l, s) /\ Outstanding(l)
  BY WireFacts, HeadStep, TranslateStep, OutstandingStep DEF Basic
<1>2. ~s.flush => Works(l, s)
  BY WorkStep DEF Basic
<1>3. head \in Request /\ head.instr \in Instr /\ head.instr.fault \in {"no", "align", "page"}
  BY HeadFacts, InstrAssumption DEF Basic, Request
<1>4. mmu'.fault => head.instr.fault # "no" /\ head.valid
  BY <1>1 DEF Translated, Heads
<1>5. s.flush => su' = "IDLE" /\ ld' = "WAIT_FLUSH"
  <2>1. su' = store_next(su, s) /\ ld' = load_next(ld, l) /\ (s.flush => l.flush)
    BY <1>1 DEF Step, Heads
  <2> QED BY <2>1 DEF store_next, load_next, afterFlush
<1>6. ASSUME su' = "VALID_STORE"
      PROVE  mmu'.tlb = "unknown" /\ (mmu'.fault <=> sur'.instr.fault # "no")
  <2>1. ~s.flush
    BY <1>5, <1>6
  <2>2. taken(su, s) /\ s.hit /\ pop_st_o(su, s) /\ s.valid /\ sur' = head
    BY <1>2, <1>6, <2>1 DEF Works
  <2>3. isStore(head.instr) /\ ~isLoad(head.instr)
    BY <1>1, <2>2 DEF Heads, isStore, isLoad
  <2>4. translation_req(l, s) /\ x.hit
    BY <1>1, <2>2, <2>3 DEF translation_req, st_translation_req, Wired
  <2>5. mmu'.fault <=> head.instr.fault = "align" \/ head.instr.fault = "page"
    BY <1>1, <2>4 DEF Translated
  <2>6. mmu'.tlb = "unknown"
    BY <1>1, <2>2 DEF Translated
  <2> QED BY <1>3, <2>2, <2>5, <2>6
<1>7. ASSUME ld' = "SEND_TAG"
      PROVE  mmu'.tlb = "unknown" /\ su' = "IDLE" /\ (mmu'.fault <=> sb'.mem[ldd'.tid].instr.fault # "no")
  <2>1. ~s.flush /\ ldd'.live
    BY <1>5, <1>7 DEF Basic, LoadProtocol
  <2>2. /\ pop_ld_o(ld, l) /\ ~l.ex /\ l.valid /\ l.hit /\ data_req_o(ld, l)
        /\ ldd'.tid = head.tid
    BY <1>1, <1>7, <2>1 DEF Outstanding
  <2>3. su' = "IDLE"
    BY <1>2, <2>1, <2>2 DEF Works
  <2>4. isLoad(head.instr) /\ head.valid
    BY <1>1, <2>2 DEF Heads
  <2>5. translation_req(l, s) /\ x.hit
    BY <1>1, <2>2, <2>4 DEF translation_req, translation_req_o, data_req_o, mayRequest, Wired
  <2>6. mmu'.fault <=> head.instr.fault = "align" \/ head.instr.fault = "page"
    BY <1>1, <2>5 DEF Translated
  <2>7. mmu'.tlb = "unknown"
    BY <1>1, <2>2 DEF Translated
  <2>8. member(head) /\ head.tid \in TransId /\ entry(head.tid).issued /\ entry(head.tid).instr = head.instr
    BY <2>4, HeadMember, MemberFacts DEF Basic, owns, waits
  <2>9. sb'.mem[head.tid].issued
    BY <2>1, <2>2 DEF Basic, Held, waits, entry
  <2>10. sb'.mem[head.tid].instr = head.instr
    BY <2>8, <2>9, SameEntry
  <2> QED BY <1>3, <2>2, <2>3, <2>6, <2>7, <2>10
<1>8. ASSUME mmu'.fault, su' \in SuWait
      PROVE  sur'.instr.fault # "no"
  <2>1. ~s.flush /\ sur' = head
    BY <1>2, <1>5, <1>8 DEF Works, SuWait
  <2> QED BY <1>4, <1>8, <2>1
<1>9. ASSUME mmu'.fault, su' = "IDLE", ld' # "SEND_TAG", head'.valid, isLoad(head'.instr)
      PROVE  Faults(head'.instr) \/ ~OnPath(head.tid)'
  <2>1. ~s.flush
    <3>1. ASSUME s.flush PROVE FALSE
      <4>1. bypass'.cnt = 0 /\ req' = Null
        BY <3>1, QueueStep DEF Basic, Queue, Step
      <4>2. head' = lsu_req'
        BY <4>1 DEF head, lsu_ctrl_o
      <4>3. ~lsu_req'.valid
        BY <4>1, NullFacts DEF lsu_req, Request
      <4> QED BY <1>9, <4>2, <4>3
    <3> QED BY <3>1
  <2>2. l.valid \/ s.valid
    BY <1>1, <1>9 DEF Translated
  <2>3. CASE ~pop_ld_o(ld, l) /\ ~pop_st_o(su, s)
    <3>1. head' = head
      BY <2>1, <2>2, <2>3, HeadStays
    <3> QED BY <1>4, <1>9, <3>1 DEF Faults
  <2>4. CASE pop_ld_o(ld, l) \/ pop_st_o(su, s)
    <3>1. pops(l, s) > 0
      BY <2>4 DEF pops
    <3>2. PICK t : t = head'.tid
      OBVIOUS
    <3>3. queued(t)'
      BY <1>9, <3>2, HeadQueued
    <3>4. ~OnPath(t)'
      BY <1>4, <1>9, <3>1, <3>3, FaultyLeft
    <3> QED BY <3>2, <3>4 DEF OnPath, Older, Age
  <2> QED BY <2>3, <2>4
<1> QED BY <1>6, <1>7, <1>8, <1>9 DEF Blamed, entry, SuWait, isLoad

\* A store in the output register is older than what is queued behind it.
LEMMA StoreFirst ==
    ASSUME Basic, InOrder, su = "VALID_STORE", NEW r, member(r)
    PROVE  Age(sur.tid) < Age(r.tid)
<1>1. r.tid \in TransId /\ queued(r.tid) /\ sur.tid # r.tid
  BY MemberFacts DEF Basic
<1>2. sur.tid \in TransId /\ waits(sur.tid) /\ entry(sur.tid).instr = sur.instr /\ isStore(sur.instr)
  BY DEF Basic, Held, owns, TypeOK, Request
<1>3. entry(sur.tid).issued /\ memop(entry(sur.tid).instr) /\ ~entry(sur.tid).instr.ex
  BY <1>2 DEF waits, memop, Basic, Marked
<1>4. ~queued(sur.tid)
  BY HeadFacts DEF Basic, Held, queued
<1>5. ~(Age(r.tid) < Age(sur.tid))
  BY <1>1, <1>2, <1>3, <1>4 DEF InOrder
<1>6. Age(r.tid) # Age(sur.tid)
  BY <1>1, <1>2, AgeInjective DEF Basic
<1>7. Age(r.tid) \in Nat /\ Age(sur.tid) \in Nat
  BY <1>1, <1>2, AgeFacts DEF Basic
<1> QED BY <1>5, <1>6, <1>7

\* When the store in the output register is faulty, what is queued is off the path.
LEMMA StoreTraps ==
    ASSUME Basic, Order, su = "VALID_STORE", sur.instr.fault # "no", NEW r, member(r)
    PROVE  ~OnPath(r.tid)
<1>1. r.tid \in TransId /\ queued(r.tid)
  BY MemberFacts DEF Basic
<1>2. PICK f \in TransId : entry(f).issued /\ Faults(entry(f).instr) /\ Age(f) < Age(r.tid)
  <2>1. CASE InOrder
    <3>1. sur.tid \in TransId /\ entry(sur.tid).issued /\ Faults(entry(sur.tid).instr)
      BY DEF Basic, Held, owns, waits, TypeOK, Request, Faults
    <3> QED BY <2>1, <3>1, StoreFirst
  <2>2. CASE Tripped
    BY <1>1, <2>2 DEF Tripped
  <2> QED BY <2>1, <2>2 DEF Order
<1> QED BY <1>2 DEF OnPath, Older, entry

\* A load that goes on has no exception, and one that ends has its own.
LEMMA LoadFaultsStep ==
    ASSUME Basic, Order, Precise, Blamed, LoadFaults, NEW x, NEW l, NEW s, NEW a, Step(x, l, s, a), Basic'
    PROVE  LoadFaults'
<1>1. Inputs(x) /\ Wired(x, l, s) /\ Heads(l, s) /\ Outstanding(l) /\ Piped(l)
  BY WireFacts, HeadStep, OutstandingStep, PipeStep DEF Basic
<1>2. l.ex <=> mmu.fault \/ x.walk = "error"
  BY <1>1 DEF Wired, mmu_ex
<1>3. ld = "SEND_TAG" /\ l.ex => l.rvalid
  BY <1>1 DEF Wired, kill_req_o, ctrl_rvalid, Basic, LoadProtocol
<1>4. ld = "SEND_TAG" => /\ x.walk = "no"
                         /\ mmu.fault <=> entry(ldd.tid).instr.fault # "no"
  BY <1>1 DEF Inputs, Blamed
<1>5. ldd.live => ldd.tid \in TransId /\ entry(ldd.tid).issued
  BY DEF Basic, TypeOK, Held, waits
<1>6. ASSUME ldd'.live, ld' # "SEND_TAG"
      PROVE  sb'.mem[ldd'.tid].instr.fault = "no"
  <2>1. ldd.live /\ ~l.rvalid /\ ldd'.tid = ldd.tid
    BY <1>1, <1>6 DEF Outstanding
  <2>2. sb'.mem[ldd.tid].issued
    BY <1>6, <2>1 DEF Basic, Held, waits, entry
  <2>3. sb'.mem[ldd.tid].instr = entry(ldd.tid).instr
    BY <1>5, <2>1, <2>2, SameEntry
  <2>4. entry(ldd.tid).instr.fault = "no"
    BY <1>2, <1>3, <1>4, <2>1 DEF LoadFaults
  <2> QED BY <2>1, <2>3, <2>4
<1>7. ASSUME ldpipe'.live, NEW t \in TransId, t = ldpipe'.tid, OnPath(t)'
      PROVE  ldpipe'.ex <=> sb'.mem[t].instr.fault # "no"
  <2>1. sb'.mem[t].issued
    BY <1>7 DEF OnPath
  <2>2. CASE l.valid /\ l.ex /\ ~l.rvalid /\ ldpipe'.tid = head.tid /\ ldpipe'.ex
    <3>1. head.valid /\ isLoad(head.instr) /\ member(head) /\ t = head.tid
      BY <1>1, <1>7, <2>2, HeadMember DEF Heads, Basic
    <3>2. waits(t) /\ entry(t).instr = head.instr
      BY <3>1, MemberFacts DEF Basic, owns
    <3>3. kept(x, t) /\ sb'.mem[t].instr = head.instr /\ ~x.c.flush
      BY <2>1, <3>2, SameEntry DEF waits
    <3>4. OnPath(t)
      BY <1>7, <3>3, PathStep DEF Onward
    <3>5. ~head.instr.ex
      BY <3>2 DEF waits, Basic, Marked
    <3>6. head.instr.fault # "no"
      <4>1. CASE x.walk = "error"
        BY <1>1, <4>1 DEF Inputs
      <4>2. CASE mmu.fault /\ su = "VALID_STORE"
        BY <3>1, <3>4, <4>2, StoreTraps DEF Blamed
      <4>3. CASE mmu.fault /\ su = "IDLE"
        BY <1>3, <2>2, <3>1, <3>4, <3>5, <4>3 DEF Blamed, Faults
      <4>4. su \notin SuWait
        BY <1>1, <2>2 DEF Heads
      <4>5. su \in {"IDLE", "VALID_STORE", "WAIT_TRANSLATION", "WAIT_STORE_READY"}
        BY DEF Basic, TypeOK, StoreState
      <4> QED BY <1>2, <2>2, <4>1, <4>2, <4>3, <4>4, <4>5 DEF SuWait
    <3> QED BY <2>2, <3>3, <3>6
  <2>3. CASE ldd.live /\ l.rvalid /\ ldpipe'.tid = ldd.tid /\ (ldpipe'.ex <=> l.ex /\ ld = "SEND_TAG")
    <3>1. sb'.mem[t].instr = entry(t).instr /\ t = ldd.tid
      BY <1>5, <1>7, <2>1, <2>3, SameEntry
    <3>2. CASE ld = "SEND_TAG"
      BY <1>2, <1>4, <2>3, <3>1, <3>2
    <3>3. CASE ld # "SEND_TAG"
      BY <2>3, <3>1, <3>3 DEF LoadFaults
    <3> QED BY <3>2, <3>3
  <2> QED BY <1>1, <1>7, <2>2, <2>3 DEF Piped
<1>8. ldpipe'.tid \in TransId
  BY DEF Basic, TypeOK
<1>9. ASSUME ldpipe'.live, OnPath(ldpipe.tid)'
      PROVE  ldpipe'.ex <=> sb'.mem[ldpipe'.tid].instr.fault # "no"
  <2>1. PICK t \in TransId : t = ldpipe'.tid
    BY <1>8
  <2>2. OnPath(t)'
    BY <1>9, <2>1 DEF OnPath, Older, Age
  <2> QED BY <1>7, <1>9, <2>1, <2>2
<1> QED BY <1>6, <1>9 DEF LoadFaults, entry

-----------------------------------------------------------------------------
(* The queue stays in order.                                               *)

\* A cycle in which the queue is in order and no store that has left it traps.
Quiet(l, s) == InOrder /\ ~s.flush /\ ~(trap(su, s) /\ su = "VALID_STORE")

\* Then the counter does not wrap, and at most the head leaves.
LEMMA QuietQueue ==
    ASSUME Basic, NEW x, NEW l, NEW s, NEW a, Step(x, l, s, a), Quiet(l, s)
    PROVE  LET n == IF lsu_req.valid THEN 1 ELSE 0
               p == pops(l, s)
           IN  /\ p \in {0, 1} /\ bypass.cnt \in {0, 1, 2} /\ bypass.rp \in {0, 1}
               /\ p = 1 => head.valid /\ bypass.cnt + n > 0
               /\ bypass.cnt = 2 => n = 0
               /\ bypass'.cnt = bypass.cnt + n - p
               /\ bypass'.rp = IF p = 1 THEN other ELSE bypass.rp
               /\ bypass.wp = IF bypass.cnt = 1 THEN other ELSE bypass.rp
<1>1. Counted(l, s) /\ Usual(l, s) /\ Heads(l, s)
  BY CountStep, UsualStep, HeadStep DEF Basic, Quiet
<1>2. ~(su = "VALID_STORE" /\ s.ex)
  BY DEF Quiet, trap
<1>3. pops(l, s) # 2 /\ ~(bypass.cnt = 0 /\ ~lsu_req.valid /\ pops(l, s) = 1) /\ (bypass.cnt = 2 => ~lsu_req.valid)
  BY <1>1, <1>2 DEF Usual
<1>4. bypass.cnt # 3
  BY DEF Quiet, InOrder
<1>5. pops(l, s) \in {0, 1} /\ bypass.cnt \in {0, 1, 2}
  BY <1>1, <1>3, <1>4 DEF Counted
<1>6. pops(l, s) = 1 => head.valid
  <2>1. bypass.cnt = 0 => head = lsu_req
    BY HeadFacts DEF Basic
  <2>2. bypass.cnt \in {1, 2} => head.valid
    BY HeadFacts DEF Basic, Shape
  <2> QED BY <1>3, <1>5, <2>1, <2>2
<1>7. bypass.rp \in {0, 1} /\ bypass.wp = IF bypass.cnt \in {0, 2} THEN bypass.rp ELSE 1 - bypass.rp
  BY <1>1 DEF Counted
<1>8. bypass'.rp = IF pops(l, s) = 1 THEN 1 - bypass.rp ELSE bypass.rp
  BY <1>1 DEF Counted
<1> DEFINE n == IF lsu_req.valid THEN 1 ELSE 0
<1>9. bypass'.cnt = CASE bypass.cnt + n - pops(l, s) < 0 -> bypass.cnt + n - pops(l, s) + 4
                      [] bypass.cnt + n - pops(l, s) > 3 -> bypass.cnt + n - pops(l, s) - 4
                      [] OTHER -> bypass.cnt + n - pops(l, s)
  BY <1>1, Zenon DEF Counted
<1>10. n \in {0, 1} /\ (lsu_req.valid <=> n = 1)
  OBVIOUS
<1> HIDE DEF n
<1>11. bypass.cnt = 2 => n = 0
  BY <1>3, <1>10
<1>12. pops(l, s) = 1 => bypass.cnt + n > 0
  BY <1>3, <1>5, <1>10
<1>13. bypass'.cnt = bypass.cnt + n - pops(l, s)
  BY <1>5, <1>9, <1>10, <1>11, <1>12
<1> QED BY <1>5, <1>6, <1>7, <1>8, <1>11, <1>12, <1>13 DEF n, other

\* Every request but the head that leaves is in the queue afterwards.
LEMMA MemberStays ==
    ASSUME Basic, NEW x, NEW l, NEW s, NEW a, Step(x, l, s, a), Quiet(l, s),
           NEW r, member(r), pops(l, s) = 0 \/ r.tid # head.tid
    PROVE  inPlace(r.tid)'
<1>1. \A k \in {0, 1} : pops(l, s) = 0 \/ (pops(l, s) = 1 /\ k # bypass.rp) => bypass'.mem[k] = wrote(k)
  BY CountStep, Zenon DEF Basic, Quiet, Counted
<1>2. /\ pops(l, s) \in {0, 1} /\ bypass.cnt \in {0, 1, 2} /\ bypass.rp \in {0, 1}
      /\ bypass.cnt = 2 => ~lsu_req.valid
      /\ bypass.wp = IF bypass.cnt = 1 THEN other ELSE bypass.rp
  BY QuietQueue
<1>3. /\ bypass.cnt = 0 => head = lsu_req
      /\ bypass.cnt # 0 => head = place(bypass.rp)
  BY HeadFacts DEF Basic
<1>4. SUFFICES \E k \in {0, 1} : bypass'.mem[k] = r
  BY DEF inPlace, place, member
<1>5. other \in {0, 1} /\ other # bypass.rp
  BY <1>2 DEF other
<1>6. CASE r = lsu_req
  <2>1. lsu_req.valid
    BY <1>6 DEF member
  <2>2. bypass.cnt = 0 \/ bypass.cnt = 1
    BY <1>2, <2>1
  <2>3. bypass.wp \in {0, 1} /\ wrote(bypass.wp) = r
    BY <1>2, <1>5, <1>6, <2>1 DEF wrote
  <2>4. pops(l, s) = 0 \/ (pops(l, s) = 1 /\ bypass.wp # bypass.rp)
    BY <1>2, <1>3, <1>5, <1>6, <2>2
  <2> QED BY <1>1, <2>3, <2>4
<1>7. CASE r # lsu_req
  <2>1. PICK k \in {0, 1} : r = place(k) /\ place(k).valid
    BY <1>7 DEF member
  <2>2. k = bypass.rp \/ k = other
    BY <1>2, <2>1 DEF other
  <2>3. bypass.cnt # 0
    BY <2>1 DEF Quiet, InOrder
  <2>4. CASE k = bypass.rp
    <3>1. pops(l, s) = 0
      BY <1>3, <2>1, <2>3, <2>4
    <3>2. wrote(k) = r
      BY <1>2, <1>5, <2>1, <2>3, <2>4 DEF wrote
    <3> QED BY <1>1, <3>1, <3>2
  <2>5. CASE k = other
    <3>1. bypass.cnt = 2
      BY <1>2, <2>1, <2>3, <2>5 DEF Quiet, InOrder
    <3>2. wrote(k) = r
      BY <1>2, <2>1, <3>1 DEF wrote
    <3> QED BY <1>1, <1>2, <1>5, <2>5, <3>2
  <2> QED BY <2>2, <2>4, <2>5
<1> QED BY <1>6, <1>7

\* An instruction that is issued without an exception is handed over.
LEMMA HandsOver ==
    ASSUME Basic, NEW x, NEW l, NEW s, NEW a, Step(x, l, s, a), NEW t \in TransId, filled(x, a, t),
           ~sb'.mem[t].instr.ex
    PROVE  req'.valid /\ req'.tid = t /\ req'.instr = sb'.mem[t].instr
<1>1. PICK i \in a : sb'.mem[t] = [issued |-> TRUE, valid |-> i.ex, ex |-> i.ex, instr |-> i]
  BY SbStep DEF Basic, Fate
<1>2. a = {i}
  BY <1>1, ScoreboardCycle DEF Basic
<1>3. sendsOf(a) = {i} /\ sb'.mem[t].instr = i
  BY <1>1, <1>2 DEF sendsOf
<1>4. ~s.flush /\ t = sb.ip
  BY CommitStep DEF Basic, filled
<1>5. (CHOOSE j \in sendsOf(a) : TRUE) = i
  BY <1>3
<1>6. req' = [valid |-> TRUE, tid |-> sb.ip, instr |-> CHOOSE j \in sendsOf(a) : TRUE]
  <2>1. req' = IF sendsOf(a) = {} \/ s.flush THEN Null
               ELSE [valid |-> TRUE, tid |-> sb.ip, instr |-> CHOOSE j \in sendsOf(a) : TRUE]
    BY Zenon DEF Step
  <2>2. sendsOf(a) # {}
    BY <1>3
  <2> QED BY <1>4, <2>1, <2>2, Zenon
<1> QED BY <1>3, <1>4, <1>5, <1>6

\* The places of a quiet queue.
LEMMA QuietPlaces ==
    ASSUME Basic, Order, NEW x, NEW l, NEW s, NEW a, Step(x, l, s, a), Quiet(l, s)
    PROVE  /\ bypass'.cnt \in {0, 1, 2}
           /\ bypass'.cnt = 0 => ~bypass'.mem[0].valid /\ ~bypass'.mem[1].valid
           /\ bypass'.cnt = 1 => ~bypass'.mem[1 - bypass'.rp].valid
           /\ bypass'.cnt = 2 => Age(bypass.mem[bypass.rp].tid)' < Age(bypass.mem[1 - bypass.rp].tid)'
<1> DEFINE n == IF lsu_req.valid THEN 1 ELSE 0
           p == pops(l, s)
<1>1. /\ \A k \in {0, 1} : p = 0 \/ (p = 1 /\ k # bypass.rp) => bypass'.mem[k] = wrote(k)
      /\ p > 0 => ~bypass'.mem[bypass.rp].valid
  BY CountStep, Zenon DEF Basic, Quiet, Counted
<1>2. /\ p \in {0, 1} /\ bypass.cnt \in {0, 1, 2} /\ bypass.rp \in {0, 1}
      /\ p = 1 => head.valid /\ bypass.cnt + n > 0
      /\ bypass.cnt = 2 => n = 0
      /\ bypass'.cnt = bypass.cnt + n - p
      /\ bypass'.rp = IF p = 1 THEN other ELSE bypass.rp
      /\ bypass.wp = IF bypass.cnt = 1 THEN other ELSE bypass.rp
  BY QuietQueue
<1>3. n \in {0, 1} /\ (lsu_req.valid <=> n = 1)
  OBVIOUS
<1>4. other = 1 - bypass.rp /\ other \in {0, 1} /\ other # bypass.rp /\ bypass.rp = 1 - other
  BY <1>2 DEF other
<1>5. bypass.cnt # 2 => ~place(other).valid
  BY <1>2, <1>4 DEF Quiet, InOrder
<1>6. bypass.cnt = 0 => ~place(bypass.rp).valid
  BY <1>2 DEF Quiet, InOrder
<1> HIDE DEF n, p
<1>7. bypass'.cnt \in {0, 1, 2}
  BY <1>2, <1>3
<1>8. ASSUME bypass'.cnt = 0
      PROVE  ~bypass'.mem[bypass.rp].valid /\ ~bypass'.mem[other].valid
  <2>1. (bypass.cnt = 0 /\ n = 0 /\ p = 0) \/ (bypass.cnt = 0 /\ n = 1 /\ p = 1) \/ (bypass.cnt = 1 /\ n = 0 /\ p = 1)
    BY <1>2, <1>3, <1>8
  <2>2. wrote(other) = place(other)
    BY <1>2, <1>3, <1>4, <2>1 DEF wrote
  <2>3. p = 0 => wrote(bypass.rp) = place(bypass.rp)
    BY <1>3, <2>1 DEF wrote
  <2> QED BY <1>1, <1>2, <1>4, <1>5, <1>6, <2>1, <2>2, <2>3
<1>9. ASSUME bypass'.cnt = 1
      PROVE  ~bypass'.mem[1 - bypass'.rp].valid
  <2>1. CASE p = 1
    BY <1>1, <1>2, <1>4, <2>1
  <2>2. CASE p = 0
    <3>1. (bypass.cnt = 0 /\ n = 1) \/ (bypass.cnt = 1 /\ n = 0)
      BY <1>2, <1>3, <1>9, <2>2
    <3>2. wrote(other) = place(other)
      BY <1>2, <1>3, <1>4, <3>1 DEF wrote
    <3> QED BY <1>1, <1>2, <1>4, <1>5, <2>2, <3>1, <3>2
  <2> QED BY <1>2, <2>1, <2>2
<1>10. ASSUME bypass'.cnt = 2
       PROVE  Age(bypass.mem[bypass.rp].tid)' < Age(bypass.mem[1 - bypass.rp].tid)'
  <2>1. p = 0 /\ ((bypass.cnt = 1 /\ n = 1) \/ (bypass.cnt = 2 /\ n = 0))
    BY <1>2, <1>3, <1>10
  <2>2. bypass'.rp = bypass.rp /\ head = place(bypass.rp) /\ head.valid
    BY <1>2, <2>1, HeadFacts DEF Basic, Shape
  <2>3. wrote(bypass.rp) = place(bypass.rp)
    BY <1>2, <1>3, <1>4, <2>1 DEF wrote
  <2>4. wrote(other).valid /\ member(wrote(other)) /\ wrote(other).tid # head.tid
    <3>1. CASE bypass.cnt = 1 /\ n = 1
      <4>1. wrote(other) = lsu_req /\ lsu_req.valid
        BY <1>2, <1>3, <3>1 DEF wrote
      <4>2. lsu_req.tid # head.tid
        BY <1>2, <2>2, <4>1, HeadFacts DEF Basic, Held, inPlace
      <4> QED BY <4>1, <4>2 DEF member
    <3>2. CASE bypass.cnt = 2 /\ n = 0
      <4>1. wrote(other) = place(other) /\ place(other).valid
        BY <1>3, <3>2 DEF wrote, Basic, Shape
      <4>2. place(other).tid # head.tid
        BY <1>2, <1>4, <2>2, <4>1 DEF Basic, Held, other
      <4> QED BY <1>4, <4>1, <4>2 DEF member
    <3> QED BY <2>1, <3>1, <3>2
  <2>a. PICK r, t, h : r = wrote(other) /\ t = r.tid /\ h = head.tid
    OBVIOUS
  <2>5. bypass'.mem[bypass'.rp].tid = h /\ bypass'.mem[1 - bypass'.rp].tid = t
    BY <1>1, <1>2, <1>4, <2>1, <2>2, <2>3, <2>a
  <2>6. member(r) /\ member(head) /\ t # h /\ r.tid = t /\ head.tid = h
    BY <2>2, <2>4, <2>a, HeadMember DEF Basic
  <2>7. Age(h) < Age(t)
    BY <2>2, <2>6, HeadOldest DEF Quiet
  <2>8. kept(x, h) /\ kept(x, t) /\ h \in TransId /\ t \in TransId
    <3>1. ~trap(su, s)
      BY <2>1 DEF p, pops, pop_st_o
    <3>2. ASSUME NEW q, member(q)
          PROVE  kept(x, q.tid) /\ q.tid \in TransId
      <4>1. q.tid \in TransId /\ waits(q.tid) /\ memop(entry(q.tid).instr)
        BY <3>2, MemberFacts DEF Basic, owns
      <4>2. ~written(s, q.tid)
        BY <3>1, <3>2, NotWritten DEF Basic
      <4> QED BY <4>1, <4>2, WaitStep DEF Basic, Quiet
    <3> QED BY <2>6, <3>2
  <2>9. Age(h)' < Age(t)'
    BY <2>7, <2>8, AgeStep DEF Basic
  <2> QED BY <2>5, <2>9 DEF Age
<1> QED BY <1>2, <1>4, <1>7, <1>8, <1>9, <1>10

\* What is queued or in the store unit's register after a cycle.
LEMMA Behind ==
    ASSUME Basic, NEW x, NEW l, NEW s, NEW a, Step(x, l, s, a), Basic', ~s.flush,
           NEW f \in TransId, kept(x, f), \A r : member(r) => Age(f) < Age(r.tid),
           NEW t \in TransId, queued(t)' \/ (su' # "IDLE" /\ t = sur'.tid)
    PROVE  Age(f)' < Age(t)'
<1>1. CASE queued(t)' /\ filled(x, a, t)
  BY <1>1, AgeStep DEF Basic
<1>2. CASE queued(t)' /\ ~filled(x, a, t)
  <2>1. Remains(x, l, s, a, t)
    BY <1>2, QueuedStep
  <2>2. PICK r : member(r) /\ r.tid = t
    BY <1>2, <2>1 DEF Remains
  <2>3. kept(x, t)
    BY <1>2, <2>1 DEF Remains
  <2> QED BY <2>2, <2>3, AgeStep DEF Basic
<1>3. CASE su' # "IDLE" /\ t = sur'.tid
  <2>1. Works(l, s) /\ Heads(l, s) /\ su' \in {"IDLE", "VALID_STORE", "WAIT_TRANSLATION", "WAIT_STORE_READY"}
    BY WorkStep, HeadStep DEF Basic, TypeOK, StoreState
  <2>2. sur' = head /\ head.valid
    BY <1>3, <2>1 DEF Works, Heads, SuWait
  <2>3. member(head) /\ t = head.tid /\ entry(t).issued
    BY <1>3, <2>2, HeadMember, MemberFacts DEF Basic, owns, waits
  <2>4. sb'.mem[t].issued
    BY <1>3 DEF Basic, Held, owns, waits, entry
  <2>5. kept(x, t)
    BY <2>3, <2>4, SameEntry
  <2> QED BY <2>3, <2>5, AgeStep DEF Basic
<1> QED BY <1>1, <1>2, <1>3

\* The queue is complete from its head on.
LEMMA QuietComplete ==
    ASSUME Basic, Order, NEW x, NEW l, NEW s, NEW a, Step(x, l, s, a), Basic', Quiet(l, s),
           NEW t \in TransId, NEW u \in TransId, queued(t)', sb'.mem[u].issued, Age(t)' < Age(u)',
           memop(sb'.mem[u].instr), ~sb'.mem[u].instr.ex
    PROVE  queued(u)'
<1>1. Fate(x, s, a, t) /\ Fate(x, s, a, u) /\ Remains(x, l, s, a, t)
  BY SbStep, QueuedStep DEF Basic
<1>2. CASE filled(x, a, u)
  <2>1. req'.valid /\ req'.tid = u /\ memop(req'.instr)
    BY <1>2, HandsOver
  <2>2. lsu_req'.valid
    BY <2>1 DEF lsu_req, memop, isLoad, isStore
  <2> QED BY <2>1, <2>2 DEF queued
<1>3. CASE kept(x, u)
  <2>1. ~filled(x, a, t)
    BY AgeStep DEF Basic
  <2>2. PICK r : member(r) /\ r.tid = t
    BY <1>1, <2>1 DEF Remains
  <2>3. kept(x, t) /\ (pops(l, s) > 0 /\ head.valid => t # head.tid)
    BY <1>1, <2>1 DEF Remains
  <2>4. Age(t) < Age(u) /\ entry(u).issued /\ memop(entry(u).instr) /\ ~entry(u).instr.ex
    BY <1>1, <1>3, <2>3, AgeStep DEF Basic, kept, Fate
  <2>5. queued(u)
    BY <2>2, <2>4, MemberFacts DEF Basic, Quiet, InOrder
  <2>6. PICK q : member(q) /\ q.tid = u
    <3>1. lsu_req.tid = req.tid
      BY HeadFacts DEF Basic
    <3> QED BY <2>5, <3>1 DEF queued, inPlace, member
  <2>7. pops(l, s) = 0 \/ u # head.tid
    <3>1. pops(l, s) \in {0, 1} /\ (pops(l, s) = 1 => head.valid)
      BY QuietQueue
    <3>2. CASE pops(l, s) = 1
      <4>1. Age(head.tid) < Age(t)
        BY <2>2, <2>3, <3>1, <3>2, HeadOldest DEF Quiet
      <4>2. head.tid \in TransId
        BY HeadFacts DEF Basic, Request
      <4>3. Age(head.tid) \in Nat /\ Age(t) \in Nat /\ Age(u) \in Nat
        BY <4>2, AgeFacts DEF Basic
      <4> QED BY <2>4, <4>1, <4>3
    <3> QED BY <3>1, <3>2
  <2>8. inPlace(q.tid)'
    BY <2>6, <2>7, MemberStays
  <2> QED BY <2>6, <2>8 DEF queued, inPlace
<1> QED BY <1>1, <1>2, <1>3 DEF Fate

\* The queue is in order, or behind a faulty instruction, after every cycle.
LEMMA OrderStep ==
    ASSUME Basic, Order, Blamed, Precise, NEW x, NEW l, NEW s, NEW a, Step(x, l, s, a), Basic'
    PROVE  Order'
<1>1. s.flush = x.c.flush /\ Handed(x, a) /\ sb.ip \in TransId
  BY CommitStep, HandedStep DEF Basic
<1>2. ASSUME req'.valid
      PROVE  Age(req.tid)' = sb'.cnt - 1
  <2>1. filled(x, a, sb.ip) /\ req'.tid = sb.ip
    BY <1>1, <1>2 DEF Handed, filled
  <2>2. PICK t \in TransId : t = sb.ip
    BY <1>1
  <2>3. Age(t)' = sb'.cnt - 1
    BY <2>1, <2>2, SbStep DEF Basic, Fate
  <2> QED BY <2>1, <2>2, <2>3 DEF Age
<1>3. CASE s.flush
  <2>1. /\ bypass'.cnt = 0 /\ ~bypass'.mem[0].valid /\ ~bypass'.mem[1].valid
    BY <1>3, QueueStep, NullFacts DEF Basic, Queue
  <2>2. \A t \in TransId : ~queued(t)'
    BY <1>3, QueuedStep
  <2>3. InOrder'
    BY <2>1, <2>2 DEF InOrder, place
  <2> QED BY <1>2, <2>3 DEF Order
<1>4. CASE ~s.flush /\ Tripped
  <2>1. PICK f \in TransId : /\ entry(f).issued /\ Faults(entry(f).instr)
                             /\ \A t \in TransId : queued(t) \/ (su # "IDLE" /\ t = sur.tid) => Age(f) < Age(t)
    BY <1>4 DEF Tripped
  <2>2. kept(x, f)
    BY <1>1, <1>4, <2>1, PathStep DEF Onward
  <2>3. \A r : member(r) => Age(f) < Age(r.tid)
    BY <2>1, MemberFacts DEF Basic
  <2>4. \A t \in TransId : queued(t)' \/ (su' # "IDLE" /\ t = sur'.tid) => Age(f)' < Age(t)'
    BY <1>4, <2>2, <2>3, Behind
  <2>5. sb'.mem[f].issued /\ Faults(sb'.mem[f].instr)
    BY <2>1, <2>2, SbStep DEF Basic, Fate
  <2>6. Tripped'
    BY <2>4, <2>5 DEF Tripped, entry
  <2> QED BY <1>2, <2>6 DEF Order
<1>5. CASE ~s.flush /\ InOrder /\ trap(su, s) /\ su = "VALID_STORE"
  <2>1. sur.instr.fault # "no"
    BY <1>5, StoreBlame DEF valid_o, trap
  <2>2. PICK f \in TransId : f = sur.tid
    BY DEF Basic, TypeOK, Request
  <2>3. entry(f).issued /\ Faults(entry(f).instr)
    BY <1>5, <2>1, <2>2 DEF Basic, Held, owns, waits, Faults
  <2>4. kept(x, f)
    BY <1>1, <1>5, <2>3, PathStep DEF Onward
  <2>5. \A r : member(r) => Age(f) < Age(r.tid)
    BY <1>5, <2>2, StoreFirst
  <2>6. \A t \in TransId : queued(t)' \/ (su' # "IDLE" /\ t = sur'.tid) => Age(f)' < Age(t)'
    BY <1>5, <2>4, <2>5, Behind
  <2>7. sb'.mem[f].issued /\ Faults(sb'.mem[f].instr)
    BY <2>3, <2>4, SbStep DEF Basic, Fate
  <2>8. Tripped'
    BY <2>6, <2>7 DEF Tripped, entry
  <2> QED BY <1>2, <2>8 DEF Order
<1>6. CASE Quiet(l, s)
  <2>1. /\ bypass'.cnt \in {0, 1, 2}
        /\ bypass'.cnt = 0 => ~bypass'.mem[0].valid /\ ~bypass'.mem[1].valid
        /\ bypass'.cnt = 1 => ~bypass'.mem[1 - bypass'.rp].valid
        /\ bypass'.cnt = 2 => Age(bypass.mem[bypass.rp].tid)' < Age(bypass.mem[1 - bypass.rp].tid)'
    BY <1>6, QuietPlaces
  <2>2. \A t, u \in TransId :
          queued(t)' /\ sb'.mem[u].issued /\ Age(t)' < Age(u)' /\ memop(sb'.mem[u].instr) /\ ~sb'.mem[u].instr.ex
             => queued(u)'
    BY <1>6, QuietComplete
  <2>3. InOrder'
    BY <2>1, <2>2 DEF InOrder, place, other, entry, memop, isLoad, isStore
  <2> QED BY <1>2, <2>3 DEF Order
<1> QED BY <1>3, <1>4, <1>5, <1>6 DEF Order, Quiet

-----------------------------------------------------------------------------
(* Exceptions are precise.                                                 *)

Traps == Basic /\ Order /\ Walking /\ Blamed /\ LoadFaults /\ Precise

LEMMA TrapsInit ==
    ASSUME Init
    PROVE  Traps
<1>1. Basic /\ \A t \in TransId : ~entry(t).issued /\ ~entry(t).valid
  BY BasicInit, ResetScoreboard
<1>2. /\ ~req.valid /\ bypass.cnt = 0 /\ \A k \in {0, 1} : ~place(k).valid
      /\ su = "IDLE" /\ ld = "IDLE" /\ ~ldd.live /\ ~ldpipe.live /\ ~mmu.fault /\ mmu.tlb = "unknown"
  BY NullFacts DEF Init, place
<1>3. Order
  BY <1>1, <1>2 DEF Order, InOrder
<1>4. Walking /\ Blamed /\ LoadFaults
  BY <1>2 DEF Walking, Blamed, LoadFaults, SuWait
<1>5. Precise
  BY <1>1 DEF Precise, waits
<1> QED BY <1>1, <1>3, <1>4, <1>5 DEF Traps

LEMMA TrapsStep ==
    ASSUME Traps, Next
    PROVE  Traps'
<1>1. PICK x, l, s, a : Step(x, l, s, a)
  BY NextIsStep
<1>2. Basic /\ Order /\ Walking /\ Blamed /\ LoadFaults /\ Precise /\ Basic'
  BY BasicStep DEF Traps
<1>3. Order' /\ Walking'
  BY <1>1, <1>2, OrderStep, WalkingStep
<1>4. Blamed' /\ LoadFaults'
  BY <1>1, <1>2, BlamedStep, LoadFaultsStep
<1>5. Precise'
  BY <1>1, <1>2, PreciseStep
<1> QED BY <1>2, <1>3, <1>4, <1>5 DEF Traps

LEMMA TrapsStutter ==
    ASSUME Traps, UNCHANGED vars
    PROVE  Traps'
<1>1. /\ prog' = prog /\ sb' = sb /\ req' = req /\ bypass' = bypass /\ ld' = ld /\ ldd' = ldd /\ ldpipe' = ldpipe
      /\ dc' = dc /\ su' = su /\ sur' = sur /\ amo' = amo /\ spec' = spec /\ comm' = comm /\ mmu' = mmu /\ dbg' = dbg
  BY DEF vars
<1>2. lsu_req' = lsu_req
  BY <1>1 DEF lsu_req, isLoad, isStore
<1>3. head' = head
  BY <1>1, <1>2 DEF head, lsu_ctrl_o
<1>4. \A t : (OnPath(t)' <=> OnPath(t)) /\ (queued(t)' <=> queued(t)) /\ Age(t)' = Age(t)
  BY <1>1, <1>2 DEF OnPath, Older, Age, queued, inPlace, place
<1>5. Basic'
  BY BasicStutter DEF Traps
<1>6. InOrder' <=> InOrder
  BY <1>1, <1>2 DEF InOrder, OnPath, Older, Age, queued, inPlace, place, other, entry, memop, isLoad, isStore
<1>7. Tripped' <=> Tripped
  BY <1>1, <1>4 DEF Tripped, entry
<1>8. Order'
  BY <1>1, <1>6, <1>7 DEF Traps, Order, Age
<1>9. Walking'
  BY <1>1, <1>3 DEF Traps, Walking, SuWait, isLoad, isStore
<1>10. Blamed'
  <2>1. OnPath(head.tid)' <=> OnPath(head.tid)
    BY <1>1, <1>3 DEF OnPath, Older, Age
  <2> QED BY <1>1, <1>3, <2>1 DEF Traps, Blamed, SuWait, isLoad, entry, Faults
<1>11. LoadFaults'
  <2>1. OnPath(ldpipe.tid)' <=> OnPath(ldpipe.tid)
    BY <1>1 DEF OnPath, Older, Age
  <2> QED BY <1>1, <2>1 DEF Traps, LoadFaults, entry
<1>12. Precise'
  BY <1>1, <1>4 DEF Traps, Precise, waits, entry, Faults
<1> QED BY <1>5, <1>8, <1>9, <1>10, <1>11, <1>12 DEF Traps

LEMMA TrapsAlways == Spec => []Traps
<1>1. Init => Traps
  BY TrapsInit
<1>2. Traps /\ [Next]_vars => Traps'
  BY TrapsStep, TrapsStutter
<1> QED BY <1>1, <1>2, PTL DEF Spec

\* The oldest entry is on the path.
LEMMA OldestOnPath ==
    ASSUME Basic, entry(sb.cp0).issued
    PROVE  sb.cp0 \in TransId /\ OnPath(sb.cp0) /\ c0 = entry(sb.cp0) /\ Age(sb.cp0) = 0
<1>1. sb.cp0 \in TransId /\ c0 = entry(sb.cp0)
  BY DEF Basic, TypeOK, SCB!SB, SCB!TransId, TransId, c0, SCB!commit_instr_o, entry
<1>2. Age(sb.cp0) = 0
  BY <1>1, AgeIsDist, SizeAssumption DEF Age, SCP!Dist, TransId
<1>3. \A u \in TransId : Age(u) \in Nat
  BY AgeFacts DEF Basic
<1>4. Older(sb.cp0) = {}
  BY <1>2, <1>3 DEF Older
<1> QED BY <1>1, <1>2, <1>4 DEF OnPath, entry

\* The oldest instruction, once complete, carries an exception exactly if it
\* causes one itself, although MMU exceptions are seen by both units of
\* load_store_unit.sv and by the requests behind the one that caused them.
THEOREM ExceptionsPrecise == Spec => []ExceptionPrecise
<1>1. Traps => ExceptionPrecise
  <2> SUFFICES ASSUME Traps, c0.valid
               PROVE  c0.ex <=> Faults(c0.instr)
    BY DEF ExceptionPrecise
  <2>1. sb.cp0 \in TransId /\ c0 = entry(sb.cp0)
    BY DEF Traps, Basic, TypeOK, SCB!SB, SCB!TransId, TransId, c0, SCB!commit_instr_o, entry
  <2>2. entry(sb.cp0).issued
    BY <2>1, SameScoreboard DEF Traps, Basic, Ring, SCP!ByIndex, entry
  <2>3. OnPath(sb.cp0)
    BY <2>2, OldestOnPath DEF Traps
  <2> QED BY <2>1, <2>3 DEF Traps, Precise
<1> QED BY <1>1, TrapsAlways, PTL

-----------------------------------------------------------------------------
(* Atomics.                                                                *)

\* What retires is on the commit ports.
LEMMA Acked ==
    ASSUME Basic, NEW x, NEW l, NEW s, NEW a, Step(x, l, s, a), NEW t \in TransId, entry(t).issued, Age(t) < x.c.ack
    PROVE  \/ Age(t) = 0 /\ t = sb.cp0 /\ entry(t) = c0
           \/ Age(t) = 1 /\ x.c.ack = 2 /\ entry(t) = c1
<1>1. /\ Decided(x.c) /\ c0 = sb.mem[sb.cp0] /\ c1 = sb.mem[sb.cp1] /\ sb.cp0 \in TransId /\ sb.cnt \in TransId
  BY CommitStep DEF Basic
<1>2. Age(t) = SCP!Dist(sb.cp0, t)
  BY <1>1, AgeIsDist DEF Age
<1>3. x.c.ack \in 0 .. 2 /\ Age(t) \in Nat /\ Age(t) < sb.cnt /\ NR_ENTRIES \in Nat /\ NR_ENTRIES > 1 /\ sb.cnt \in Nat
  BY <1>1, AgeFacts, SizeAssumption DEF Decided, Basic
<1>4. CASE Age(t) = 0
  <2>1. t = sb.cp0
    BY <1>1, <1>2, <1>3, <1>4 DEF SCP!Dist, TransId
  <2> QED BY <1>1, <1>4, <2>1 DEF entry
<1>5. CASE Age(t) = 1 /\ x.c.ack = 2
  <2>1. t = SCP!At(sb.cp0, 1)
    BY <1>1, <1>2, <1>3, <1>5 DEF SCP!Dist, SCP!At, TransId
  <2>2. sb.cp1 = SCP!At(sb.cp0, 1)
    BY <1>3 DEF SCP!PortsReady, Basic, Ring
  <2> QED BY <1>1, <1>5, <2>1, <2>2 DEF entry
<1> QED BY <1>3, <1>4, <1>5

\* What happens to the AMO buffer in a cycle.
LEMMA AmoRegister ==
    ASSUME Basic, Amos, NEW x, NEW l, NEW s, NEW a, Step(x, l, s, a)
    PROVE  /\ x.c.flush => amo' = {}
           /\ ~x.c.flush => amo' = IF st_valid(su, s) /\ is_amo(sur.instr) THEN {sur.tid} ELSE amo
<1>1. Decided(x.c) /\ s.flush = x.c.flush
  BY CommitStep DEF Basic
<1> DEFINE push == st_valid(su, s) /\ is_amo(sur.instr)
<1>2. amo' = amo_next(amo, push, sur.tid, x.c.amo_ack, amo_flush(s.flush, x.c.amo_valid))
  BY DEF Step
<1>3. push => amo = {} /\ ~s.flush
  BY DEF st_valid, Amos
<1> HIDE DEF push
<1>4. CASE x.c.flush
  BY <1>1, <1>2, <1>3, <1>4 DEF amo_next, amo_flush, Decided
<1>5. CASE ~x.c.flush
  <2>1. ~x.c.amo_ack /\ ~amo_flush(s.flush, x.c.amo_valid)
    BY <1>1, <1>5 DEF Decided, amo_flush
  <2> QED BY <1>2, <1>3, <1>5, <2>1 DEF amo_next, push
<1> QED BY <1>4, <1>5

\* An entry that has just been filled is complete only with an exception.
LEMMA FilledEntry ==
    ASSUME NEW x, NEW s, NEW a, NEW t \in TransId, Fate(x, s, a, t), filled(x, a, t)
    PROVE  sb'.mem[t].issued /\ (sb'.mem[t].valid <=> sb'.mem[t].ex)
<1>1. PICK i \in a : sb'.mem[t] = [issued |-> TRUE, valid |-> i.ex, ex |-> i.ex, instr |-> i]
  BY DEF Fate
<1> QED BY <1>1

LEMMA AmosStep ==
    ASSUME Basic, Amos, NEW x, NEW l, NEW s, NEW a, Step(x, l, s, a), Basic'
    PROVE  Amos'
<1>1. /\ x.c.flush => amo' = {}
      /\ ~x.c.flush => amo' = IF st_valid(su, s) /\ is_amo(sur.instr) THEN {sur.tid} ELSE amo
  BY AmoRegister
<1>2. Decided(x.c) /\ s.flush = x.c.flush /\ (\A t \in TransId : Fate(x, s, a, t)) /\ x.c.ack \in Nat /\ amo \subseteq TransId
  BY CommitStep, SbStep DEF Basic, Decided, TypeOK
<1>3. CASE x.c.flush
  <2>1. \A t \in TransId : ~sb'.mem[t].valid
    BY <1>2, <1>3 DEF Fate, kept, filled
  <2> QED BY <1>1, <1>3, <2>1 DEF Amos, entry
<1>4. CASE ~x.c.flush
  <2>1. ASSUME su' = "VALID_STORE", is_amo(sur'.instr)
        PROVE  amo' = {}
    <3>1. taken(su, s) /\ s.st_ready /\ sur' = head
      BY <1>2, <1>4, <2>1, WorkStep DEF Basic, Works
    <3>2. su = "IDLE" /\ amo = {}
      BY <2>1, <3>1, WireFacts DEF Basic, Wired, taken
    <3> QED BY <1>1, <1>4, <3>2 DEF st_valid
  <2>2. ASSUME NEW t \in amo'
        PROVE  sb'.mem[t].issued /\ sb'.mem[t].valid /\ is_amo(sb'.mem[t].instr) /\ amo' = {t}
    <3>1. CASE st_valid(su, s) /\ is_amo(sur.instr)
      <4>1. t = sur.tid /\ amo' = {t} /\ su = "VALID_STORE"
        BY <1>1, <1>4, <2>2, <3>1 DEF st_valid
      <4>2. t \in TransId /\ waits(t) /\ entry(t).instr = sur.instr
        BY <4>1 DEF Basic, Held, owns, TypeOK, Request
      <4>3. kept(x, t)
        BY <1>2, <1>4, <4>2, AgeFacts DEF Fate, kept, waits, Basic
      <4>4. written(s, t)
        BY <4>1 DEF written, valid_o
      <4> QED BY <1>2, <3>1, <4>1, <4>2, <4>3, <4>4 DEF Fate
    <3>2. CASE ~(st_valid(su, s) /\ is_amo(sur.instr))
      <4>1. amo' = amo /\ t \in amo /\ amo' = {t} /\ t \in TransId
        BY <1>1, <1>2, <1>4, <2>2, <3>2 DEF Amos
      <4>2. entry(t).issued /\ entry(t).valid /\ is_amo(entry(t).instr)
        BY <4>1 DEF Amos
      <4>3. ~(Age(t) < x.c.ack)
        <5>1. SUFFICES ASSUME Age(t) < x.c.ack
                       PROVE  FALSE
          OBVIOUS
        <5>2. entry(t).instr \in Instr /\ fu(entry(t).instr) = "STORE"
          BY <4>1, <4>2, CommitStep, FuFacts DEF Basic, SCB!Entry, entry, is_amo
        <5> QED BY <1>2, <1>4, <4>1, <4>2, <5>1, <5>2, Acked, AgeFacts DEF Decided, Basic
      <4>4. kept(x, t)
        BY <1>2, <1>4, <4>1, <4>2, <4>3, AgeFacts DEF kept, Basic
      <4> QED BY <1>2, <4>1, <4>2, <4>4 DEF Fate
    <3> QED BY <3>1, <3>2
  <2>3. ASSUME NEW t \in TransId, sb'.mem[t].valid, ~sb'.mem[t].ex, is_amo(sb'.mem[t].instr)
        PROVE  amo' = {t}
    <3>1. kept(x, t)
      <4>1. ~filled(x, a, t)
        BY <1>2, <2>3, FilledEntry
      <4> QED BY <1>2, <2>3, <4>1 DEF Fate
    <3>2. /\ sb'.mem[t].instr = entry(t).instr /\ entry(t).issued
          /\ entry(t).valid \/ fu(entry(t).instr) = "NONE" \/ written(s, t)
          /\ ~entry(t).ex /\ ~excepted(s, t)
      BY <1>2, <2>3, <3>1 DEF Fate, kept
    <3>3. CASE entry(t).valid
      <4>1. amo = {t}
        BY <2>3, <3>2, <3>3 DEF Amos
      <4>2. ~(st_valid(su, s) /\ is_amo(sur.instr))
        BY <4>1 DEF st_valid, Amos
      <4> QED BY <1>1, <1>4, <4>1, <4>2
    <3>4. CASE ~entry(t).valid
      <4>1. entry(t).instr \in Instr /\ fu(entry(t).instr) = "STORE"
        BY <2>3, <3>2, CommitStep, FuFacts DEF Basic, SCB!Entry, entry, is_amo
      <4>2. valid_o(su, s) /\ sur.tid = t /\ ~s.ex /\ entry(t).instr = sur.instr
        BY <3>2, <3>4, <4>1, WrittenWaits DEF isLoad
      <4>3. st_valid(su, s)
        BY <1>2, <1>4, <4>2 DEF valid_o, st_valid, trap
      <4> QED BY <1>1, <1>4, <2>3, <3>2, <4>2, <4>3
    <3> QED BY <3>3, <3>4
  <2> QED BY <2>1, <2>2, <2>3 DEF Amos, entry
<1> QED BY <1>3, <1>4

LEMMA AmosAlways == Spec => [](Basic /\ Amos)
<1>1. Init => Basic /\ Amos
  <2> SUFFICES ASSUME Init
               PROVE  Basic /\ Amos
    OBVIOUS
  <2>1. \A t \in TransId : ~entry(t).valid
    BY ResetScoreboard
  <2>2. amo = {} /\ su = "IDLE"
    BY DEF Init
  <2> QED BY <2>1, <2>2, BasicInit DEF Amos
<1>2. Basic /\ Amos /\ [Next]_vars => Basic' /\ Amos'
  <2> SUFFICES ASSUME Basic, Amos, [Next]_vars
               PROVE  Basic' /\ Amos'
    OBVIOUS
  <2>1. CASE Next
    <3>1. PICK x, l, s, a : Step(x, l, s, a)
      BY <2>1, NextIsStep
    <3>2. Basic'
      BY <2>1, BasicStep
    <3> QED BY <3>1, <3>2, AmosStep
  <2>2. CASE UNCHANGED vars
    <3>1. Basic'
      BY <2>2, BasicStutter
    <3> QED BY <2>2, <3>1 DEF vars, Amos, entry
  <2> QED BY <2>1, <2>2
<1> QED BY <1>1, <1>2, PTL DEF Spec

\* A completed atomic at the head of the scoreboard is the one in the buffer of
\* amo_buffer.sv, so the commit stage, which waits for it there, is answered.
THEOREM AmosBuffered == Spec => []AmoBuffered
<1>1. Basic /\ Amos => AmoBuffered
  <2> SUFFICES ASSUME Basic, Amos, c0.valid, ~c0.ex, is_amo(c0.instr)
               PROVE  amo = {sb.cp0}
    BY DEF AmoBuffered
  <2>1. sb.cp0 \in TransId /\ c0 = entry(sb.cp0)
    BY DEF Basic, TypeOK, SCB!SB, SCB!TransId, TransId, c0, SCB!commit_instr_o, entry
  <2> QED BY <2>1 DEF Amos
<1> QED BY <1>1, AmosAlways, PTL

-----------------------------------------------------------------------------
(* The store buffer.  From here on the core is not single-stepped.         *)

\* The rings and what they contain.
LEMMA RingFacts ==
    ASSUME TypeOK, Rings
    PROVE  /\ spec \in SBP!Ring(DEPTH_SPEC) /\ comm \in SBP!Ring(DEPTH_COMMIT)
           /\ SBP!RingConsistent(spec, DEPTH_SPEC) /\ SBP!RingConsistent(comm, DEPTH_COMMIT)
           /\ STB!specq = SBP!Contents(spec, DEPTH_SPEC) /\ STB!commq = SBP!Contents(comm, DEPTH_COMMIT)
           /\ STB!specq \in Seq(STB!Store) /\ Len(STB!specq) = spec.cnt /\ spec.cnt \in 0 .. DEPTH_SPEC
           /\ STB!commq \in Seq(STB!Store) /\ Len(STB!commq) = comm.cnt /\ comm.cnt \in 0 .. DEPTH_COMMIT
           /\ spec.cnt > 0 => SBP!Oldest(spec).st = STB!specq[1]
           /\ SBP!data_req(comm) => comm.cnt > 0
           /\ DEPTH_SPEC \in Nat \ {0} /\ DEPTH_COMMIT \in Nat \ {0}
<1>1. DEPTH_SPEC \in Nat \ {0} /\ DEPTH_COMMIT \in Nat \ {0}
  BY SizeAssumption
<1>2. /\ spec \in SBP!Ring(DEPTH_SPEC) /\ comm \in SBP!Ring(DEPTH_COMMIT)
      /\ SBP!RingConsistent(spec, DEPTH_SPEC) /\ SBP!RingConsistent(comm, DEPTH_COMMIT)
  BY SameStoreBuffer DEF TypeOK, Rings
<1>3. STB!specq = SBP!Contents(spec, DEPTH_SPEC) /\ STB!commq = SBP!Contents(comm, DEPTH_COMMIT)
  BY SameStoreBuffer DEF STB!specq, STB!commq
<1>4. /\ STB!specq \in Seq(STB!Store) /\ Len(STB!specq) = spec.cnt
      /\ STB!commq \in Seq(STB!Store) /\ Len(STB!commq) = comm.cnt
  BY <1>1, <1>2, <1>3, SameStoreBuffer, SBP!ContentsType
<1>5. spec.cnt \in 0 .. DEPTH_SPEC /\ comm.cnt \in 0 .. DEPTH_COMMIT
  BY <1>1, <1>2 DEF SBP!Ring, SBP!RingConsistent
<1>6. ASSUME spec.cnt > 0
      PROVE  SBP!Oldest(spec).st = STB!specq[1]
  <2>1. STB!specq # <<>> /\ Head(STB!specq) = spec.queue[spec.rd].st
    BY <1>1, <1>2, <1>3, <1>5, <1>6, SameStoreBuffer, SBP!OldestIsHead
  <2>2. Head(STB!specq) = STB!specq[1]
    BY <1>4, <2>1
  <2> QED BY <2>1, <2>2 DEF SBP!Oldest
<1>7. SBP!data_req(comm) => comm.cnt > 0
  BY <1>1, <1>2, <1>5, SameStoreBuffer, SBP!HeadValid DEF SBP!data_req
<1> QED BY <1>1, <1>2, <1>3, <1>4, <1>5, <1>6, <1>7

\* Sequence m is q without its first d places and, if `push', with st at the end.
Shifted(m, q, d, push, st) ==
    /\ Len(m) = Len(q) - d + (IF push THEN 1 ELSE 0)
    /\ \A k \in 1 .. Len(q) - d : m[k] = q[k + d]
    /\ push => m[Len(q) - d + 1] = st

\* The sequence of a ring after a cycle, place by place.
LEMMA MovedFacts ==
    ASSUME NEW S, NEW q \in Seq(S), NEW pop \in BOOLEAN, NEW push \in BOOLEAN, NEW st \in S,
           pop => Len(q) > 0
    PROVE  Shifted(SBP!Moved(q, pop, IF push THEN <<st>> ELSE <<>>), q, IF pop THEN 1 ELSE 0, push, st)
<1> DEFINE t == IF pop THEN Tail(q) ELSE q
           p == IF push THEN <<st>> ELSE <<>>
           d == IF pop THEN 1 ELSE 0
<1>1. t \in Seq(S) /\ Len(t) = Len(q) - d /\ \A k \in 1 .. Len(q) - d : t[k] = q[k + d]
  <2>1. CASE pop
    <3>1. q # <<>>
      BY <2>1
    <3> QED BY <2>1, <3>1
  <2>2. CASE ~pop
    BY <2>2
  <2> QED BY <2>1, <2>2
<1>2. p \in Seq(S) /\ Len(p) = (IF push THEN 1 ELSE 0) /\ (push => p[1] = st)
  OBVIOUS
<1>3. SBP!Moved(q, pop, p) = t \o p
  BY DEF SBP!Moved
<1> HIDE DEF t, p
<1>4. /\ Len(t \o p) = Len(t) + Len(p)
      /\ \A k \in 1 .. Len(t) : (t \o p)[k] = t[k]
      /\ Len(p) = 1 => (t \o p)[Len(t) + 1] = p[1]
  <2>1. t \in Seq(S) /\ p \in Seq(S)
    BY <1>1, <1>2
  <2>2. Len(t) \in Nat /\ Len(p) \in Nat
    BY <2>1
  <2> QED BY <2>1, <2>2
<1>5. Shifted(SBP!Moved(q, pop, p), q, d, push, st)
  BY <1>1, <1>2, <1>3, <1>4 DEF Shifted
<1> QED BY <1>5 DEF p, d

\* What enters the speculative queue and what leaves it.
pushes(s) == st_valid(su, s) /\ ~is_amo(sur.instr)
gone(x) == IF x.c.commit THEN 1 ELSE 0

\* What the assertions of store_buffer.sv ask of a cycle.
Asked(x, s) ==
    /\ x.c.flush => ~x.c.commit
    /\ pushes(s) => spec.cnt < DEPTH_SPEC
    /\ x.c.commit => spec.cnt > 0

\* What a cycle then does to the two queues.
Buffered(x, s) ==
    /\ Rings' /\ spec'.cnt \in Nat /\ comm'.cnt \in Nat
    /\ x.c.flush => spec'.cnt = 0
    /\ ~x.c.flush =>
         /\ spec'.cnt = spec.cnt - gone(x) + (IF pushes(s) THEN 1 ELSE 0)
         /\ \A k \in 1 .. spec.cnt - gone(x) : STB!specq'[k] = STB!specq[k + gone(x)]
         /\ pushes(s) => STB!specq'[spec.cnt - gone(x) + 1] = StoreOf(sur.tid, sur.instr)
    /\ \A k \in 1 .. comm'.cnt : \/ \E j \in 1 .. comm.cnt : STB!commq'[k] = STB!commq[j]
                                 \/ x.c.commit /\ STB!commq'[k] = STB!specq[1]
    /\ comm.cnt = 0 /\ ~x.c.commit => comm'.cnt = 0

LEMMA BufferStep ==
    ASSUME TypeOK, Rings, NEW x, NEW l, NEW s, NEW a, Step(x, l, s, a), TypeOK', Asked(x, s)
    PROVE  Buffered(x, s)
<1> DEFINE b == storeBufferIn(x, s)
           S == STB!Store
<1>1. /\ b \in SBP!Input /\ (b.valid <=> pushes(s)) /\ b.st = StoreOf(sur.tid, sur.instr)
      /\ b.commit = x.c.commit /\ b.flush = x.c.flush /\ b.gnt = x.gnt
  BY BufferInput DEF pushes
<1>2. spec' = SBP!core_if(spec, b) /\ comm' = SBP!store_if(spec, comm, b)
  BY SameStoreBuffer DEF Step
<1>3. /\ b.flush => ~b.commit
      /\ spec.cnt = DEPTH_SPEC => ~b.valid
      /\ spec.cnt = 0 => ~b.commit
      /\ comm.cnt = DEPTH_COMMIT => ~b.commit
  <2>1. Decided(x.c)
    BY CommitStep
  <2> QED BY <1>1, <2>1, RingFacts DEF Asked, Decided
<1>4. /\ b.valid \in BOOLEAN /\ b.commit \in BOOLEAN /\ b.st \in S /\ b.flush \in BOOLEAN /\ b.gnt \in BOOLEAN
      /\ SBP!data_req(comm) \in BOOLEAN
  BY <1>1, SameStoreBuffer, RingFacts DEF SBP!Input, SBP!data_req, SBP!Ring, SBP!Entry
<1> HIDE DEF b
<1>5. SBP!RingConsistent(spec', DEPTH_SPEC) /\ SBP!RingConsistent(comm', DEPTH_COMMIT)
  <2>1. SBP!RingConsistent(SBP!core_if(spec, b), DEPTH_SPEC)
    BY <1>1, <1>3, RingFacts, SameStoreBuffer, SBP!SpecConsistent
  <2>2. SBP!RingConsistent(SBP!store_if(spec, comm, b), DEPTH_COMMIT)
    BY <1>1, <1>3, RingFacts, SameStoreBuffer, SBP!CommConsistent
  <2> QED BY <1>2, <2>1, <2>2
<1>6. Rings'
  BY <1>5, SameStoreBuffer DEF Rings
<1>7. spec' \in SBP!Ring(DEPTH_SPEC) /\ comm' \in SBP!Ring(DEPTH_COMMIT)
  BY SameStoreBuffer DEF TypeOK
<1>8. STB!specq' = SBP!Contents(spec', DEPTH_SPEC) /\ STB!commq' = SBP!Contents(comm', DEPTH_COMMIT)
  BY SameStoreBuffer DEF STB!specq, STB!commq
<1>9. Len(STB!specq') = spec'.cnt /\ Len(STB!commq') = comm'.cnt /\ spec'.cnt \in Nat /\ comm'.cnt \in Nat
  <2>1. spec'.cnt \in Nat /\ comm'.cnt \in Nat
    BY <1>7, RingFacts DEF SBP!Ring
  <2> QED BY <1>5, <1>7, <1>8, <2>1, RingFacts, SameStoreBuffer, SBP!ContentsType
<1>10. x.c.flush => spec'.cnt = 0
  BY <1>1, <1>2 DEF SBP!core_if
<1>11. ASSUME ~x.c.flush
       PROVE  /\ spec'.cnt = spec.cnt - gone(x) + (IF pushes(s) THEN 1 ELSE 0)
              /\ \A k \in 1 .. spec.cnt - gone(x) : STB!specq'[k] = STB!specq[k + gone(x)]
              /\ pushes(s) => STB!specq'[spec.cnt - gone(x) + 1] = StoreOf(sur.tid, sur.instr)
  <2> DEFINE m == SBP!Moved(STB!specq, b.commit, IF b.valid THEN <<b.st>> ELSE <<>>)
             d == IF b.commit THEN 1 ELSE 0
  <2>1. SBP!Contents(SBP!core_if(spec, b), DEPTH_SPEC)
          = SBP!Moved(SBP!Contents(spec, DEPTH_SPEC), b.commit, IF b.valid THEN <<b.st>> ELSE <<>>)
    BY <1>1, <1>3, <1>11, RingFacts, SameStoreBuffer, SBP!SpecContents
  <2>2. STB!specq' = m
    BY <1>2, <1>8, <2>1, RingFacts
  <2>3. STB!specq \in Seq(S) /\ Len(STB!specq) = spec.cnt /\ spec.cnt \in Nat
    BY RingFacts
  <2>4. b.commit => Len(STB!specq) > 0
    BY <1>1, <2>3 DEF Asked
  <2>5. Shifted(m, STB!specq, d, b.valid, b.st)
    BY <1>4, <2>3, <2>4, MovedFacts
  <2> HIDE DEF m
  <2>6. d = gone(x)
    BY <1>1 DEF gone
  <2> HIDE DEF d
  <2> QED BY <1>1, <1>9, <2>2, <2>3, <2>5, <2>6 DEF Shifted
<1>12. /\ comm'.cnt = comm.cnt - (IF SBP!data_req(comm) /\ b.gnt THEN 1 ELSE 0) + (IF x.c.commit THEN 1 ELSE 0)
       /\ \A k \in 1 .. comm'.cnt : \/ \E j \in 1 .. comm.cnt : STB!commq'[k] = STB!commq[j]
                                    \/ x.c.commit /\ STB!commq'[k] = STB!specq[1]
  <2> DEFINE pop == SBP!data_req(comm) /\ b.gnt
             o == SBP!Oldest(spec).st
             m == SBP!Moved(STB!commq, pop, IF b.commit THEN <<o>> ELSE <<>>)
             d == IF pop THEN 1 ELSE 0
  <2>1. SBP!Contents(SBP!store_if(spec, comm, b), DEPTH_COMMIT)
          = SBP!Moved(SBP!Contents(comm, DEPTH_COMMIT), pop, IF b.commit THEN <<o>> ELSE <<>>)
    BY <1>1, <1>3, RingFacts, SameStoreBuffer, SBP!CommContents
  <2>2. STB!commq' = m
    BY <1>2, <1>8, <2>1, RingFacts
  <2>3. STB!commq \in Seq(S) /\ Len(STB!commq) = comm.cnt /\ comm.cnt \in Nat
    BY RingFacts
  <2>4. pop \in BOOLEAN /\ (pop => Len(STB!commq) > 0)
    BY <1>4, <2>3, RingFacts
  <2>5. o \in S
    BY RingFacts, SameStoreBuffer DEF SBP!Ring, SBP!Entry, SBP!Oldest
  <2> HIDE DEF pop, o
  <2>6. Shifted(m, STB!commq, d, b.commit, o)
    BY <1>4, <2>3, <2>4, <2>5, MovedFacts
  <2> HIDE DEF m
  <2>7. d \in {0, 1} /\ (d = 1 <=> pop)
    BY <2>4
  <2>8. b.commit => o = STB!specq[1]
    BY <1>1, RingFacts DEF o, Asked
  <2>9. comm'.cnt = comm.cnt - d + (IF x.c.commit THEN 1 ELSE 0)
    BY <1>1, <1>9, <2>2, <2>3, <2>6 DEF Shifted
  <2> HIDE DEF d
  <2>10. ASSUME NEW k \in 1 .. comm'.cnt
         PROVE  \/ \E j \in 1 .. comm.cnt : STB!commq'[k] = STB!commq[j]
                \/ x.c.commit /\ STB!commq'[k] = STB!specq[1]
    <3>1. CASE k \in 1 .. comm.cnt - d
      BY <2>2, <2>3, <2>6, <2>7, <3>1 DEF Shifted
    <3>2. CASE k \notin 1 .. comm.cnt - d
      <4>1. x.c.commit /\ k = comm.cnt - d + 1
        BY <2>3, <2>7, <2>9, <3>2
      <4> QED BY <1>1, <2>2, <2>3, <2>6, <2>8, <4>1 DEF Shifted
    <3> QED BY <3>1, <3>2
  <2> QED BY <2>9, <2>10 DEF pop, d
<1>13. comm.cnt = 0 /\ ~x.c.commit => comm'.cnt = 0
  BY <1>4, <1>12, RingFacts
<1> QED BY <1>6, <1>9, <1>10, <1>11, <1>12, <1>13 DEF Buffered

\* The store at the head of the scoreboard is the oldest of the buffer, and there
\* once.
LEMMA HeadStore ==
    ASSUME Traps, Rings, SpecOrder, c0.valid, ~c0.ex, c0.instr.op = "SD"
    PROVE  /\ spec.cnt > 0 /\ tidAt(1) = sb.cp0 /\ sb.cp0 \in TransId /\ Age(sb.cp0) = 0
           /\ \A k \in 2 .. spec.cnt : tidAt(k) # sb.cp0
<1>1. spec.cnt \in Nat
  BY RingFacts DEF Traps, Basic
<1>2. sb.cp0 \in TransId /\ c0 = entry(sb.cp0)
  BY DEF Traps, Basic, TypeOK, SCB!SB, SCB!TransId, TransId, c0, SCB!commit_instr_o, entry
<1>3. entry(sb.cp0).issued
  BY <1>2, SameScoreboard DEF Traps, Basic, Ring, SCP!ByIndex, entry
<1>4. OnPath(sb.cp0) /\ Age(sb.cp0) = 0
  BY <1>3, OldestOnPath DEF Traps
<1>5. sb.cp0 \in DoneStores
  <2>1. ~Faults(entry(sb.cp0).instr)
    BY <1>2, <1>4 DEF Traps, Precise
  <2> QED BY <1>2, <1>4, <2>1 DEF DoneStores, entry
<1>6. PICK k \in 1 .. spec.cnt : tidAt(k) = sb.cp0
  BY <1>5 DEF SpecOrder
<1>7. ASSUME NEW j \in 2 .. spec.cnt
      PROVE  tidAt(j) # sb.cp0
  <2>1. SUFFICES ASSUME tidAt(j) = sb.cp0
                 PROVE  FALSE
    OBVIOUS
  <2>2. 1 \in 1 .. spec.cnt /\ j \in 1 .. spec.cnt /\ 1 < j
    BY <1>1
  <2>3. Age(tidAt(1)) < Age(tidAt(j)) /\ tidAt(1) \in TransId
    BY <1>4, <2>1, <2>2 DEF SpecOrder
  <2>4. Age(tidAt(1)) \in Nat
    BY <2>3, AgeFacts DEF Traps, Basic
  <2> QED BY <1>4, <2>1, <2>3, <2>4
<1>8. k = 1
  BY <1>1, <1>6, <1>7
<1> QED BY <1>1, <1>2, <1>4, <1>6, <1>7, <1>8

\* The unit keeps to what the assertions of the store buffer ask.
LEMMA AskedStep ==
    ASSUME ~STEP, Traps, Rings, SpecOrder, NEW x, NEW l, NEW s, NEW a, Step(x, l, s, a)
    PROVE  Asked(x, s)
<1>1. Decided(x.c)
  BY CommitStep DEF Traps, Basic
<1>2. pushes(s) => spec.cnt < DEPTH_SPEC
  BY DEF pushes, st_valid, SpecOrder
<1>3. x.c.commit => spec.cnt > 0
  BY <1>1, HeadStore DEF Decided
<1> QED BY <1>1, <1>2, <1>3 DEF Asked, Decided

\* Place k of the queue after a cycle, which belongs to transaction u: it has
\* moved up, or it holds the store that has just been executed.
Settled(x, s, k, u) ==
    /\ u \in TransId /\ kept(x, u) /\ sb'.mem[u].issued /\ sb'.mem[u].valid /\ ~sb'.mem[u].ex
    /\ sb'.mem[u].instr = entry(u).instr /\ entry(u).instr.op = "SD"
    /\ STB!specq'[k] = StoreOf(u, entry(u).instr)
    /\ \/ k \in 1 .. spec.cnt - gone(x) /\ tidAt(k + gone(x)) = u /\ entry(u).valid /\ ~entry(u).ex
       \/ k = spec.cnt - gone(x) + 1 /\ pushes(s) /\ u = sur.tid /\ waits(u)

LEMMA OldPlace ==
    ASSUME ~STEP, Traps, Rings, SpecOrder, NEW x, NEW l, NEW s, NEW a, Step(x, l, s, a), Buffered(x, s), ~x.c.flush,
           NEW k \in 1 .. spec.cnt - gone(x)
    PROVE  Settled(x, s, k, tidAt(k + gone(x)))
<1> DEFINE d == gone(x)
<1>1. spec.cnt \in Nat /\ d \in {0, 1} /\ (d = 1 <=> x.c.commit)
  BY RingFacts DEF Traps, Basic, gone
<1>2. Decided(x.c) /\ \A t \in TransId : Fate(x, s, a, t)
  BY CommitStep, SbStep DEF Traps, Basic
<1>3. STB!specq'[k] = STB!specq[k + d]
  BY DEF Buffered
<1> HIDE DEF d
<1>4. k + d \in 1 .. spec.cnt
  BY <1>1 DEF d
<1>5. PICK u : u = tidAt(k + d)
  OBVIOUS
<1>6. /\ u \in TransId /\ entry(u).issued /\ entry(u).valid /\ ~entry(u).ex /\ entry(u).instr.op = "SD"
      /\ STB!specq[k + d] = StoreOf(u, entry(u).instr)
  BY <1>4, <1>5 DEF SpecOrder
<1>7. ~(Age(u) < x.c.ack)
  <2>1. SUFFICES ASSUME Age(u) < x.c.ack
                 PROVE  FALSE
    OBVIOUS
  <2>2. CASE u = sb.cp0 /\ entry(u) = c0
    <3>1. x.c.ack > 0
      BY <1>2, <1>6, <2>1, AgeFacts DEF Decided, Traps, Basic
    <3>2. x.c.commit
      BY <1>2, <1>6, <2>2, <3>1 DEF Decided
    <3>3. k + d \in 2 .. spec.cnt
      BY <1>1, <1>4, <3>2
    <3> QED BY <1>5, <1>6, <2>2, <3>3, HeadStore
  <2>3. CASE x.c.ack = 2 /\ entry(u) = c1
    <3>1. entry(u).instr \in Instr
      BY <1>2, <1>6 DEF Fate, SCB!Entry
    <3>2. fu(entry(u).instr) = "STORE"
      BY <1>6, <3>1, FuFacts
    <3> QED BY <1>2, <2>3, <3>2 DEF Decided
  <2> QED BY <1>6, <2>1, <2>2, <2>3, Acked DEF Traps
<1>8. kept(x, u)
  BY <1>2, <1>6, <1>7, AgeFacts DEF kept, Decided, Traps, Basic
<1>9. ~excepted(s, u)
  <2>1. excepted(s, u) => written(s, u)
    BY DEF excepted, written
  <2> QED BY <1>6, <2>1, WrittenWaits DEF Traps, waits
<1>10. sb'.mem[u].issued /\ sb'.mem[u].valid /\ ~sb'.mem[u].ex /\ sb'.mem[u].instr = entry(u).instr
  BY <1>2, <1>6, <1>8, <1>9 DEF Fate
<1> QED BY <1>3, <1>5, <1>6, <1>8, <1>10 DEF Settled, d

LEMMA NewPlace ==
    ASSUME ~STEP, Traps, Rings, SpecOrder, NEW x, NEW l, NEW s, NEW a, Step(x, l, s, a), Buffered(x, s), ~x.c.flush,
           pushes(s)
    PROVE  Settled(x, s, spec.cnt - gone(x) + 1, sur.tid)
<1>1. s.flush = x.c.flush /\ \A t \in TransId : Fate(x, s, a, t)
  BY CommitStep, SbStep DEF Traps, Basic
<1>2. su = "VALID_STORE" /\ ~s.ex /\ ~is_amo(sur.instr)
  BY DEF pushes, st_valid, trap
<1>3. PICK u : u = sur.tid
  OBVIOUS
<1>4. u \in TransId /\ waits(u) /\ entry(u).instr = sur.instr /\ isStore(sur.instr) /\ sur.instr \in Instr
  BY <1>2, <1>3 DEF Traps, Basic, Held, owns, TypeOK, Request
<1>5. sur.instr.op = "SD"
  BY <1>2, <1>4, FuFacts DEF is_amo, isStore
<1>6. kept(x, u)
  BY <1>1, <1>4, AgeFacts, CommitStep DEF Fate, kept, waits, Traps, Basic, Decided
<1>7. written(s, u)
  BY <1>2, <1>3 DEF written, valid_o
<1>8. ~excepted(s, u)
  BY <1>2, <1>4, <1>7, FuFacts, WrittenWaits DEF Traps, waits, isLoad, isStore
<1>9. ~entry(u).ex
  BY <1>4 DEF Traps, Precise
<1>10. sb'.mem[u].issued /\ sb'.mem[u].valid /\ ~sb'.mem[u].ex /\ sb'.mem[u].instr = entry(u).instr
  BY <1>1, <1>4, <1>6, <1>7, <1>8, <1>9 DEF Fate
<1>11. STB!specq'[spec.cnt - gone(x) + 1] = StoreOf(sur.tid, sur.instr)
  BY DEF Buffered
<1> QED BY <1>3, <1>4, <1>5, <1>6, <1>10, <1>11 DEF Settled

\* A store that moves to the output register is younger than the stores in the
\* buffer, or it is not on the path.
LEMMA HeadYounger ==
    ASSUME ~STEP, Traps, Rings, SpecOrder, NEW x, NEW l, NEW s, NEW a, Step(x, l, s, a), ~x.c.flush,
           s.valid, OnPath(head.tid), NEW u \in TransId,
           \/ entry(u).issued /\ entry(u).valid /\ ~entry(u).ex /\ entry(u).instr.op = "SD"
           \/ su = "VALID_STORE" /\ u = sur.tid
    PROVE  Age(u) < Age(head.tid)
<1>1. head.valid
  BY HeadStep DEF Heads, Traps, Basic
<1>2. member(head) /\ head.tid \in TransId /\ owns(head) /\ queued(head.tid)
  BY <1>1, HeadMember, MemberFacts DEF Traps, Basic
<1>3. InOrder
  <2>1. SUFFICES ASSUME Tripped
                 PROVE  FALSE
    BY DEF Traps, Order
  <2>2. PICK f \in TransId : entry(f).issued /\ Faults(entry(f).instr) /\ Age(f) < Age(head.tid)
    BY <1>2, <2>1 DEF Tripped
  <2> QED BY <2>2 DEF OnPath, Older, entry
<1>4. CASE su = "VALID_STORE" /\ u = sur.tid
  BY <1>2, <1>3, <1>4, StoreFirst DEF Traps
<1>5. CASE entry(u).issued /\ entry(u).valid /\ ~entry(u).ex /\ entry(u).instr.op = "SD"
  <2>1. SUFFICES ASSUME ~(Age(u) < Age(head.tid))
                 PROVE  FALSE
    OBVIOUS
  <2>2. u # head.tid
    BY <1>2, <1>5 DEF owns, waits
  <2>3. Age(u) \in Nat /\ Age(head.tid) \in Nat
    BY <1>2, AgeFacts DEF Traps, Basic
  <2>4. Age(head.tid) < Age(u)
    BY <1>2, <2>1, <2>2, <2>3, AgeInjective DEF Traps, Basic
  <2>5. memop(entry(u).instr)
    <3>1. entry(u).instr \in Instr
      BY CommitStep DEF Traps, Basic, SCB!Entry, entry
    <3> QED BY <1>5, <3>1, FuFacts DEF memop, isStore
  <2>6. ~entry(u).instr.ex
    BY <1>5 DEF Traps, Basic, Marked
  <2>7. queued(u)
    BY <1>2, <1>3, <1>5, <2>4, <2>5, <2>6 DEF InOrder
  <2>8. waits(u)
    BY <2>7, HeadFacts DEF queued, inPlace, Traps, Basic, Held, owns
  <2> QED BY <1>5, <2>8 DEF waits
<1> QED BY <1>4, <1>5

LEMMA SpecOrderStep ==
    ASSUME ~STEP, Traps, Rings, SpecOrder, NEW x, NEW l, NEW s, NEW a, Step(x, l, s, a), Traps', Buffered(x, s)
    PROVE  SpecOrder'
<1>1. /\ Decided(x.c) /\ s.flush = x.c.flush /\ (\A t \in TransId : Fate(x, s, a, t))
      /\ spec.cnt \in 0 .. DEPTH_SPEC /\ spec'.cnt \in Nat /\ DEPTH_SPEC \in Nat
  BY CommitStep, SbStep, RingFacts DEF Traps, Basic, Buffered
<1>2. CASE x.c.flush
  <2>1. spec'.cnt = 0
    BY <1>2 DEF Buffered
  <2>2. su' = "IDLE"
    BY <1>1, <1>2 DEF Step, store_next
  <2>3. \A t \in TransId : ~sb'.mem[t].valid
    BY <1>1, <1>2 DEF Fate, kept, filled
  <2>4. DoneStores' = {}
    BY <2>3 DEF DoneStores
  <2>5. 1 .. spec'.cnt = {} /\ su' # "VALID_STORE"
    BY <2>1, <2>2
  <2> QED BY <2>4, <2>5 DEF SpecOrder
<1>3. CASE ~x.c.flush
  <2> DEFINE n == spec.cnt - gone(x)
  <2>1. /\ gone(x) \in {0, 1} /\ (gone(x) = 1 <=> x.c.commit) /\ (x.c.commit => spec.cnt > 0)
        /\ pushes(s) => spec.cnt < DEPTH_SPEC
    BY AskedStep DEF gone, Asked
  <2>2. spec'.cnt = n + (IF pushes(s) THEN 1 ELSE 0)
    BY <1>3 DEF Buffered
  <2>3. n \in Nat
    BY <1>1, <2>1
  <2>4. ASSUME NEW k \in 1 .. spec'.cnt
        PROVE  \E u : u = STB!specq'[k].data /\ Settled(x, s, k, u)
    <3>1. CASE k \in 1 .. n
      <4>1. Settled(x, s, k, tidAt(k + gone(x)))
        BY <1>3, <3>1, OldPlace
      <4> QED BY <4>1 DEF Settled, StoreOf
    <3>2. CASE k \notin 1 .. n
      <4>1. pushes(s) /\ k = n + 1
        BY <2>2, <2>3, <3>2
      <4>2. Settled(x, s, k, sur.tid)
        BY <1>3, <4>1, NewPlace
      <4> QED BY <4>2 DEF Settled, StoreOf
    <3> QED BY <3>1, <3>2
  <2> HIDE DEF n
  <2>5. su' = "VALID_STORE" => spec'.cnt < DEPTH_SPEC
    <3>1. SUFFICES ASSUME su' = "VALID_STORE"
                   PROVE  spec'.cnt < DEPTH_SPEC
      OBVIOUS
    <3>2. s.st_ready
      BY <1>1, <1>3, <3>1, WorkStep DEF Works, Traps, Basic
    <3>3. spec.cnt < DEPTH_SPEC - 1 \/ x.c.commit
      BY <3>2, WireFacts DEF Wired, STB!ready_o, Traps, Basic
    <3> QED BY <1>1, <2>1, <2>2, <3>3 DEF n
  <2>6. ASSUME NEW k \in 1 .. spec'.cnt
        PROVE  /\ tidAt(k)' \in TransId /\ entry(tidAt(k))'.issued /\ entry(tidAt(k))'.valid
               /\ ~entry(tidAt(k))'.ex /\ entry(tidAt(k))'.instr.op = "SD"
               /\ STB!specq'[k] = StoreOf(tidAt(k), entry(tidAt(k)).instr)'
    <3>1. PICK u : u = STB!specq'[k].data /\ Settled(x, s, k, u)
      BY <2>4
    <3> QED BY <3>1 DEF Settled, tidAt, entry, StoreOf
  <2>7. ASSUME NEW j \in 1 .. spec'.cnt, NEW k \in 1 .. spec'.cnt, j < k, OnPath(tidAt(k))'
        PROVE  Age(tidAt(j))' < Age(tidAt(k))'
    <3>1. PICK t : t = STB!specq'[j].data /\ Settled(x, s, j, t)
      BY <2>4
    <3>2. PICK u : u = STB!specq'[k].data /\ Settled(x, s, k, u)
      BY <2>4
    <3>3. OnPath(u)'
      BY <2>7, <3>2 DEF tidAt, OnPath, Older, Age
    <3>4. OnPath(u) /\ t \in TransId /\ u \in TransId /\ kept(x, t) /\ kept(x, u)
      BY <1>3, <3>1, <3>2, <3>3, PathStep DEF Settled, Onward, Traps
    <3>5. j \in 1 .. n /\ tidAt(j + gone(x)) = t /\ k <= n + 1
      BY <1>1, <2>1, <2>2, <2>7, <3>1, <3>4 DEF Settled, n
    <3>6. Age(t) < Age(u)
      <4>1. CASE k \in 1 .. spec.cnt - gone(x) /\ tidAt(k + gone(x)) = u
        <5>1. j + gone(x) \in 1 .. spec.cnt /\ k + gone(x) \in 1 .. spec.cnt /\ j + gone(x) < k + gone(x)
          BY <1>1, <2>1, <2>7, <3>5, <4>1 DEF n
        <5> QED BY <3>4, <3>5, <4>1, <5>1 DEF SpecOrder
      <4>2. CASE pushes(s) /\ u = sur.tid
        <5>1. su = "VALID_STORE"
          BY <4>2 DEF pushes, st_valid
        <5>2. j + gone(x) \in 1 .. spec.cnt
          BY <1>1, <2>1, <3>5 DEF n
        <5> QED BY <3>4, <3>5, <4>2, <5>1, <5>2 DEF SpecOrder
      <4> QED BY <3>2, <4>1, <4>2 DEF Settled
    <3>7. Age(t)' < Age(u)'
      BY <3>4, <3>6, AgeStep DEF Traps, Basic
    <3> QED BY <3>1, <3>2, <3>7 DEF tidAt, Age
  <2>8. ASSUME NEW t \in TransId, t \in DoneStores'
        PROVE  \E k \in 1 .. spec'.cnt : tidAt(k)' = t
    <3>1. OnPath(t)' /\ sb'.mem[t].issued /\ sb'.mem[t].valid /\ ~Faults(sb'.mem[t].instr) /\ sb'.mem[t].instr.op = "SD"
      BY <2>8 DEF DoneStores, OnPath
    <3>2. kept(x, t)
      <4>1. ~filled(x, a, t)
        <5>1. SUFFICES ASSUME filled(x, a, t)
                       PROVE  FALSE
          OBVIOUS
        <5>2. PICK i \in a : sb'.mem[t] = [issued |-> TRUE, valid |-> i.ex, ex |-> i.ex, instr |-> i]
          BY <1>1, <5>1 DEF Fate
        <5> QED BY <3>1, <5>2 DEF Faults
      <4> QED BY <1>1, <3>1, <4>1 DEF Fate
    <3>3. /\ entry(t).issued /\ entry(t).instr = sb'.mem[t].instr /\ OnPath(t)
          /\ entry(t).valid \/ fu(entry(t).instr) = "NONE" \/ written(s, t)
      BY <1>1, <1>3, <3>1, <3>2, PathStep DEF Fate, Onward, Traps, kept
    <3>4. CASE entry(t).valid
      <4>1. t \in DoneStores
        BY <3>1, <3>3, <3>4 DEF DoneStores, entry
      <4>2. PICK k \in 1 .. spec.cnt : tidAt(k) = t
        BY <4>1 DEF SpecOrder
      <4>3. k - gone(x) \in 1 .. n
        <5>1. CASE ~x.c.commit
          BY <1>1, <2>1, <5>1 DEF n
        <5>2. CASE x.c.commit
          <6>1. tidAt(1) = sb.cp0 /\ Age(sb.cp0) = 0 /\ x.c.ack > 0 /\ x.c.ack \in Nat
            BY <1>1, <5>2, HeadStore DEF Decided
          <6>2. k # 1
            BY <3>2, <4>2, <6>1 DEF kept
          <6> QED BY <1>1, <2>1, <5>2, <6>2 DEF n
        <5> QED BY <5>1, <5>2
      <4>4. STB!specq'[k - gone(x)] = STB!specq[k]
        <5>1. (k - gone(x)) + gone(x) = k
          BY <1>1, <2>1
        <5> QED BY <1>3, <4>3, <5>1 DEF Buffered, n
      <4>5. k - gone(x) \in 1 .. spec'.cnt
        BY <2>2, <2>3, <4>3
      <4> QED BY <4>2, <4>4, <4>5 DEF tidAt
    <3>5. CASE ~entry(t).valid
      <4>1. entry(t).instr \in Instr /\ fu(entry(t).instr) = "STORE" /\ ~is_amo(entry(t).instr)
        BY <1>1, <3>1, <3>3, FuFacts DEF Fate, SCB!Entry, is_amo
      <4>2. valid_o(su, s) /\ sur.tid = t /\ entry(t).instr = sur.instr
        BY <3>3, <3>5, <4>1, WrittenWaits DEF Traps, isLoad
      <4>3. ~s.ex
        BY <3>1, <3>3, <4>2, StoreBlame DEF Faults, Traps
      <4>4. pushes(s)
        BY <1>1, <1>3, <4>1, <4>2, <4>3 DEF pushes, st_valid, valid_o, trap
      <4>5. STB!specq'[n + 1] = StoreOf(sur.tid, sur.instr) /\ n + 1 \in 1 .. spec'.cnt
        BY <1>3, <2>2, <2>3, <4>4 DEF Buffered, n
      <4> QED BY <4>2, <4>5 DEF tidAt, StoreOf
    <3> QED BY <3>4, <3>5
  <2>9. ASSUME su' = "VALID_STORE", OnPath(sur.tid)', NEW k \in 1 .. spec'.cnt
        PROVE  Age(tidAt(k))' < Age(sur.tid)'
    <3>1. s.valid /\ sur' = head
      BY <1>1, <1>3, <2>9, WorkStep DEF Works, Traps, Basic
    <3>2. PICK h : h = head.tid
      OBVIOUS
    <3>3. h \in TransId /\ waits(h)
      <4>1. head.valid
        BY <3>1, HeadStep DEF Heads, Traps, Basic
      <4>2. member(head)
        BY <4>1, HeadMember DEF Traps, Basic
      <4> QED BY <3>2, <4>2, MemberFacts DEF Traps, Basic, owns
    <3>4. kept(x, h)
      BY <1>1, <1>3, <3>3, AgeFacts DEF Fate, kept, waits, Traps, Basic, Decided
    <3>5. OnPath(h)'
      BY <2>9, <3>1, <3>2 DEF OnPath, Older, Age
    <3>6. OnPath(h)
      BY <1>3, <3>3, <3>4, <3>5, PathStep DEF Onward, Traps
    <3>7. PICK u : u = STB!specq'[k].data /\ Settled(x, s, k, u)
      BY <2>4
    <3>8. \/ entry(u).issued /\ entry(u).valid /\ ~entry(u).ex /\ entry(u).instr.op = "SD"
          \/ su = "VALID_STORE" /\ u = sur.tid
      BY <3>7 DEF Settled, kept, pushes, st_valid
    <3>9. Age(u) < Age(h) /\ kept(x, u) /\ u \in TransId
      BY <1>3, <3>1, <3>2, <3>6, <3>7, <3>8, HeadYounger DEF Settled
    <3>10. Age(u)' < Age(h)'
      BY <3>3, <3>4, <3>9, AgeStep DEF Traps, Basic
    <3> QED BY <3>1, <3>2, <3>7, <3>10 DEF tidAt, Age
  <2>10. DoneStores' \subseteq TransId
    BY DEF DoneStores
  <2> QED BY <2>5, <2>6, <2>7, <2>8, <2>9, <2>10 DEF SpecOrder
<1> QED BY <1>2, <1>3

\* The invariant of the stores.
Stores == Traps /\ Rings /\ SpecOrder

\* The reset rings are empty and consistent.
LEMMA StoresInit ==
    ASSUME Init
    PROVE  Stores
<1>1. Traps /\ \A t \in TransId : ~entry(t).issued /\ ~entry(t).valid
  BY TrapsInit, ResetScoreboard
<1>2. spec = SBP!ResetRing(DEPTH_SPEC) /\ comm = SBP!ResetRing(DEPTH_COMMIT) /\ su = "IDLE"
  BY SameStoreBuffer DEF Init
<1>3. Rings
  BY <1>2, SameStoreBuffer, SBP!ResetConsistent, SizeAssumption DEF Rings
<1>4. 1 .. spec.cnt = {}
  BY <1>2 DEF SBP!ResetRing
<1>5. DoneStores = {}
  BY <1>1 DEF DoneStores, entry
<1> QED BY <1>1, <1>2, <1>3, <1>4, <1>5 DEF Stores, SpecOrder

LEMMA StoresStep ==
    ASSUME ~STEP, Stores, NEW x, NEW l, NEW s, NEW a, Step(x, l, s, a), Traps'
    PROVE  Stores' /\ Asked(x, s) /\ Buffered(x, s)
<1>1. Asked(x, s)
  BY AskedStep DEF Stores
<1>2. Buffered(x, s)
  BY <1>1, BufferStep DEF Stores, Traps, Basic
<1>3. SpecOrder'
  BY <1>2, SpecOrderStep DEF Stores
<1> QED BY <1>1, <1>2, <1>3 DEF Stores, Buffered

LEMMA StoresStutter ==
    ASSUME Stores, UNCHANGED vars
    PROVE  Stores'
<1>1. sb' = sb /\ su' = su /\ sur' = sur /\ spec' = spec /\ comm' = comm
  BY DEF vars
<1>2. Traps'
  BY TrapsStutter DEF Stores
<1>3. Rings'
  BY <1>1 DEF Stores, Rings, STB!RingConsistent, STB!At
<1>4. STB!specq' = STB!specq
  BY <1>1 DEF STB!specq, STB!Contents, STB!At
<1>5. DoneStores' = DoneStores
  BY <1>1 DEF DoneStores, OnPath, Older, Age
<1>6. (OnPath(sur.tid)' <=> OnPath(sur.tid)) /\ Age(sur.tid)' = Age(sur.tid)
  BY <1>1 DEF OnPath, Older, Age
<1>7. \A k : (OnPath(tidAt(k))' <=> OnPath(tidAt(k))) /\ Age(tidAt(k))' = Age(tidAt(k)) /\ tidAt(k)' = tidAt(k)
  BY <1>1, <1>4 DEF OnPath, Older, Age, tidAt
<1>8. \A k : entry(tidAt(k))' = entry(tidAt(k)) /\ StoreOf(tidAt(k), entry(tidAt(k)).instr)' = StoreOf(tidAt(k), entry(tidAt(k)).instr)
  BY <1>1, <1>4 DEF entry, tidAt, StoreOf
<1>9. SpecOrder'
  BY <1>1, <1>4, <1>5, <1>6, <1>7, <1>8 DEF SpecOrder, Stores
<1> QED BY <1>2, <1>3, <1>9 DEF Stores

LEMMA StoresAlways ==
    ASSUME ~STEP
    PROVE  Spec => []Stores
<1>1. Init => Stores
  BY StoresInit
<1>2. Stores /\ [Next]_vars => Stores'
  <2> SUFFICES ASSUME Stores, [Next]_vars
               PROVE  Stores'
    OBVIOUS
  <2>1. CASE Next
    <3>1. PICK x, l, s, a : Step(x, l, s, a)
      BY <2>1, NextIsStep
    <3>2. Traps'
      BY <2>1, TrapsStep DEF Stores
    <3> QED BY <3>1, <3>2, StoresStep
  <2>2. CASE UNCHANGED vars
    BY <2>2, StoresStutter
  <2> QED BY <2>1, <2>2
<1> QED BY <1>1, <1>2, PTL DEF Spec

\* While the core is not single-stepped, the assertions of store_buffer.sv hold:
\* neither queue overflows, and no store is retired that is not in the buffer.
THEOREM ContractKept ==
    ASSUME ~STEP
    PROVE  Spec => []StoreBufferContract
<1>1. Stores => StoreBufferContract
  <2> SUFFICES ASSUME Stores, NEW k \in commits, NEW w \in walks
               PROVE  LET x == [c |-> k.c, walk |-> w, hit |-> TRUE, gnt |-> FALSE]
                          b == storeBufferIn(x, storeIn(x))
                      IN  /\ spec.cnt = DEPTH_SPEC => ~b.valid
                          /\ spec.cnt = 0 => ~b.commit
                          /\ comm.cnt = DEPTH_COMMIT => ~b.commit
    BY DEF StoreBufferContract
  <2> DEFINE x == [c |-> k.c, walk |-> w, hit |-> TRUE, gnt |-> FALSE]
             b == storeBufferIn(x, storeIn(x))
  <2>1. c0.instr \in Instr /\ c0.ex \in BOOLEAN /\ c0.valid \in BOOLEAN
    <3>1. sb.cp0 \in TransId /\ sb.mem[sb.cp0] \in SCB!Entry
      BY DEF Stores, Traps, Basic, TypeOK, SCB!SB, SCB!TransId, TransId
    <3> QED BY <3>1 DEF c0, SCB!commit_instr_o, SCB!Entry
  <2>2. Decided(k.c)
    BY <2>1, CommitFacts
  <2>3. b.commit = k.c.commit /\ (b.valid => su = "VALID_STORE")
    BY DEF storeBufferIn, st_valid
  <2> HIDE DEF b, x
  <2>4. spec.cnt \in Nat /\ comm.cnt \in Nat /\ DEPTH_SPEC \in Nat /\ DEPTH_COMMIT \in Nat
    BY RingFacts DEF Stores, Traps, Basic
  <2>5. spec.cnt = DEPTH_SPEC => ~b.valid
    BY <2>3, <2>4 DEF Stores, SpecOrder
  <2>6. spec.cnt = 0 => ~b.commit
    BY <2>2, <2>3, <2>4, HeadStore DEF Stores, Decided
  <2>7. comm.cnt = DEPTH_COMMIT => ~b.commit
    BY <2>2, <2>3, <2>4 DEF Decided
  <2> QED BY <2>5, <2>6, <2>7 DEF b, x
<1> QED BY <1>1, StoresAlways, PTL

\* While the core is not single-stepped, the assertion commit_and_flush of
\* store_buffer.sv holds: no store is retired in a cycle that flushes.
THEOREM CommitsNeverFlush ==
    ASSUME ~STEP
    PROVE  Spec => []CommitFlushExclusive
<1>1. Stores => CommitFlushExclusive
  <2> SUFFICES ASSUME Stores, NEW k \in commits
               PROVE  ~(k.c.commit /\ k.c.flush)
    BY DEF CommitFlushExclusive
  <2>1. c0.instr \in Instr /\ c0.ex \in BOOLEAN /\ c0.valid \in BOOLEAN
    <3>1. sb.cp0 \in TransId /\ sb.mem[sb.cp0] \in SCB!Entry
      BY DEF Stores, Traps, Basic, TypeOK, SCB!SB, SCB!TransId, TransId
    <3> QED BY <3>1 DEF c0, SCB!commit_instr_o, SCB!Entry
  <2>2. Decided(k.c)
    BY <2>1, CommitFacts
  <2> QED BY <2>2 DEF Decided
<1> QED BY <1>1, StoresAlways, PTL

\* What is older than an instruction on the path is on the path.
LEMMA OlderOnPath ==
    ASSUME Basic, NEW t \in TransId, NEW u \in TransId, OnPath(t), entry(u).issued, Age(u) < Age(t)
    PROVE  OnPath(u) /\ ~Faults(entry(u).instr)
<1>1. \A v \in TransId : Age(v) \in Nat
  BY AgeFacts DEF Basic
<1>2. Older(u) \subseteq Older(t)
  BY <1>1 DEF Older
<1> QED BY <1>2 DEF OnPath, Older, entry

\* A completed store on the path is in the buffer, behind exactly the older ones.
LEMMA StorePlace ==
    ASSUME Stores, NEW t \in DoneStores
    PROVE  \E k \in 1 .. spec.cnt : /\ tidAt(k) = t
                                    /\ {u \in DoneStores : Age(u) < Age(t)} = {tidAt(j) : j \in 1 .. k - 1}
                                    /\ \A i, j \in 1 .. k - 1 : tidAt(i) = tidAt(j) => i = j
<1>1. PICK k \in 1 .. spec.cnt : tidAt(k) = t
  BY DEF Stores, SpecOrder
<1>2. spec.cnt \in Nat /\ t \in TransId /\ OnPath(t)
  BY RingFacts DEF Stores, Traps, Basic, DoneStores
<1>3. ASSUME NEW j \in 1 .. k - 1
      PROVE  j \in 1 .. spec.cnt /\ tidAt(j) \in DoneStores /\ Age(tidAt(j)) < Age(t)
  <2>1. j \in 1 .. spec.cnt /\ j < k
    BY <1>2
  <2>2. Age(tidAt(j)) < Age(t)
    BY <1>1, <1>2, <2>1 DEF Stores, SpecOrder
  <2>3. tidAt(j) \in TransId /\ entry(tidAt(j)).issued /\ entry(tidAt(j)).valid /\ entry(tidAt(j)).instr.op = "SD"
    BY <2>1 DEF Stores, SpecOrder
  <2>4. OnPath(tidAt(j)) /\ ~Faults(entry(tidAt(j)).instr)
    BY <1>2, <2>2, <2>3, OlderOnPath DEF Stores, Traps
  <2> QED BY <2>1, <2>2, <2>3, <2>4 DEF DoneStores, entry
<1>4. ASSUME NEW u \in DoneStores, Age(u) < Age(t)
      PROVE  \E j \in 1 .. k - 1 : tidAt(j) = u
  <2>1. PICK j \in 1 .. spec.cnt : tidAt(j) = u
    BY DEF Stores, SpecOrder
  <2>2. u \in TransId /\ OnPath(u) /\ Age(u) \in Nat /\ Age(t) \in Nat
    BY <1>2, AgeFacts DEF DoneStores, Stores, Traps, Basic
  <2>3. ~(k < j)
    BY <1>1, <1>4, <2>1, <2>2 DEF Stores, SpecOrder
  <2>4. j # k
    BY <1>1, <1>4, <2>1, <2>2
  <2> QED BY <1>2, <2>1, <2>3, <2>4
<1>5. {u \in DoneStores : Age(u) < Age(t)} = {tidAt(j) : j \in 1 .. k - 1}
  BY <1>3, <1>4
<1>6. ASSUME NEW i \in 1 .. k - 1, NEW j \in 1 .. k - 1, i < j
      PROVE  tidAt(i) # tidAt(j)
  <2>1. OnPath(tidAt(j)) /\ tidAt(j) \in TransId
    BY <1>3 DEF DoneStores
  <2>2. Age(tidAt(i)) < Age(tidAt(j))
    BY <1>3, <1>6, <2>1 DEF Stores, SpecOrder
  <2>3. Age(tidAt(j)) \in Nat
    BY <2>1, AgeFacts DEF Stores, Traps, Basic
  <2> QED BY <2>2, <2>3
<1>7. \A i, j \in 1 .. k - 1 : tidAt(i) = tidAt(j) => i = j
  <2> SUFFICES ASSUME NEW i \in 1 .. k - 1, NEW j \in 1 .. k - 1, i # j
               PROVE  tidAt(i) # tidAt(j)
    OBVIOUS
  <2>1. i < j \/ j < i
    OBVIOUS
  <2> QED BY <1>6, <2>1
<1> QED BY <1>1, <1>5, <1>7

\* While the core is not single-stepped, the completed stores on the path are, in
\* program order, the oldest of the speculative queue: the store that the commit
\* stage retires without naming it is the one that store_buffer.sv moves on.
THEOREM RetiresTheRightStore ==
    ASSUME ~STEP
    PROVE  Spec => []BufferMatchesRob
<1>1. Stores => BufferMatchesRob
  <2> SUFFICES ASSUME Stores
               PROVE  BufferMatchesRob
    OBVIOUS
  <2>1. Len(STB!specq) = spec.cnt /\ spec.cnt \in Nat
    BY RingFacts DEF Stores, Traps, Basic
  <2>2. Cardinality(DoneStores) <= Len(STB!specq)
    <3> DEFINE I == 1 .. spec.cnt
               T == {tidAt(k) : k \in I}
               f == [k \in I |-> tidAt(k)]
    <3>1. f \in Surjection(I, T)
      BY DEF Surjection
    <3>2. IsFiniteSet(I) /\ Cardinality(I) = spec.cnt
      BY <2>1, FS_Interval
    <3>3. DoneStores \in SUBSET T
      BY DEF Stores, SpecOrder
    <3> HIDE DEF I, T, f
    <3>4. IsFiniteSet(T) /\ Cardinality(T) <= Cardinality(I)
      BY <3>1, <3>2, FS_Surjection
    <3>5. Cardinality(DoneStores) <= Cardinality(T) /\ IsFiniteSet(DoneStores)
      BY <3>3, <3>4, FS_Subset
    <3>6. Cardinality(DoneStores) \in Nat /\ Cardinality(T) \in Nat
      BY <3>4, <3>5, FS_CardinalityType
    <3> QED BY <2>1, <3>2, <3>4, <3>5, <3>6
  <2>3. ASSUME NEW t \in DoneStores
        PROVE  STB!specq[1 + Cardinality({u \in DoneStores : Age(u) < Age(t)})] = StoreOf(t, sb.mem[t].instr)
    <3> DEFINE T == {u \in DoneStores : Age(u) < Age(t)}
    <3>1. PICK k \in 1 .. spec.cnt : /\ tidAt(k) = t
                                     /\ T = {tidAt(j) : j \in 1 .. k - 1}
                                     /\ \A i, j \in 1 .. k - 1 : tidAt(i) = tidAt(j) => i = j
      BY StorePlace
    <3> DEFINE I == 1 .. k - 1
               f == [j \in I |-> tidAt(j)]
    <3> HIDE DEF T
    <3>2. f \in Surjection(I, T) /\ f \in Injection(I, T)
      BY <3>1 DEF Surjection, Injection, IsInjective
    <3>3. IsFiniteSet(I) /\ Cardinality(I) = k - 1
      <4>1. k - 1 \in Int /\ k >= 1
        BY <2>1
      <4>2. IsFiniteSet(I) /\ Cardinality(I) = IF 1 > k - 1 THEN 0 ELSE k - 1 - 1 + 1
        BY <4>1, FS_Interval
      <4> QED BY <4>1, <4>2
    <3> HIDE DEF I, f
    <3>4. Cardinality(T) = k - 1
      BY <3>2, <3>3, FS_Surjection
    <3>5. STB!specq[k] = StoreOf(t, sb.mem[t].instr)
      BY <3>1 DEF Stores, SpecOrder, entry
    <3>6. 1 + Cardinality(T) = k
      BY <2>1, <3>4
    <3> QED BY <3>5, <3>6 DEF T
  <2> QED BY <2>2, <2>3 DEF BufferMatchesRob
<1> QED BY <1>1, StoresAlways, PTL

\* While the core is not single-stepped, whatever is in the queue, the two units
\* and the three buffers of load_store_unit.sv has an entry in the scoreboard: a
\* flush reaches all of them.
THEOREM NothingOrphaned ==
    ASSUME ~STEP
    PROVE  Spec => []NoOrphans
<1>1. Stores /\ Amos => NoOrphans
  <2> SUFFICES ASSUME Stores, Amos
               PROVE  NoOrphans
    OBVIOUS
  <2>1. Held /\ su \in StoreState
    BY DEF Stores, Traps, Basic, TypeOK
  <2>2. \A k \in {0, 1} : bypass.mem[k].valid => sb.mem[bypass.mem[k].tid].issued
                                                 /\ sb.mem[bypass.mem[k].tid].instr = bypass.mem[k].instr
    BY <2>1 DEF Held, place, owns, waits, entry
  <2>3. req.valid => sb.mem[req.tid].issued /\ sb.mem[req.tid].instr = req.instr
    BY <2>1 DEF Held, owns, waits, entry
  <2>4. sur.valid => sb.mem[sur.tid].issued /\ sb.mem[sur.tid].instr = sur.instr
    BY <2>1 DEF Held, owns, waits, entry
  <2>5. \A k \in DOMAIN STB!specq : sb.mem[STB!specq[k].data].issued
    <3>1. DOMAIN STB!specq = 1 .. spec.cnt
      BY RingFacts DEF Stores, Traps, Basic
    <3> QED BY <3>1 DEF Stores, SpecOrder, tidAt, entry
  <2>6. \A t \in amo : sb.mem[t].issued /\ is_amo(sb.mem[t].instr)
    BY DEF Amos, entry
  <2>7. ldd.live => sb.mem[ldd.tid].issued /\ isLoad(sb.mem[ldd.tid].instr)
    BY <2>1 DEF Held, waits, entry
  <2> QED BY <2>2, <2>3, <2>4, <2>5, <2>6, <2>7 DEF NoOrphans
<1> QED BY <1>1, StoresAlways, AmosAlways, PTL

\* While the core is not single-stepped, every store before a fence or an atomic
\* has left the store buffer when the commit stage retires it, and nothing behind
\* it is kept: what follows is fetched and executed again.
THEOREM FencesOrder ==
    ASSUME ~STEP
    PROVE  Spec => FenceOrders
<1>1. Stores /\ Stores' /\ [Next]_vars =>
        [c0.valid /\ ~c0.ex /\ c0.instr.op \in {"AMO", "FENCE"} /\ ~sb'.mem[sb.cp0].issued
          => STB!commq' = <<>> /\ STB!specq' = <<>> /\ sb'.cnt = 0 /\ ~ldd'.live]_vars
  <2> SUFFICES ASSUME Stores, Stores', Next, c0.valid, ~c0.ex, c0.instr.op \in {"AMO", "FENCE"},
                      ~sb'.mem[sb.cp0].issued
               PROVE  STB!commq' = <<>> /\ STB!specq' = <<>> /\ sb'.cnt = 0 /\ ~ldd'.live
    OBVIOUS
  <2>1. PICK x, l, s, a : Step(x, l, s, a)
    BY NextIsStep
  <2>2. /\ Decided(x.c) /\ (\A t \in TransId : Fate(x, s, a, t)) /\ (x.c.flush => sb'.cnt = 0)
        /\ l.flush = x.c.flush /\ sb.cp0 \in TransId /\ c0 = entry(sb.cp0)
    BY <2>1, CommitStep, SbStep DEF Stores, Traps, Basic, entry
  <2>3. entry(sb.cp0).issued /\ Age(sb.cp0) = 0
    <3>1. entry(sb.cp0).issued
      BY <2>2 DEF Fate
    <3> QED BY <3>1, OldestOnPath DEF Stores, Traps
  <2>4. x.c.ack > 0
    BY <2>2, <2>3 DEF Fate, kept, Decided
  <2>5. x.c.flush /\ comm.cnt = 0 /\ ~x.c.commit
    BY <2>2, <2>4 DEF Decided, is_amo
  <2>6. Buffered(x, s)
    BY <2>1, StoresStep DEF Stores
  <2>7. spec'.cnt = 0 /\ comm'.cnt = 0
    BY <2>5, <2>6 DEF Buffered
  <2>8. STB!specq' = <<>> /\ STB!commq' = <<>>
    BY <2>7 DEF STB!specq, STB!commq, STB!Contents
  <2>9. ~ldd'.live
    BY <2>1, <2>2, <2>5, OutstandingStep DEF Outstanding, Stores, Traps, Basic
  <2> QED BY <2>2, <2>5, <2>8, <2>9
<1> QED BY <1>1, StoresAlways, PTL DEF Spec, FenceOrders

-----------------------------------------------------------------------------
(* Loads and the stores before them.                                       *)

\* The address checker sees exactly what is in the buffer or on its way there.
LEMMA CheckerFacts ==
    ASSUME Basic, Rings
    PROVE  page_offset_matches <=> pending(head.instr.dword)
<1> DEFINE dw == head.instr.dword
           p == IF su = "VALID_STORE" THEN {StoreOf(sur.tid, sur.instr)} ELSE {}
<1>1. page_offset_matches <=>
        \/ \E i \in 0 .. DEPTH_COMMIT - 1 : comm.queue[i].valid /\ comm.queue[i].st.dword = dw
        \/ \E i \in 0 .. DEPTH_SPEC - 1 : spec.queue[i].valid /\ spec.queue[i].st.dword = dw
        \/ \E st \in p : st.dword = dw
  BY DEF page_offset_matches, STB!page_offset_matches_o
<1> HIDE DEF dw
<1>2. (\E st \in p : st.dword = dw) <=> su = "VALID_STORE" /\ sur.instr.dword = dw
  <2>1. StoreOf(sur.tid, sur.instr).dword = sur.instr.dword
    BY DEF StoreOf
  <2>2. CASE su = "VALID_STORE"
    BY <2>1, <2>2
  <2>3. CASE su # "VALID_STORE"
    BY <2>3
  <2> QED BY <2>2, <2>3
<1> HIDE DEF p
<1>3. /\ DEPTH_SPEC \in Nat \ {0} /\ DEPTH_COMMIT \in Nat \ {0}
      /\ spec \in SBP!Ring(DEPTH_SPEC) /\ comm \in SBP!Ring(DEPTH_COMMIT)
      /\ SBP!RingConsistent(spec, DEPTH_SPEC) /\ SBP!RingConsistent(comm, DEPTH_COMMIT)
      /\ STB!specq = SBP!Contents(spec, DEPTH_SPEC) /\ STB!commq = SBP!Contents(comm, DEPTH_COMMIT)
      /\ DOMAIN STB!specq = 1 .. spec.cnt /\ DOMAIN STB!commq = 1 .. comm.cnt
  BY RingFacts DEF Basic
<1>4. SBP!DepthAssumption /\ SBP!StoreAssumption
  BY SameStoreBuffer
<1>5. /\ DEPTH_SPEC \in Nat \ {0} /\ DEPTH_COMMIT \in Nat \ {0}
      /\ spec \in SBP!Ring(DEPTH_SPEC) /\ comm \in SBP!Ring(DEPTH_COMMIT)
      /\ SBP!RingConsistent(spec, DEPTH_SPEC) /\ SBP!RingConsistent(comm, DEPTH_COMMIT)
  BY <1>3
<1>6. (\E i \in 0 .. DEPTH_SPEC - 1 : spec.queue[i].valid /\ spec.queue[i].st.dword = dw)
        <=> \E k \in 1 .. spec.cnt : STB!specq[k].dword = dw
  <2>1. (\E i \in 0 .. DEPTH_SPEC - 1 : spec.queue[i].valid /\ spec.queue[i].st.dword = dw)
        <=> (\E k \in DOMAIN SBP!Contents(spec, DEPTH_SPEC) : SBP!Contents(spec, DEPTH_SPEC)[k].dword = dw)
    BY <1>4, <1>5, SBP!ContentsByFlags
  <2> QED BY <1>3, <2>1
<1>7. (\E i \in 0 .. DEPTH_COMMIT - 1 : comm.queue[i].valid /\ comm.queue[i].st.dword = dw)
        <=> \E k \in 1 .. comm.cnt : STB!commq[k].dword = dw
  <2>1. (\E i \in 0 .. DEPTH_COMMIT - 1 : comm.queue[i].valid /\ comm.queue[i].st.dword = dw)
        <=> (\E k \in DOMAIN SBP!Contents(comm, DEPTH_COMMIT) : SBP!Contents(comm, DEPTH_COMMIT)[k].dword = dw)
    BY <1>4, <1>5, SBP!ContentsByFlags
  <2> QED BY <1>3, <2>1
<1> QED BY <1>1, <1>2, <1>6, <1>7 DEF pending, dw

\* A double word that nobody writes stays so until the next store is executed.
LEMMA PendingStep ==
    ASSUME Stores, NEW x, NEW l, NEW s, NEW a, Step(x, l, s, a), Asked(x, s), Buffered(x, s), ~x.c.flush,
           NEW dw, ~pending(dw)
    PROVE  /\ \A k \in 1 .. spec'.cnt : STB!specq'[k].dword # dw
           /\ \A k \in 1 .. comm'.cnt : STB!commq'[k].dword # dw
<1>1. spec.cnt \in Nat /\ gone(x) \in {0, 1} /\ (x.c.commit => spec.cnt > 0) /\ (gone(x) = 1 <=> x.c.commit)
  BY RingFacts DEF Stores, Traps, Basic, gone, Asked
<1>2. ASSUME NEW k \in 1 .. spec'.cnt
      PROVE  STB!specq'[k].dword # dw
  <2>1. CASE k \in 1 .. spec.cnt - gone(x)
    <3>1. k + gone(x) \in 1 .. spec.cnt /\ STB!specq'[k] = STB!specq[k + gone(x)]
      BY <1>1, <2>1 DEF Buffered
    <3> QED BY <3>1 DEF pending
  <2>2. CASE k \notin 1 .. spec.cnt - gone(x)
    <3>1. pushes(s) /\ k = spec.cnt - gone(x) + 1
      BY <1>1, <2>2 DEF Buffered
    <3>2. STB!specq'[k] = StoreOf(sur.tid, sur.instr)
      BY <3>1 DEF Buffered
    <3> QED BY <3>1, <3>2 DEF pending, StoreOf, pushes, st_valid
  <2> QED BY <2>1, <2>2
<1>3. ASSUME NEW k \in 1 .. comm'.cnt
      PROVE  STB!commq'[k].dword # dw
  <2>1. CASE \E j \in 1 .. comm.cnt : STB!commq'[k] = STB!commq[j]
    BY <2>1 DEF pending
  <2>2. CASE x.c.commit /\ STB!commq'[k] = STB!specq[1]
    <3>1. 1 \in 1 .. spec.cnt
      BY <1>1, <2>2
    <3> QED BY <2>2, <3>1 DEF pending
  <2> QED BY <2>1, <2>2 DEF Buffered
<1> QED BY <1>2, <1>3

\* A load that asks the cache has passed the address checker.
LEMMA AskingPassed ==
    ASSUME Stores, Passed, NEW x, NEW l, NEW s, NEW a, Step(x, l, s, a), data_req_o(ld, l)
    PROVE  ~pending(head.instr.dword)
<1>1. l.matches = page_offset_matches
  BY WireFacts DEF Wired, Stores, Traps, Basic
<1> QED BY <1>1, CheckerFacts DEF data_req_o, mayRequest, Passed, LdBusy, Stores, Traps

LEMMA PassedStep ==
    ASSUME Stores, Passed, NEW x, NEW l, NEW s, NEW a, Step(x, l, s, a), Asked(x, s), Buffered(x, s)
    PROVE  Passed'
<1>1. SUFFICES ASSUME ld' \in LdBusy \ {"WAIT_PAGE_OFFSET"}
               PROVE  ~pending(head.instr.dword)'
  BY DEF Passed, LdBusy
<1>2. /\ l.flush = x.c.flush /\ s.flush = x.c.flush /\ ld' = load_next(ld, l) /\ ld \in LoadState /\ Heads(l, s)
      /\ l.matches = page_offset_matches
  <2>1. TypeOK /\ Shape /\ Held
    BY DEF Stores, Traps, Basic
  <2>2. ld' = load_next(ld, l) /\ ld \in LoadState
    BY <2>1 DEF TypeOK, Step
  <2>3. l.matches = page_offset_matches /\ l.flush = x.c.flush /\ s.flush = x.c.flush
    BY <2>1, WireFacts DEF Wired
  <2>4. Heads(l, s)
    BY <2>1, HeadStep
  <2> QED BY <2>2, <2>3, <2>4
<1>3. ~x.c.flush
  BY <1>1, <1>2 DEF load_next, afterFlush, LdBusy
<1>4. Works(l, s)
  BY <1>2, <1>3, WorkStep DEF Stores, Traps, Basic
<1>5. l.valid /\ ~pop_ld_o(ld, l) /\ ~l.ex
  BY <1>1, <1>4 DEF Works
<1>6. ~pop_st_o(su, s) /\ ~s.valid
  BY <1>2, <1>5 DEF Heads
<1>7. head' = head
  BY <1>2, <1>3, <1>5, <1>6, HeadStays DEF Stores, Traps
<1>8. su' # "VALID_STORE"
  BY <1>4, <1>6 DEF Works
<1>9. ~pending(head.instr.dword)
  <2>1. CASE ld \in {"IDLE", "SEND_TAG"}
    <3>1. mayRequest(ld, l)
      BY <1>1, <1>2, <1>3, <1>5, <2>1 DEF load_next, trapped
    <3> QED BY <3>1, AskingPassed DEF data_req_o
  <2>2. CASE ld = "WAIT_PAGE_OFFSET"
    <3>1. ~l.matches
      BY <1>1, <1>2, <1>3, <1>5, <2>2 DEF load_next, trapped
    <3> QED BY <1>2, <3>1, CheckerFacts DEF Stores, Traps
  <2>3. CASE ld = "WAIT_FLUSH"
    BY <1>1, <1>2, <1>3, <1>5, <2>3 DEF load_next, trapped, LdBusy
  <2> QED BY <1>2, <2>1, <2>2, <2>3 DEF Passed, LdBusy, LoadState
<1>10. PICK dw : dw = head.instr.dword
  OBVIOUS
<1>11. /\ \A k \in 1 .. spec'.cnt : STB!specq'[k].dword # dw
       /\ \A k \in 1 .. comm'.cnt : STB!commq'[k].dword # dw
  BY <1>3, <1>9, <1>10, PendingStep
<1> QED BY <1>7, <1>8, <1>10, <1>11 DEF pending

LEMMA ExpectedStep ==
    ASSUME Traps, Expected, NEW x, NEW l, NEW s, NEW a, Step(x, l, s, a), Traps'
    PROVE  Expected'
<1> SUFFICES ASSUME NEW u \in TransId, OnPath(u)', waits(u)', entry(u)'.instr.op = "SD"
             PROVE  queued(u)' \/ (su' = "VALID_STORE" /\ sur'.tid = u)
  BY DEF Expected
<1>1. /\ s.flush = x.c.flush /\ Fate(x, s, a, u) /\ sb'.mem[u].issued /\ ~sb'.mem[u].valid
      /\ sb'.mem[u].instr.op = "SD" /\ sb'.mem[u].instr \in Instr
  BY CommitStep, SbStep DEF Traps, Basic, waits, entry, Fate, SCB!Entry
<1>2. memop(sb'.mem[u].instr) /\ fu(sb'.mem[u].instr) = "STORE" /\ isStore(sb'.mem[u].instr)
  BY <1>1, FuFacts DEF memop, isStore
<1>3. ~x.c.flush
  BY <1>1 DEF Fate, kept, filled
<1>4. CASE filled(x, a, u)
  <2>1. PICK i \in a : sb'.mem[u] = [issued |-> TRUE, valid |-> i.ex, ex |-> i.ex, instr |-> i]
    BY <1>1, <1>4 DEF Fate
  <2>2. ~sb'.mem[u].instr.ex
    BY <1>1, <2>1
  <2>3. req'.valid /\ req'.tid = u /\ req'.instr = sb'.mem[u].instr
    BY <1>4, <2>2, HandsOver DEF Traps
  <2>4. lsu_req'.valid
    BY <1>2, <2>3 DEF lsu_req, memop, isLoad, isStore
  <2> QED BY <2>3, <2>4 DEF queued
<1>5. CASE kept(x, u)
  <2>1. OnPath(u) /\ waits(u) /\ entry(u).instr = sb'.mem[u].instr /\ ~written(s, u)
    BY <1>1, <1>3, <1>5, PathStep DEF Fate, Onward, Traps, kept, waits
  <2>2. queued(u)
    <3>1. ~(su = "VALID_STORE" /\ sur.tid = u)
      BY <2>1 DEF written, valid_o
    <3> QED BY <1>1, <2>1, <3>1 DEF Expected
  <2>3. PICK r : member(r) /\ r.tid = u
    BY <2>2, HeadFacts DEF queued, inPlace, member, Traps, Basic
  <2>4. InOrder
    <3>1. SUFFICES ASSUME Tripped
                   PROVE  FALSE
      BY DEF Traps, Order
    <3>2. PICK f \in TransId : entry(f).issued /\ Faults(entry(f).instr) /\ Age(f) < Age(u)
      BY <2>2, <3>1 DEF Tripped
    <3> QED BY <2>1, <3>2 DEF OnPath, Older, entry
  <2>5. ~(trap(su, s) /\ su = "VALID_STORE")
    <3>1. SUFFICES ASSUME trap(su, s), su = "VALID_STORE"
                   PROVE  FALSE
      OBVIOUS
    <3>2. sur.instr.fault # "no"
      BY <3>1, StoreBlame DEF Traps, trap, valid_o
    <3> QED BY <2>1, <2>3, <3>1, <3>2, StoreTraps DEF Traps
  <2>6. Quiet(l, s)
    BY <1>1, <1>3, <2>4, <2>5 DEF Quiet
  <2>7. CASE pops(l, s) = 0 \/ u # head.tid
    BY <2>3, <2>6, <2>7, MemberStays DEF Traps, queued
  <2>8. CASE pops(l, s) # 0 /\ u = head.tid
    <3>1. Heads(l, s) /\ Works(l, s) /\ su \in StoreState /\ su' = store_next(su, s)
      BY <1>1, <1>3, HeadStep, WorkStep DEF Traps, Basic, TypeOK, Step
    <3>2. pops(l, s) \in {0, 1} /\ (pops(l, s) = 1 => head.valid)
      BY <2>6, QuietQueue DEF Traps
    <3>3. head = r /\ head.instr = entry(u).instr
      <4>1. head.valid
        BY <2>8, <3>2
      <4>2. member(head)
        BY <4>1, HeadMember DEF Traps, Basic
      <4>3. head = r
        BY <2>3, <2>8, <4>2, MemberFacts DEF Traps, Basic
      <4> QED BY <2>3, <4>3, MemberFacts DEF Traps, Basic, owns
    <3>4. ~isLoad(head.instr)
      BY <1>2, <2>1, <3>3 DEF isLoad
    <3>5. pop_st_o(su, s)
      BY <2>8, <3>1, <3>4 DEF pops, Heads
    <3>6. ~trap(su, s)
      <4>1. SUFFICES ASSUME trap(su, s)
                     PROVE  FALSE
        OBVIOUS
      <4>2. su \in SuWait
        BY <2>5, <3>1, <4>1 DEF trap, StoreState, SuWait
      <4>3. head = sur
        BY <3>1, <4>2 DEF Heads
      <4> QED BY <2>1, <2>8, <4>1, <4>3 DEF written, valid_o
    <3>7. taken(su, s) /\ s.hit /\ s.st_ready
      BY <3>5, <3>6 DEF pop_st_o
    <3>8. su' = "VALID_STORE"
      BY <1>1, <1>3, <3>1, <3>6, <3>7 DEF store_next, afterTake
    <3>9. sur' = head
      BY <3>1, <3>8 DEF Works
    <3> QED BY <2>8, <3>8, <3>9
  <2> QED BY <2>7, <2>8
<1> QED BY <1>1, <1>4, <1>5 DEF Fate

\* A load on the path that asks the cache has no older store to its double word.
LEMMA NoOlderStore ==
    ASSUME Stores, Passed, Expected, NEW x, NEW l, NEW s, NEW a, Step(x, l, s, a), l.valid, data_req_o(ld, l),
           OnPath(head.tid), NEW u \in TransId, entry(u).issued, Age(u) < Age(head.tid), entry(u).instr.op = "SD"
    PROVE  entry(u).instr.dword # head.instr.dword
<1>1. SUFFICES ASSUME entry(u).instr.dword = head.instr.dword
               PROVE  FALSE
  OBVIOUS
<1>2. ~pending(head.instr.dword)
  BY AskingPassed
<1>3. head.valid
  BY HeadStep DEF Heads, Stores, Traps, Basic
<1>4. member(head) /\ head.tid \in TransId /\ queued(head.tid)
  BY <1>3, HeadMember, MemberFacts DEF Stores, Traps, Basic
<1>5. OnPath(u) /\ ~Faults(entry(u).instr)
  BY <1>4, OlderOnPath DEF Stores, Traps
<1>6. CASE entry(u).valid
  <2>1. u \in DoneStores
    BY <1>5, <1>6 DEF DoneStores, entry
  <2>2. PICK k \in 1 .. spec.cnt : tidAt(k) = u
    BY <2>1 DEF Stores, SpecOrder
  <2>3. STB!specq[k] = StoreOf(u, entry(u).instr)
    BY <2>2 DEF Stores, SpecOrder
  <2> QED BY <1>1, <1>2, <2>3 DEF pending, StoreOf
<1>7. CASE ~entry(u).valid
  <2>1. queued(u) \/ (su = "VALID_STORE" /\ sur.tid = u)
    BY <1>5, <1>7 DEF Expected, waits
  <2>2. CASE su = "VALID_STORE" /\ sur.tid = u
    <3>1. entry(u).instr = sur.instr
      BY <2>2 DEF Stores, Traps, Basic, Held, owns
    <3> QED BY <1>1, <1>2, <2>2, <3>1 DEF pending
  <2>3. CASE queued(u)
    <3>1. PICK r : member(r) /\ r.tid = u
      BY <2>3, HeadFacts DEF queued, inPlace, member, Stores, Traps, Basic
    <3>2. InOrder
      <4>1. SUFFICES ASSUME Tripped
                     PROVE  FALSE
        BY DEF Stores, Traps, Order
      <4>2. PICK f \in TransId : entry(f).issued /\ Faults(entry(f).instr) /\ Age(f) < Age(head.tid)
        BY <1>4, <4>1 DEF Tripped
      <4> QED BY <4>2 DEF OnPath, Older, entry
    <3>3. Age(u) \in Nat /\ Age(head.tid) \in Nat
      BY <1>4, AgeFacts DEF Stores, Traps, Basic
    <3>4. r.tid # head.tid
      BY <3>1, <3>3
    <3>5. Age(head.tid) < Age(r.tid)
      BY <1>3, <3>1, <3>2, <3>4, HeadOldest DEF Stores, Traps
    <3> QED BY <3>1, <3>3, <3>5
  <2> QED BY <2>1, <2>2, <2>3
<1> QED BY <1>6, <1>7

LEMMA SeesStep ==
    ASSUME ~STEP, Stores, Passed, Expected, LoadSeesOlderStores,
           NEW x, NEW l, NEW s, NEW a, Step(x, l, s, a), Traps', Asked(x, s), Buffered(x, s)
    PROVE  LoadSeesOlderStores'
<1>1. Outstanding(l) /\ l.flush = x.c.flush /\ Decided(x.c) /\ \A t \in TransId : Fate(x, s, a, t)
  BY OutstandingStep, CommitStep, SbStep DEF Stores, Traps, Basic
<1>2. PICK h : h = ldd'.tid
  OBVIOUS
<1> DEFINE dw == sb'.mem[h].instr.dword
<1>3. SUFFICES ASSUME ldd'.live, OnPath(h)'
               PROVE  /\ \A u \in TransId : sb'.mem[u].issued /\ Age(u)' < Age(h)'
                                              => ~(sb'.mem[u].instr.op = "SD" /\ sb'.mem[u].instr.dword = dw)
                      /\ \A k \in DOMAIN STB!commq' : STB!commq'[k].dword # dw
  BY <1>2 DEF LoadSeesOlderStores, OnPath, Older, Age
<1>4. ~x.c.flush /\ DOMAIN STB!commq' = 1 .. comm'.cnt
  BY <1>1, <1>3 DEF Outstanding, STB!commq, STB!Contents
<1>5. /\ h \in TransId /\ waits(h)
      /\ \/ l.valid /\ data_req_o(ld, l) /\ h = head.tid /\ entry(h).instr = head.instr
         \/ ldd.live /\ h = ldd.tid
  <2>1. CASE l.valid /\ data_req_o(ld, l) /\ h = head.tid
    <3>1. head.valid
      BY <2>1, HeadStep DEF Heads, Stores, Traps, Basic
    <3>2. member(head)
      BY <3>1, HeadMember DEF Stores, Traps, Basic
    <3> QED BY <2>1, <3>2, MemberFacts DEF Stores, Traps, Basic, owns
  <2>2. CASE ldd.live /\ h = ldd.tid
    BY <2>2 DEF Stores, Traps, Basic, Held, TypeOK
  <2> QED BY <1>1, <1>2, <1>3, <2>1, <2>2 DEF Outstanding
<1>6. kept(x, h) /\ dw = entry(h).instr.dword
  <2>1. kept(x, h)
    BY <1>1, <1>4, <1>5, AgeFacts DEF Fate, kept, waits, Stores, Traps, Basic, Decided
  <2> QED BY <1>1, <1>5, <2>1 DEF Fate
<1>7. OnPath(h)
  BY <1>3, <1>4, <1>5, <1>6, PathStep DEF Onward, Stores, Traps
<1> HIDE DEF dw
<1>8. ASSUME NEW u \in TransId, sb'.mem[u].issued, Age(u)' < Age(h)'
      PROVE  entry(u).issued /\ Age(u) < Age(h) /\ entry(u).instr = sb'.mem[u].instr
  <2>1. kept(x, u)
    BY <1>1, <1>5, <1>6, <1>8, AgeStep DEF Fate, Stores, Traps, Basic
  <2> QED BY <1>1, <1>5, <1>6, <1>8, <2>1, AgeStep DEF Fate, kept, Stores, Traps, Basic
<1>9. CASE l.valid /\ data_req_o(ld, l) /\ h = head.tid /\ entry(h).instr = head.instr
  <2>1. ~pending(dw)
    BY <1>6, <1>9, AskingPassed
  <2>2. ASSUME NEW u \in TransId, sb'.mem[u].issued, Age(u)' < Age(h)', sb'.mem[u].instr.op = "SD"
        PROVE  sb'.mem[u].instr.dword # dw
    BY <1>6, <1>7, <1>8, <1>9, <2>2, NoOlderStore
  <2> QED BY <1>4, <2>1, <2>2, PendingStep
<1>10. CASE ldd.live /\ h = ldd.tid
  <2>1. /\ \A u \in TransId : entry(u).issued /\ Age(u) < Age(h) =>
                                 ~(entry(u).instr.op = "SD" /\ entry(u).instr.dword = dw)
        /\ \A k \in DOMAIN STB!commq : STB!commq[k].dword # dw
    BY <1>6, <1>7, <1>10 DEF LoadSeesOlderStores, Older, entry
  <2>2. DOMAIN STB!commq = 1 .. comm.cnt
    BY DEF STB!commq, STB!Contents
  <2>3. ASSUME x.c.commit
        PROVE  STB!specq[1].dword # dw
    <3>1. c0.valid /\ ~c0.ex /\ c0.instr.op = "SD"
      BY <1>1, <2>3 DEF Decided
    <3>2. spec.cnt > 0 /\ tidAt(1) = sb.cp0 /\ sb.cp0 \in TransId /\ Age(sb.cp0) = 0
      BY <3>1, HeadStore DEF Stores
    <3>3. 1 \in 1 .. spec.cnt
      BY <3>2, RingFacts DEF Stores, Traps, Basic
    <3>4. /\ STB!specq[1] = StoreOf(sb.cp0, entry(sb.cp0).instr) /\ entry(sb.cp0).issued
          /\ entry(sb.cp0).valid /\ entry(sb.cp0).instr.op = "SD"
      BY <3>2, <3>3 DEF Stores, SpecOrder
    <3>5. Age(sb.cp0) < Age(h)
      <4>1. h # sb.cp0
        BY <1>5, <3>4 DEF waits
      <4>2. Age(h) \in Nat /\ Age(h) # 0
        BY <1>5, <3>2, <4>1, AgeFacts, AgeInjective DEF Stores, Traps, Basic
      <4> QED BY <3>2, <4>2
    <3>6. entry(sb.cp0).instr.dword # dw
      BY <2>1, <3>2, <3>4, <3>5
    <3> QED BY <3>4, <3>6 DEF StoreOf
  <2>4. ASSUME NEW k \in 1 .. comm'.cnt
        PROVE  STB!commq'[k].dword # dw
    BY <2>1, <2>2, <2>3 DEF Buffered
  <2> QED BY <1>4, <1>8, <2>1, <2>4
<1> QED BY <1>5, <1>9, <1>10

LEMMA NiStep ==
    ASSUME Stores, NiLoadNonSpeculative, NEW x, NEW l, NEW s, NEW a, Step(x, l, s, a), Traps', Buffered(x, s)
    PROVE  NiLoadNonSpeculative'
<1>1. /\ Outstanding(l) /\ l.flush = x.c.flush /\ Decided(x.c) /\ (\A t \in TransId : Fate(x, s, a, t))
      /\ c0 = entry(sb.cp0)
  BY OutstandingStep, CommitStep, SbStep DEF Stores, Traps, Basic, entry
<1>2. PICK h : h = ldd'.tid
  OBVIOUS
<1>3. SUFFICES ASSUME ldd'.live, sb'.mem[h].instr.ni
               PROVE  h = sb'.cp0 /\ STB!commq' = <<>>
  BY <1>2 DEF NiLoadNonSpeculative
<1>4. /\ h \in TransId /\ waits(h)
      /\ \/ l.valid /\ ~l.stall_ni /\ h = head.tid /\ entry(h).instr = head.instr
         \/ ldd.live /\ h = ldd.tid
  <2>1. CASE l.valid /\ ~l.stall_ni /\ h = head.tid
    <3>1. head.valid
      BY <2>1, HeadStep DEF Heads, Stores, Traps, Basic
    <3>2. member(head)
      BY <3>1, HeadMember DEF Stores, Traps, Basic
    <3> QED BY <2>1, <3>2, MemberFacts DEF Stores, Traps, Basic, owns
  <2>2. CASE ldd.live /\ h = ldd.tid
    BY <2>2 DEF Stores, Traps, Basic, Held, TypeOK
  <2> QED BY <1>1, <1>2, <1>3, <2>1, <2>2 DEF Outstanding
<1>5. kept(x, h) /\ entry(h).instr.ni
  <2>1. kept(x, h)
    <3>1. ~x.c.flush
      BY <1>1, <1>3 DEF Outstanding
    <3> QED BY <1>1, <1>4, <3>1, AgeFacts DEF Fate, kept, waits, Stores, Traps, Basic, Decided
  <2> QED BY <1>1, <1>3, <1>4, <2>1 DEF Fate
<1>6. h = sb.cp0 /\ comm.cnt = 0
  <2>1. CASE l.valid /\ ~l.stall_ni /\ h = head.tid /\ entry(h).instr = head.instr
    <3>1. ~stall_ni(x)
      BY <2>1, WireFacts DEF Wired, Stores, Traps, Basic
    <3> QED BY <1>5, <2>1, <3>1 DEF stall_ni, STB!store_buffer_empty_o, STB!no_st_pending_o
  <2>2. CASE ldd.live /\ h = ldd.tid
    <3>1. h = sb.cp0 /\ STB!commq = <<>>
      BY <1>5, <2>2 DEF NiLoadNonSpeculative, entry
    <3>2. Len(STB!commq) = comm.cnt
      BY RingFacts DEF Stores, Traps, Basic
    <3> QED BY <3>1, <3>2
  <2> QED BY <1>4, <2>1, <2>2
<1>7. x.c.ack = 0 /\ ~x.c.commit
  BY <1>1, <1>4, <1>6 DEF Decided, waits
<1>8. comm'.cnt = 0
  BY <1>6, <1>7 DEF Buffered
<1>9. STB!commq' = <<>>
  BY <1>8 DEF STB!commq, STB!Contents
<1>10. Age(h)' = 0
  <2>1. Age(h) = 0
    BY <1>4, <1>6, OldestOnPath DEF waits, Stores, Traps
  <2> QED BY <1>1, <1>4, <1>5, <1>7, <2>1 DEF Fate
<1>11. sb'.cp0 \in TransId
  BY DEF Traps, Basic, TypeOK, SCB!SB, SCB!TransId, TransId
<1>12. h = sb'.cp0
  <2>1. SCP!Dist(sb'.cp0, h) = 0
    BY <1>4, <1>10, <1>11, AgeIsDist DEF Age
  <2> QED BY <1>4, <1>11, <2>1, SizeAssumption DEF SCP!Dist, TransId
<1> QED BY <1>9, <1>12

\* The invariant of the loads.
Loads == Stores /\ Passed /\ Expected /\ LoadSeesOlderStores /\ NiLoadNonSpeculative

LEMMA LoadsAlways ==
    ASSUME ~STEP
    PROVE  Spec => []Loads
<1>1. Init => Loads
  <2> SUFFICES ASSUME Init
               PROVE  Loads
    OBVIOUS
  <2>1. Stores /\ \A t \in TransId : ~entry(t).issued
    BY StoresInit, ResetScoreboard
  <2>2. ld = "IDLE" /\ ~ldd.live
    BY DEF Init
  <2> QED BY <2>1, <2>2 DEF Loads, Passed, Expected, waits, LdBusy, LoadSeesOlderStores, NiLoadNonSpeculative
<1>2. Loads /\ [Next]_vars => Loads'
  <2> SUFFICES ASSUME Loads, [Next]_vars
               PROVE  Loads'
    OBVIOUS
  <2>1. CASE Next
    <3>1. PICK x, l, s, a : Step(x, l, s, a)
      BY <2>1, NextIsStep
    <3>2. Traps'
      BY <2>1, TrapsStep DEF Loads, Stores
    <3>3. Stores' /\ Asked(x, s) /\ Buffered(x, s)
      BY <3>1, <3>2, StoresStep DEF Loads
    <3>4. Passed' /\ Expected'
      BY <3>1, <3>2, <3>3, PassedStep, ExpectedStep DEF Loads, Stores
    <3>5. LoadSeesOlderStores' /\ NiLoadNonSpeculative'
      BY <3>1, <3>2, <3>3, SeesStep, NiStep DEF Loads
    <3> QED BY <3>3, <3>4, <3>5 DEF Loads
  <2>2. CASE UNCHANGED vars
    <3>1. /\ sb' = sb /\ req' = req /\ bypass' = bypass /\ ld' = ld /\ ldd' = ldd /\ su' = su /\ sur' = sur
          /\ spec' = spec /\ comm' = comm
      BY <2>2 DEF vars
    <3>2. Stores'
      BY <2>2, StoresStutter DEF Loads
    <3>3. STB!specq' = STB!specq /\ STB!commq' = STB!commq
      BY <3>1 DEF STB!specq, STB!commq, STB!Contents, STB!At
    <3>4. lsu_req' = lsu_req
      BY <3>1 DEF lsu_req, isLoad, isStore
    <3>5. head' = head
      BY <3>1, <3>4 DEF head, lsu_ctrl_o
    <3>6. Passed'
      BY <3>1, <3>3, <3>5 DEF Loads, Passed, pending, LdBusy
    <3>7. \A t : (OnPath(t)' <=> OnPath(t)) /\ (queued(t)' <=> queued(t)) /\ (waits(t)' <=> waits(t))
      BY <3>1, <3>4 DEF OnPath, Older, Age, queued, inPlace, place, waits, entry
    <3>8. Expected'
      BY <3>1, <3>7 DEF Loads, Expected, entry
    <3>9. LoadSeesOlderStores'
      <4>1. (OnPath(ldd.tid)' <=> OnPath(ldd.tid)) /\ Older(ldd.tid)' = Older(ldd.tid)
        BY <3>1 DEF OnPath, Older, Age
      <4> QED BY <3>1, <3>3, <4>1 DEF Loads, LoadSeesOlderStores
    <3>10. NiLoadNonSpeculative'
      BY <3>1, <3>3 DEF Loads, NiLoadNonSpeculative
    <3> QED BY <3>2, <3>6, <3>8, <3>9, <3>10 DEF Loads
  <2> QED BY <2>1, <2>2
<1> QED BY <1>1, <1>2, PTL DEF Spec

\* While the core is not single-stepped, a load on the path whose index the cache
\* has accepted has no older store to its double word in flight or in the buffer,
\* although load_unit.sv ran the check one or more cycles earlier.
THEOREM LoadsSeeStores ==
    ASSUME ~STEP
    PROVE  Spec => []LoadSeesOlderStores
<1>1. Loads => LoadSeesOlderStores
  BY DEF Loads
<1> QED BY <1>1, LoadsAlways, PTL

\* While the core is not single-stepped, a non-idempotent location is read only
\* by the oldest instruction, with the store buffer drained.
THEOREM NiLoadsWait ==
    ASSUME ~STEP
    PROVE  Spec => []NiLoadNonSpeculative
<1>1. Loads => NiLoadNonSpeculative
  BY DEF Loads
<1> QED BY <1>1, LoadsAlways, PTL
=============================================================================
