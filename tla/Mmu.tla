-------------------------------- MODULE Mmu ---------------------------------
(***************************************************************************)
(* Address translation (mmu_sv39: mmu.sv, ptw.sv, tlb.sv): the page table  *)
(* walker, the instruction and the data TLB, and their three clients: the  *)
(* instruction cache, which holds a request until it is answered, the      *)
(* load/store unit, and the walker's own port of the data cache.           *)
(*                                                                         *)
(* Page tables live in memory and change under the walker (Remap); an      *)
(* sfence.vma makes the change visible.  A virtual page is the tuple of    *)
(* its indices in the three levels.  There is one address space; the       *)
(* checks on a TLB hit (privilege, PMP, execute regions) depend on nothing *)
(* but the hit and are left out.                                           *)
(***************************************************************************)
EXTENDS Naturals, FiniteSets

CONSTANTS
    Page,           \* virtual pages: tuples of three indices
    Code,           \* those of them from which instructions are fetched
    Forbidden,      \* physical pages which the PMP does not let the walker read
    Scenarios,      \* a sequence of records: the page tables over time, each <<table, index>> -> page
                    \* table entry; the modes [i, d] in which fetch, load/store translate; the loads
                    \* and stores [page, store, mis]; whether the cache may grant a read in the
                    \* cycle it answers the one before (crossing)
    TLB_ENTRIES,
    FUEL            \* loads and stores that one fetch can bring

ASSUME CodeAssumption == Code \subseteq Page

ASSUME ScenarioAssumption ==
    \A h \in DOMAIN Scenarios : Scenarios[h].accesses \subseteq [page : Page, store : BOOLEAN, mis : BOOLEAN]

VARIABLES
    walker,         \* ptw.sv: state_q, ptw_lvl_q, is_instr_ptw_q, vaddr_q, and the page of ptw_pptr_q
    answer,         \* ptw.sv: data_rvalid_q, data_rdata_q; with the address read, whether it is late or crossed
    port,           \* the read in the cache: its address, the tables it may see, whether a flush hit it
                    \* (late) and whether the walker has stopped waiting for it (astray)
    itlb, dtlb,     \* sets of valid entries
    fetch,          \* the instruction cache's request
    dreq,           \* the load/store unit's request
    dq,             \* mmu.sv: lsu_req_q with dtlb_hit_q, misaligned_ex_q.valid
    doomed,         \* an exception was reported to the load/store unit since the last flush
    en,             \* enable_translation_i, en_ld_st_translation_i
    hist, pt,       \* which scenario, and which of its page tables is in memory now
    since,          \* for a page, the tables in memory since the last fence for it
    misread,        \* the pages since whose last fence the walker looked at a crossed answer
    fuel, alive     \* what the pipeline holds: loads and stores to come, anything at all

vars == <<walker, answer, port, itlb, dtlb, fetch, dreq, dq, doomed, en, hist, pt, since, misread, fuel, alive>>

Level == 1..3

\* The page tables over time, and the modes software switches between.
tables == Scenarios[hist].tables
modes == Scenarios[hist].modes

(* Page table entries: v valid (and not writable without being readable),  *)
(* leaf; of a leaf x: executable and accessed, r: readable and accessed,   *)
(* w: writable and dirty, aligned: a superpage is aligned.                 *)
NoPte == [v |-> FALSE, leaf |-> FALSE, x |-> FALSE, r |-> FALSE, w |-> FALSE, aligned |-> FALSE, ppn |-> 0]

\* The registers of an idle walker, and of one that waits for a late answer,
\* are not looked at.
NoWalk == [state |-> "IDLE", lvl |-> 1, instr |-> FALSE, page |-> <<0, 0, 0>>, ppn |-> 0]

NoAnswer == [valid |-> FALSE, addr |-> <<0, 0>>, pte |-> NoPte, late |-> FALSE, crossed |-> FALSE]
NoRead == [busy |-> FALSE, addr |-> <<0, 0>>, sees |-> {}, late |-> FALSE, astray |-> FALSE]
NoFetch == [on |-> FALSE, page |-> <<0, 0, 0>>]
NoReq == [st |-> "none", page |-> <<0, 0, 0>>, store |-> FALSE, mis |-> FALSE]

Init ==
    /\ walker = NoWalk /\ answer = NoAnswer /\ port = NoRead
    /\ itlb = {} /\ dtlb = {}
    /\ fetch = NoFetch /\ dreq = NoReq
    /\ dq = [hit |-> FALSE, mis |-> FALSE] /\ doomed = FALSE
    /\ hist \in DOMAIN Scenarios /\ en \in modes /\ pt = 1
    /\ since = [p \in Page |-> {1}] /\ misread = {}
    /\ fuel = 0 /\ alive = FALSE

-----------------------------------------------------------------------------
(* The TLBs (tlb.sv).  An entry is the page it was walked for, the level   *)
(* at which its leaf was found and the leaf.                               *)

\* An entry of a higher level translates all pages below it.
covers(e, page) == \A l \in 1..e.lvl : e.page[l] = page[l]

lu_hit(tlb, page) == \E e \in tlb : covers(e, page)

\* Mutant: only the entry that was walked for the address of an sfence.vma is
\* dropped, not a superpage that holds it.
flushed_Exact(tlb, fence) == {e \in tlb : e.page \notin fence}

\* sfence.vma drops what translates one of the pages in `fence': all pages, or
\* that of its operand.
flushed(tlb, fence) == {e \in tlb : \A p \in fence : ~covers(e, p)}

\* A new entry takes a free place or that of any other entry, whichever the
\* replacement tree names.
updated(tlb, e) ==
    {(tlb \ victim) \union {e} :
        victim \in {v \in {{}} \union {{o} : o \in tlb} : Cardinality(tlb \ v) < TLB_ENTRIES}}

\* A flush has precedence over an update (update_flush).
tlb_next(tlb, updates, fence) ==
    IF fence # {} THEN {flushed(tlb, fence)}
    ELSE IF updates = {} THEN {tlb}
    ELSE UNION {updated(tlb, e) : e \in updates}

-----------------------------------------------------------------------------
(* The interfaces to instruction cache and load/store unit (mmu.sv).       *)

itlb_hit == lu_hit(itlb, fetch.page)
dtlb_hit == lu_hit(dtlb, dreq.page)
dtlb_access == dreq.st \in {"request", "wait"}

\* ptw_error_o or ptw_access_exception_o
raises == walker.state \in {"PROPAGATE_ERROR", "PROPAGATE_ACCESS_ERROR"}

\* The instruction cache gets its translation or a fault (instr_interface).
fetch_valid == fetch.on /\ (~en.i \/ itlb_hit \/ (raises /\ walker.instr))

lsu_dtlb_hit_o == en.d => dtlb_hit

\* Mutant: the fault of any walk is reported.
walkFault_Any == en.d /\ ~dq.mis /\ ~dq.hit /\ raises

\* A fault of a walk for data is reported if the registered request did not hit.
walkFault == en.d /\ ~dq.mis /\ ~dq.hit /\ raises /\ ~walker.instr

\* lsu_exception_o.valid: it is not asked whether there is a request.
lsu_exception_o == dq.mis \/ walkFault

-----------------------------------------------------------------------------
(* The page table walker (ptw.sv).                                         *)

pptr == <<walker.ppn, walker.page[walker.lvl]>>

\* A walk begins in the root of the page table (satp_ppn_i), physical page 0.
begin(page, instr) == [state |-> "WAIT_GRANT", lvl |-> 1, instr |-> instr, page |-> page, ppn |-> 0]

\* Mutant: a miss of the load/store unit waits until no instruction is fetched.
start_NotBoth ==
    IF en.i /\ fetch.on /\ ~itlb_hit /\ ~dtlb_access THEN begin(fetch.page, TRUE)
    ELSE IF en.d /\ dtlb_access /\ ~dtlb_hit /\ ~(fetch.on /\ ~itlb_hit) THEN begin(dreq.page, FALSE)
    ELSE NoWalk

\* IDLE: a miss of the load/store unit comes before one of the fetch.
start ==
    IF en.i /\ fetch.on /\ ~itlb_hit /\ ~dtlb_access THEN begin(fetch.page, TRUE)
    ELSE IF en.d /\ dtlb_access /\ ~dtlb_hit THEN begin(dreq.page, FALSE)
    ELSE NoWalk

\* Whether a leaf permits the access and is aligned.
leafOk(pte, lvl, instr, store) ==
    /\ IF instr THEN pte.x ELSE pte.r /\ (store => pte.w)
    /\ lvl < 3 => pte.aligned

\* PTE_LOOKUP: what the entry that was read means for the walk w.
result(pte, w, store) ==
    CASE w.ppn \in Forbidden -> "access"
      [] w.ppn \notin Forbidden /\ ~pte.v -> "fault"
      [] w.ppn \notin Forbidden /\ pte.v /\ pte.leaf ->
           IF leafOk(pte, w.lvl, w.instr, store) THEN "leaf" ELSE "fault"
      [] w.ppn \notin Forbidden /\ pte.v /\ ~pte.leaf -> IF w.lvl = 3 THEN "fault" ELSE "pointer"

looksAt == walker.state = "PTE_LOOKUP" /\ answer.valid

\* lsu_is_store_i is that of the request which is up when the entry is looked
\* at, not of the one that started the walk.
store_i == dtlb_access /\ dreq.store

found ==
    IF looksAt /\ result(answer.pte, walker, store_i) = "leaf"
    THEN {[page |-> walker.page, lvl |-> walker.lvl, pte |-> answer.pte]} ELSE {}

\* itlb_update_o, dtlb_update_o
itlb_update == IF walker.instr THEN found ELSE {}
dtlb_update == IF walker.instr THEN {} ELSE found

\* Where the entry that was read takes the walk.
afterLook ==
    CASE result(answer.pte, walker, store_i) = "access"  -> [walker EXCEPT !.state = "PROPAGATE_ACCESS_ERROR"]
      [] result(answer.pte, walker, store_i) = "fault"   -> [walker EXCEPT !.state = "PROPAGATE_ERROR"]
      [] result(answer.pte, walker, store_i) = "leaf"    -> NoWalk
      [] result(answer.pte, walker, store_i) = "pointer" ->
           [walker EXCEPT !.state = "WAIT_GRANT", !.lvl = @ + 1, !.ppn = answer.pte.ppn]

\* Mutant: the walker waits for a grant, not for the answer.
ptw_step_WaitsForGrant(gnt) ==
    CASE walker.state = "IDLE"        -> start
      [] walker.state = "WAIT_GRANT"  -> IF gnt THEN [walker EXCEPT !.state = "PTE_LOOKUP"] ELSE walker
      [] walker.state = "PTE_LOOKUP"  -> IF answer.valid THEN afterLook ELSE walker
      [] walker.state = "WAIT_RVALID" -> IF gnt THEN NoWalk ELSE walker
      [] raises                       -> NoWalk

ptw_step(gnt) ==
    CASE walker.state = "IDLE"        -> start
      [] walker.state = "WAIT_GRANT"  -> IF gnt THEN [walker EXCEPT !.state = "PTE_LOOKUP"] ELSE walker
      [] walker.state = "PTE_LOOKUP"  -> IF answer.valid THEN afterLook ELSE walker
      [] walker.state = "WAIT_RVALID" -> IF answer.valid THEN NoWalk ELSE walker
      [] raises                       -> NoWalk

\* Mutant: only a walk whose read was granted before the flush waits.
afterFlush_NotGranted(gnt) ==
    IF walker.state = "PTE_LOOKUP" /\ ~answer.valid THEN [NoWalk EXCEPT !.state = "WAIT_RVALID"] ELSE NoWalk

\* A flush ends the walk, or lets it wait for the answer it has asked for.
afterFlush(gnt) ==
    IF (walker.state = "PTE_LOOKUP" /\ ~answer.valid) \/ (walker.state = "WAIT_GRANT" /\ gnt)
    THEN [NoWalk EXCEPT !.state = "WAIT_RVALID"] ELSE NoWalk

ptw_next(gnt, flush) == IF flush THEN afterFlush(gnt) ELSE ptw_step(gnt)

-----------------------------------------------------------------------------
(* The walker's cache port: it grants a read when it is free or answers in *)
(* this cycle, and answers later, with what was in memory at some time     *)
(* since the grant.                                                        *)
(*                                                                         *)
(* A read goes astray when a second flush ends the wait for its answer     *)
(* (WAIT_RVALID).  Its answer is crossed if the next read is granted in    *)
(* the same cycle; the walker then takes it for the answer to that read,   *)
(* whose own answer is astray in turn.                                     *)

port_next(gnt, answered, flush) ==
    IF gnt THEN [busy |-> TRUE, addr |-> pptr, sees |-> {pt}, late |-> flush, astray |-> port.astray]
    ELSE IF answered THEN NoRead
    ELSE [port EXCEPT !.late = port.busy /\ (@ \/ flush),
                      !.astray = @ \/ (port.busy /\ flush /\ walker.state = "WAIT_RVALID")]

-----------------------------------------------------------------------------
(* The clients.                                                            *)

fetches == {NoFetch} \union {[on |-> TRUE, page |-> p] : p \in Code}

\* READ and KILL_ATRANS of the instruction cache: the request stays until it is
\* answered and the answer is taken.
fetch_next(taken) == IF fetch.on /\ ~taken THEN {fetch} ELSE fetches

(* The load/store unit: its next request, and what is left of the fuel.    *)

same(r) == {[dreq |-> r, fuel |-> fuel]}

another ==
    same(NoReq) \union
    {[dreq |-> [st |-> "request", page |-> a.page, store |-> a.store, mis |-> a.mis], fuel |-> fuel - 1] :
        a \in {a \in Scenarios[hist].accesses : fuel > 0}}

(* A load that was granted its cache access but not translated drops its   *)
(* request for one cycle (ABORT_TRANSACTION); if its exception comes in    *)
(* this cycle it is not taken, and the load goes for another round.  A     *)
(* load that waits for the store buffer (WAIT_PAGE_OFFSET) has no request  *)
(* up; it is represented from when it asks again.                          *)
lsu_next ==
    CASE dreq.st = "none" -> another
      [] dreq.st = "abort" -> same([dreq EXCEPT !.st = IF lsu_exception_o THEN "request" ELSE "wait"])
      [] dtlb_access /\ lsu_exception_o -> another
      [] dtlb_access /\ ~lsu_exception_o /\ lsu_dtlb_hit_o -> same(dreq) \union another
      [] dtlb_access /\ ~lsu_exception_o /\ ~lsu_dtlb_hit_o ->
           IF dreq.store \/ dreq.st = "wait" THEN same([dreq EXCEPT !.st = "wait"])
           ELSE same(dreq) \union same([dreq EXCEPT !.st = "abort"])

-----------------------------------------------------------------------------
(* One clock cycle with the inputs x: gnt and answered from the cache port,*)
(* taken from the instruction cache, flush (flush_ex of the controller)    *)
(* and, of an sfence.vma, the pages it is for (flush_tlb).                 *)

Fences == {{}, Page} \union {{p} : p \in Page}

Env ==
    {x \in [gnt : BOOLEAN, answered : BOOLEAN, taken : BOOLEAN, flush : BOOLEAN, fence : Fences] :
        /\ x.gnt => walker.state = "WAIT_GRANT" /\ (port.busy => x.answered /\ Scenarios[hist].crossing)
        /\ x.answered => port.busy
        /\ x.taken => fetch_valid
        /\ x.flush => alive
        /\ x.fence # {} => x.flush}

Cycle(x) ==
    /\ walker' = ptw_next(x.gnt, x.flush)
    /\ port' = port_next(x.gnt, x.answered, x.flush)
    /\ alive' = (~x.flush /\ (alive \/ x.taken))
    /\ doomed' = (~x.flush /\ (doomed \/ (lsu_exception_o /\ dreq.st # "abort")))
    /\ dq' = [hit |-> dtlb_access /\ dtlb_hit, mis |-> dtlb_access /\ dreq.mis]
    /\ since' = [p \in Page |-> IF p \in x.fence THEN {pt} ELSE since[p]]
    /\ misread' = (IF looksAt /\ answer.crossed THEN Page ELSE misread) \ x.fence
    /\ fetch' \in fetch_next(x.taken)
    /\ answer' \in IF x.answered
                   THEN {[valid |-> TRUE, addr |-> port.addr, pte |-> tables[t][port.addr],
                          late |-> port.late \/ x.flush, crossed |-> x.gnt /\ port.astray] : t \in port.sees}
                   ELSE {NoAnswer}
    /\ itlb' \in tlb_next(itlb, itlb_update, x.fence)
    /\ dtlb' \in tlb_next(dtlb, dtlb_update, x.fence)
    /\ \E n \in IF x.flush THEN {[dreq |-> NoReq, fuel |-> 0]} ELSE lsu_next :
         /\ dreq' = n.dreq
         /\ fuel' = IF x.taken /\ ~x.flush THEN FUEL ELSE n.fuel
    /\ en' \in IF x.flush /\ x.fence = {} THEN modes ELSE {en}
    /\ UNCHANGED <<hist, pt>>

\* Software changes the page table.
Remap ==
    /\ pt' \in {pt + 1} \intersect DOMAIN tables
    /\ since' = [p \in Page |-> since[p] \union {pt'}]
    /\ port' = [port EXCEPT !.sees = IF port.busy THEN @ \union {pt'} ELSE @]
    /\ UNCHANGED <<walker, answer, itlb, dtlb, fetch, dreq, dq, doomed, en, hist, misread, fuel, alive>>

Next == (\E x \in Env : Cycle(x)) \/ Remap

Spec == Init /\ [][Next]_vars

(* The cache grants and answers, the instruction cache takes its answers   *)
(* and a translated load or store moves on.                                *)
helpful ==
    [gnt |-> walker.state = "WAIT_GRANT", answered |-> port.busy, taken |-> fetch_valid,
     flush |-> FALSE, fence |-> {}]

Progress == Cycle(helpful) /\ (dtlb_access /\ lsu_dtlb_hit_o => dreq' # dreq)

FairSpec == Spec /\ WF_vars(Progress)

-----------------------------------------------------------------------------
(* Properties.                                                             *)

\* The answer is to the read of this walk.
own == answer.addr = pptr /\ ~answer.late

\* The walker only looks at an answer to its own read, neither at one to an
\* older walk that a flush has ended nor at one it has asked for before the
\* flush.  The one exception is a crossed answer: two flushes in a row have made
\* the walker forget a read, and the cache grants the next one together with
\* the answer to the forgotten one.
OwnAnswer == looksAt /\ ~answer.crossed => own

\* The comment at the flush of ptw.sv: "should we have flushed before we got an
\* rvalid, wait for it until going back to IDLE", so that whatever the walker
\* looks at is its own, crossed or not.
EveryAnswerOwn == looksAt => own

(* A walk for a page in which every level is read from one of the page     *)
(* tables in the set T.                                                    *)

\* The entries of level l, in one of the physical pages S, that give result r.
reads(page, T, l, S, r, instr, store) ==
    {x[1][<<x[2], page[l]>>] : x \in
        {x \in T \X S : result(x[1][<<x[2], page[l]>>], [lvl |-> l, ppn |-> x[2], instr |-> instr], store) = r}}

below(page, T, l, S) == {pte.ppn : pte \in reads(page, T, l, S, "pointer", FALSE, FALSE)}

\* The physical pages in which it can look for its entry of level l.
places(page, T, l) ==
    CASE l = 1 -> {0}
      [] l = 2 -> below(page, T, 1, {0})
      [] l = 3 -> below(page, T, 2, below(page, T, 1, {0}))

\* The entries of level l with which it can have result r.
ends(page, T, l, r, instr, store) == reads(page, T, l, places(page, T, l), r, instr, store)

\* The page tables since the last fence for a page.
tablesSince(page) == {tables[t] : t \in since[page]}

\* sfence.vma works: whatever a TLB translates, with any page size, is in the
\* page tables as they were at some time since the last fence for the page,
\* although walks are in progress when the tables change and when the fence is
\* executed.  A page is excepted from the look at a crossed answer to the next
\* fence for it, which drops what came of that.
TlbFresh ==
    \A page \in Page \ misread, instr \in BOOLEAN :
        \A e \in IF instr THEN itlb ELSE dtlb :
            covers(e, page) => e.pte \in ends(page, tablesSince(page), e.lvl, "leaf", instr, FALSE)

kind == IF walker.state = "PROPAGATE_ERROR" THEN "fault" ELSE "access"

faults(page, instr, store) == \E l \in Level : ends(page, tablesSince(page), l, kind, instr, store) # {}

\* A fault of a walk goes to the request that is up in this cycle: it is the
\* one the walk was started for, and the page tables justify the fault.  A load
\* or store after a misaligned one may get a fault that is not its own, but
\* will be flushed when the misaligned one traps.  After a look at a crossed
\* answer and until the next fence the fault still goes to the right request,
\* but the page tables need not justify it.
FaultOwn ==
    /\ raises /\ walker.instr =>
         /\ fetch.on /\ en.i /\ ~itlb_hit /\ fetch.page = walker.page
         /\ fetch.page \notin misread => faults(fetch.page, TRUE, FALSE)
    /\ walkFault /\ ~doomed =>
         /\ dreq.st # "none" /\ dreq.page = walker.page /\ ~walker.instr
         /\ dreq.page \notin misread => faults(dreq.page, FALSE, dreq.store)

\* An exception comes in the cycle in which the load has dropped its request:
\* the load does not take it and starts again.  Nothing bounds how often.
anotherRound == lsu_exception_o /\ dreq.st = "abort"

\* Every fetch gets a translation or a fault, although loads and stores come
\* first and flushes end its walks, if no load goes for another round forever;
\* every request of the load/store unit is translated, gets an exception or is
\* flushed.
RequestsAnswered ==
    /\ <>[]~anotherRound => (fetch.on ~> fetch_valid)
    /\ dtlb_access ~> (lsu_dtlb_hit_o \/ lsu_exception_o \/ dreq.st = "none")
=============================================================================
