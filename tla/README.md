# Verification of the Hydra scalar unit

This directory holds TLA+ models of the scalar unit's RISC-V core, the TLC
configurations that check them and the TLAPS proofs about them. The core is a
modified CVA6 (`src/sub/riscv_core/src`); `src/src/hydra_su.sv` surrounds it
with an AXI interconnect, a debug module and the interrupt controllers.

`PROJECT.json` is the index: components, runs, mutants, the map from
definitions to source lines, hazards, findings and theorems.

To repeat the checks, in this directory:

    tlc -workers 2 -config Lsu.cfg MCLoadStoreUnit
    tlapm StoreBuffer_proofs.tla

## 1. Inventory

The core is an in-order-issue, out-of-order-completion, in-order-commit
pipeline. Everything is clocked by one clock; a cycle maps registers and inputs
to the next registers. What makes it hard is not threads but that a dozen
state machines step in the same cycle, talk through signals that are
valid for one cycle only, and are all cut short by flushes.

| Part | State | Operations | What must hold |
|---|---|---|---|
| `store_buffer.sv` | speculative and commit ring: entries, two pointers, counter, flags | push, retire, grant, flush, address check | FIFO, no store lost or doubled, a flush drops speculative stores only, the checker misses nothing, it drains |
| `scoreboard.sv` | ring of issued instructions, issue pointer, two commit pointers, counter | issue, write-back by transaction id, commit of up to two, flush | program order, late write-backs have no effect, no double commit |
| `issue_read_operands.sv`, `issue_stage.sv` | ID/EX register | operand lookup, forwarding, structural, write-after-write and bus checks, issue | operands are those of program order, results never collide |
| `ex_stage.sv`, `csr_buffer.sv`, `mult.sv`, `multiplier.sv`, `branch_unit.sv` | CSR address, product register | the fixed latency unit behind one result bus | no result is lost, a CSR access uses its own address |
| `serdiv.sv` | state, operands, quotient, counter | accept, iterate, deliver, flush | the result is the one of the instruction set |
| `commit_stage.sv`, `controller.sv` | none in this build | retire, raise, flush | fences wait, exceptions are precise, flushes reach everyone |
| `load_unit.sv` | state machine, outstanding load | request, tag, kill, retry after TLB miss, wait for stores | a load sees older stores, a killed load completes nothing, non-idempotent loads are not speculative |
| `store_unit.sv`, `amo_buffer.sv` | state machine, output register, one atomic | translate, push, trap | a trapping store is never pushed, atomics are performed at commit only |
| `load_store_unit.sv` | two-entry bypass queue | accept, pop, flush | the right unit sees the right instruction |
| `mmu_sv39/*` | TLBs, walker state, registered answer | translate, walk, flush, fence | a walk uses its own answers, a fault belongs to the request that caused it, nothing older than the last fence is used, every request is answered |
| `csr_regfile.sv` | CSRs, privilege level, debug mode | access, trap, return, step | |
| data cache (`wt_dcache_wbuffer.sv`, `_mem.sv`, `_missunit.sv`, `_ctrl.sv`) | write buffer entries and their transactions, tag and data memories, one MSHR, port state machines | read, write, merge, send, acknowledge, refill, invalidate, atomic, enable | reads see earlier writes, no store is lost or sent twice, atomics see a drained write buffer, the cache holds nothing stale |
| front end (`frontend.sv`, `instr_queue.sv`, `instr_realign.sv`) | next PC, speculation flag, half an instruction, two instruction FIFOs and an address FIFO | predict, fetch, re-align, push, replay, redirect | the decoder gets the instructions of the path, each once, with its exception |
| instruction cache (`cva6_icache.sv`) | state machine, pending flush, memories | look up, refill, kill, flush | a killed fetch answers nothing, it becomes ready again |
| predictors, decoder | tables | | a prediction is only a hint |
| `hydra_su.sv` | reset synchronisers | interconnect, debug reset | |

Interactions: decode offers one instruction per cycle to the issue stage; the
issue stage writes it into the scoreboard under a transaction id and, one
cycle later, into a functional unit; units answer with that id on three
write-back ports (store unit, load unit through a pipeline register, fixed
latency unit); the commit stage looks at the two oldest scoreboard entries,
moves retired stores to the commit queue of the store buffer, lets atomics go
to the data cache, and asks the controller for flushes. A flush
takes effect in the same cycle in every part of the execute stage, but the
data cache and the MMU may still answer what was asked before it. The page
table walker and the load unit read through two ports of the data cache, the
store buffer writes through its write buffer, atomics bypass both. The front end
asks the instruction cache, which asks the MMU; a misprediction, a full queue or
a predicted jump kills what is on the way there.

The hazards in `PROJECT.json` name the lines at which this can go wrong.

Configuration facts the models rely on: write-through cache (so
`flush_dcache` is never raised by the controller's fences), no floating point
unit, `ENABLE_RENAME = 0`, `NR_COMMIT_PORTS = 2`, `NR_LOAD_PIPE_REGS = 1`,
`NR_STORE_PIPE_REGS = 0`, `unresolved_branch_i` of the scoreboard tied to 0.

## 2. The modules

Every model steps once per clock cycle. A bound variable that ranges over a set
with one element (`\E l \in {loadIn(x)}`) names the signals of the cycle that
follow from its free inputs `x`. Combinational logic is a set of
operators named after the signals; registers are the variables. An operator
`x_Something` in front of `x`, marked `Mutant:`, is a plausible mistake in the
code that `x` models; it is not used by any specification. It shows that the
properties would notice the mistake.

| Module | Models | Notes |
|---|---|---|
| `StoreQueue` | - | what the store buffer promises: two FIFO queues |
| `StoreBuffer` | `store_buffer.sv` | `core_if`, `store_if` are the processes of these names; counters and pointers wrap |
| `ReorderBuffer` | - | what the scoreboard promises |
| `Scoreboard` | `scoreboard.sv`, registers | `NextEntry` keeps the order of the assignments in `issue_fifo` |
| `Isa` | `ariane_pkg.sv` | classes of instructions by their path |
| `CommitStage` | `commit_stage.sv`, `controller.sv` | combinational |
| `LoadUnit` | `load_unit.sv`, `wt_dcache_ctrl.sv` | the state machines as functions |
| `StoreUnit` | `store_unit.sv`, `amo_buffer.sv`, `lsu_bypass` | |
| `LoadStoreUnit` | `load_store_unit.sv` and all of the above | composition: variables for every register of the load/store unit, the scoreboard and debug mode |
| `IssueStage` | `issue_read_operands.sv`, `issue_stage.sv`, forwarding of `scoreboard.sv`, `ex_stage.sv`, `csr_buffer.sv`, `mult.sv` | composition with the scoreboard and the commit stage |
| `DataCache` | `wt_dcache_wbuffer.sv`, `wt_dcache_mem.sv`, `wt_dcache_missunit.sv`, with `wt_dcache_ctrl.sv` from `LoadUnit` | a step is a clock cycle or the memory performing a request it was sent |
| `Mmu` | `mmu.sv`, `ptw.sv`, `tlb.sv`, and their clients | page tables are data in memory that software changes under the walker (`Remap`) |
| `Frontend` | `frontend.sv`, `instr_realign.sv`, `instr_queue.sv`, the control of `cva6_icache.sv` | programs are memories of halfwords |
| `Divider` | `serdiv.sv`, the word operations of `mult.sv`, `lzc.sv` | bit-accurate for any width, one action per state |
| `MC*` | - | instances |
| `StoreBuffer_proofs`, `Scoreboard_proofs`, `Mmu_proofs`, `DataCache_proofs`, `DataCacheReads_proofs`, `Frontend_proofs`, `IssueStage_proofs`, `LoadStoreUnit_proofs` | - | theorems; `DataCacheReads_proofs` builds on `DataCache_proofs`, the proofs of the two compositions on those of the scoreboard and the store buffer |

`LoadStoreUnit` and `IssueStage` use `Scoreboard` and `StoreBuffer` through
`INSTANCE` for their operators, so the rings that are proved about are the
rings that are composed; what `StoreBuffer` assumes of its inputs is the
property `StoreBufferContract` there.

Abstractions:

- A store is a double word of the page and a value; in `LoadStoreUnit` the value is
  the transaction id of its instruction, which lets properties ask whose
  store is where.
- An address is a double word, a fault (`no`, `align` known at once, `page`
  known after translation) and whether the location is idempotent.
- In `LoadStoreUnit` the TLB and the page table walker are free: a lookup hits or misses, a walk takes
  any time. An address found stays found while its instruction is at the head.
- In `LoadStoreUnit` the cache behind the two ports is free to hit, miss, replay or grant in any
  cycle that `wt_dcache_ctrl.sv` allows.
- In `IssueStage` values are replaced by their origin. The history variable
  `good` says whether an instruction's operands came from where program order
  demands. The load/store unit is a set of transactions; its not being ready
  is covered by the decoder offering nothing.
- `live` in `ldd` and `ldpipe` of `LoadStoreUnit` is a history flag: the load
  has not been flushed.
- `DataCache`: all lines have the same index, so that they compete for the
  ways of one set; the way that is replaced and the choices of round-robin arbiters
  are free. A byte is one bit, and a store changes every byte it writes, so
  that old and new can be told apart. `ref` is what memory would hold if every
  accepted store were performed at once; `legal` collects the values a read may
  return. The memory performs requests at any time and in any order and
  acknowledges writes in the order they were sent; before an atomic is
  performed the adapter invalidates the cache. `stores_inflight_q` is the
  length of `writes`. While an atomic is requested the write port is idle, since the
  commit stage waits for the store buffer. The back-off after a failed SC
  only delays an LR and is left out.
- `Mmu`: one address space; PMP is a set of tables that the walker may not read;
  the checks on a TLB hit are left out. `since` is, for every page, the set of
  page tables that were in memory since the last fence for it. `fuel` bounds
  the loads and stores that follow one fetch.
- `Frontend`: an address is a halfword of a small memory that wraps around, and
  what was fetched is represented by the address it was read from. The contents of predictors,
  instruction cache and TLB are free inputs of every cycle. The back end
  is a counter of unresolved control flow and a `credit` of flushes (one
  for a mispredicted instruction and one for an older one); `expected` is the
  path it was told, `lost` says that it already holds an instruction that will be
  flushed. The FIFOs have two places instead of four; safety was also checked with four.
- The halt of the core (WFI, debug request) is an input of `CommitStage` which both
  compositions set to false.

## 3. The runs

| Run | Question | Bounds | States |
|---|---|---|---|
| `store_buffer` | Is it the pair of queues of `StoreQueue`? Do retired stores drain? | rings of 4 and 2, two double words | 3,840 |
| `scoreboard` | Is it the in-order `ReorderBuffer`, under arbitrary write-backs? | 4 entries, 2 write-backs per cycle | 2,466 |
| `lsu` | Back pressure, loads behind stores, faults, TLB misses, flushes with loads in flight, atomics, fences, non-idempotent loads | 4 entries, rings 2 and 1; three kinds of programs, one or two double words each | 250,197 |
| `issue_operands` | Operands, result bus, CSR address, one writer per register; does every instruction leave? | 4 entries, 2 registers, 12 instructions over all units | 86,344 |
| `divider` | All operands, all eight operations | 5 bit registers, 3 bit words | 37,473 |
| `dcache` | Coherence, lost and doubled stores, collisions of reads and writes, atomics | 2 entries, 2 transactions, 2 bytes; six workloads over up to 2 lines, 2 words, 2 ways, 2 ports | 125,385 |
| `mmu` | Own answers, fresh translations, faults, and is everything answered? | TLBs of 2 entries, two pages that differ in the last level, five scenarios with up to 2 page tables each, one load or store per fetch | 81,081 |
| `fetch` | Order, halves and exceptions of instructions, does fetch go on? | 8 halfwords, 3 programs, FIFOs of 2, 2 unresolved branches | 32,731 |
| `lsu_step`, `issue_tlb_flush`, `divider_early`, `mmu_flush` | the findings below | | |

Why the bounds are enough to meet the interesting cases: with four entries the
scoreboard holds three instructions, wraps around, and gives an id to a new
instruction while an answer to its previous owner is outstanding. The ring of two
speculative stores reaches full with one more store in the output register, and a
commit queue of one is full whenever it is not empty, so a store often
waits at commit. One or two double words distinguish "same" from
"other". Five bits with three bit words give every case of alignment, sign,
overflow and early end of a division, and words shorter than registers.
Two entries and two transactions let a word be written again while it is on its
way, with another word in the buffer; two lines and one or two ways make refills evict
each other. The page tables contain small pages, an aligned superpage over
both pages, a misaligned one, a pointer in the last level and a table the PMP
forbids, and the scenarios change between a superpage and small pages and between
a denied and a partly mapped space. Flushes and fences come in every cycle in
every scenario; in three of them the cache may also grant a read in the
cycle in which it answers the one before (`crossing`), so that reads that a second flush has
left behind meet new ones.
The programs of `fetch` mix compressed and full instructions across word boundaries with
every kind of control flow; all ways to overflow the queue (one FIFO, the
address FIFO, half of a fetch) occur.

The instances are never symmetric: stores carry transaction ids, registers
are compared with zero.

`VIEW` in the larger runs merges states that differ only in what free entries
of the rings, or an idle divider, last held. No signal depends on those, with one
exception that the view of `MCIssueStage` keeps: the write-back ports look
at the destination register of an entry that may be free already.
Of the runs with liveness only `issue_operands` uses a view. That is sound because its
fairness and its property speak of the units, the pointers and the flags of
entries only, all of which the view keeps; without a view the property was
checked with fewer instructions (a product, a division and a load).

Fairness:

- `StoreBuffer!Fairness`: when the commit queue requests, the cache
  eventually grants in a cycle. The grant comes from the write buffer of the
  data cache, which frees its entries as memory answers.
- `IssueStage!FairSpec`: again and again there is a cycle in which the units
  behind the issue stage are helpful: a division ends (its counter counts down),
  the load/store unit completes an access, stores have drained, an atomic is answered. Each
  is eventually true in hardware because memory answers and the counter
  decreases. Nothing is assumed about the decoder or about the issue stage itself.
- `Mmu!FairSpec`: a cycle in which the cache grants and answers, the instruction
  cache takes its answer and a translated access moves on is not put off for
  ever. The cache port is answered because the miss unit is; a store that was translated
  moves on when the store buffer drains.
- `Frontend!FairSpec`: a cycle in which the instruction cache is answered and the back end takes
  an instruction and resolves a branch is not put off for ever.

Properties worth knowing:

- `LoadSeesOlderStores`: a load asks for the cache in one cycle and the address
  checker was consulted in an earlier one, or in the cycle in which the load before
  it sends its tag.
- `BufferMatchesRob`: the commit stage retires stores by count. That the store
  it retires is the one at the read pointer needs that every older store,
  none that trapped and none that was flushed, is in the queue, in order.
- `ExceptionPrecise`: the MMU's exception is seen by both units one cycle late. A
  store that traps pops the queue although it has left it; the two-bit counter
  then wraps below zero and stale requests are at the head until the flush. The
  property shows that none of this reaches the oldest instruction.
- `NothingLost`: five producers share the result bus without a handshake.
- `CsrAddressOwn`: a fence that waits at commit clears the CSR address buffer every
  cycle, so a younger CSR access may be accepted and its address survives.
- `UniqueWriter` holds for instructions without an exception from the decoder.
  The assertion-like comments of `scoreboard.sv` do not make that
  restriction; an instruction that carries an exception skips the check at
  `issue_read_operands.sv:331`, and is harmless as it never commits.

- `LoadSeesLatest`, `CacheCoherent`, `StoreReachesMemory` together say that
  the data cache is a memory: a read returns for every byte a value it had between
  request and answer, whatever is in flight, and a byte that has left the write
  buffer is where it belongs. The interesting cases are a byte that is written
  again while it is in flight, a look-up whose answer is two cycles old when it is
  used, and reads and writes of the same line that cross.
- `OwnAnswer`: the walker has no tag for its reads; after a flush it counts on
  waiting for the answer it no longer wants. A second flush ends this wait, and
  then the read is `astray`. Its answer is still not looked at, unless the cache
  gives it together with the grant of the next read. Such an answer is `crossed`; it is
  finding 4, and `OwnAnswer` says that nothing else goes wrong.
- `TlbFresh`: an entry is as new as the last fence for its page, although a
  walk in progress when the fence arrives has read older tables. `misread` is the set of pages
  for which a crossed answer may have left something wrong: all of them when
  the walker looks at one, until they are fenced. They are excepted, and the fence
  really ends the exception: it drops what came of the answer and the walk that goes on from it.
- `FaultOwn`: the fault of a walk for data reaches the load/store unit for the page that
  was walked, or one that is going to be flushed because of an older exception; that the
  page tables justify it is said of the pages that are not in `misread`.
- `RequestsAnswered`: a fetch waits while loads and stores use the TLB;
  this ends because the pipeline behind the fetch runs dry.
- `InOrder`: what the decoder is offered is the program along the path it
  was told, instruction by instruction, both halves, however often the queue overflowed.
- `Delivers` and `FaultKept` each have an exception that is stated in the
  property and explained in the next section.

## 4. Findings

1. **Single-stepping a store** (`lsu_step`, `CommitFlushExclusive`).
   `csr_regfile.sv:775` enters debug mode in the cycle in which the stepped
   instruction retires, which flushes. If it is a store, `commit_i` and
   `flush_i` of the store buffer are raised together. The assertion at
   `store_buffer.sv:258` excludes this; afterwards the write pointer is one
   behind the read pointer.
2. **SFENCE.VMA behind a CSR access** (`issue_tlb_flush`, `CsrNotForwarded`).
   `issue_read_operands.sv:169` exempts SFENCE.VMA from the rule that results of CSR
   instructions are not forwarded; what is forwarded is the access's operand.
3. **-1 / 1** (`divider_early`, `EarlyOnlyIfZero`). The leading-zero count
   of `{~op_a, 1'b0}` is that of an empty word when the dividend is -1 and
   the division is ended as if the quotient were zero. `ResultCorrect` shows that
   no other pair of operands is affected.
4. **Two flushes in a row** (`mmu_flush`, `EveryAnswerOwn`). `ptw.sv:370` lets a flush in `PTE_LOOKUP` or
   `WAIT_GRANT` wait for the outstanding answer in `WAIT_RVALID`, but a second flush in
   `WAIT_RVALID`, as of `csrw satp` followed by `sfence.vma`, goes to `IDLE`; the comment above it says
   "should we have flushed before we got an rvalid, wait for it until going back to IDLE". A walk that
   starts then can be granted its read in the cycle in which the old answer
   arrives and take that for its own. The cache port grants a new read together with an
   answer only for a hit (`READ` and `REPLAY_READ` of `wt_dcache_ctrl.sv`), so it takes a read that waited for another
   miss on the same line. `OwnAnswer`, `TlbFresh` and `FaultOwn` bound the damage: without that
   coincidence a repeated flush is harmless, and with it the next fence repairs the TLBs.

Observations that are not runs of their own:

- *A fault in half an instruction.* If fetch starts at the second halfword of a word that
  faults, and what the cache returns with the fault looks like the
  first half of an instruction, `instr_realign.sv` passes nothing on and the
  exception is forgotten; the instruction continues with the next word. The
  comment at `instr_queue.sv:184` says "exceptions hold for the whole fetch packet".
  `FaultKept` states this exception.
- *Waiting for a branch that was dropped.* `frontend.sv:257` marks fetch as
  speculative for every branch it sees, also for one that did not fit into the queue. If the
  replay of that branch is from a non-idempotent region, the instruction cache waits for
  the flag, and the flag for the branch. `ArianeSocCfg`, which `hydra_su.sv`
  passes to the core, has such a region from 0 to the start of DRAM, boot and debug ROM
  included. `Delivers` states this exception (`stuck`). Conversely, resolving
  an older branch clears the flag while a younger one is unresolved.
- *A return with an empty stack* is pushed as a predicted jump to address 0
  while fetch goes on in sequence; only the misprediction of the return makes this safe
  (`wild`).
- *A load that is lost.* A faulting load waits in `WAIT_GNT` while the load before it
  is looked up again (`REPLAY_READ` of `wt_dcache_ctrl.sv`). If that look-up hits, the cache
  gives the answer and the next grant in one cycle. If this is also the cycle in which the fault
  is reported, the grant pops the load (`load_unit.sv:180`), the answer keeps its
  exception from being retired (`load_unit.sv:291`) and the exception keeps the load
  from being sent (`load_unit.sv:247`): nothing will ever complete it, and the
  commit stage waits for it. The comment at `load_unit.sv:289` says "so we simply check if we
  got an rvalid if so we prioritize it by not retiring the exception - we simply go for another
  round in the load FSM"; the round does not take place. `tlc -config LsuLost.cfg MCLoadStoreUnit` shows it
  (`LoadsKept` is violated after five cycles). The safety properties are not
  affected, and hold with it (section 5).
- *A load that goes for another round.* If the exception of a walk arrives in the one cycle
  in which `load_unit.sv` has dropped its request (`ABORT_TRANSACTION`),
  it is not taken and the walk is done again.
- `mmu.sv:336-346` computes `lsu_dtlb_ppn_o` of this cycle with the page sizes
  of the last one (`dtlb_is_2M_q`).
- The assertion "More then one hit in TLB!" of `tlb.sv` can fire when
  software changes the size of a page before it fences.
- `wt_dcache_wbuffer.sv:460` says that for a non-idempotent address "need to
  drain the buffer first"; the code only lets it wait for other non-idempotent stores.

## 5. The proofs

TLAPS proves, for every value of the constants that satisfies the assumptions below:

| Theorem | Statement |
|---|---|
| `StoreBuffer_proofs!TypeCorrect` | `Spec => []TypeOK` |
| `StoreBuffer_proofs!RingsConsistent` | `Spec => []Consistent` |
| `StoreBuffer_proofs!CheckerCorrect` | `Spec => []CheckerComplete` |
| `StoreBuffer_proofs!ImplementsStoreQueue` | `Spec => Refinement`: the rings implement `StoreQueue` |
| `Scoreboard_proofs!TypeCorrect` | `Spec => []TypeOK` |
| `Scoreboard_proofs!PointersConsistent` | `Spec => []Consistent` |
| `Scoreboard_proofs!CommitPortsDistinct` | `Spec => []PortsDistinct` |
| `Scoreboard_proofs!ImplementsReorderBuffer` | `Spec => Refinement`: the scoreboard implements `ReorderBuffer` |
| `Mmu_proofs!OwnAnswers` | `Spec => []OwnAnswer` |
| `Mmu_proofs!TranslationsFresh` | `Spec => []TlbFresh` |
| `Mmu_proofs!FaultsOwn` | `Spec => []FaultOwn` |
| `DataCache_proofs!TypeCorrect` | `Spec => []TypeOK` |
| `DataCache_proofs!TransactionsConsistent` | `Spec => []TxConsistent` |
| `DataCache_proofs!NoStoreLost` | `Spec => []StoreReachesMemory` |
| `DataCache_proofs!AtomicsInOrder` | `Spec => []AmoAfterStores` |
| `DataCache_proofs!NonIdempotentOnce` | `Spec => []NiStoresOnce` |
| `DataCacheReads_proofs!CoherentCache` | `Spec => []CacheCoherent` |
| `DataCacheReads_proofs!LoadsSeeLatest` | `Spec => []LoadSeesLatest` |
| `Frontend_proofs!TypeCorrect` | `Spec => []TypeOK` |
| `Frontend_proofs!InstructionsInOrder` | `Spec => []InOrder` |
| `Frontend_proofs!FaultsKept` | `Spec => []FaultKept` |
| `IssueStage_proofs!OneWriter` | `Spec => []UniqueWriter` |
| `IssueStage_proofs!NoResultLost` | `Spec => []NothingLost` |
| `IssueStage_proofs!OwnCsrAddress` | `Spec => []CsrAddressOwn` |
| `IssueStage_proofs!OperandsRight` | `FlushesWholeTlb => (Spec => []OperandsCorrect)` |
| `LoadStoreUnit_proofs!TypeCorrect` | `Spec => []TypeOK` |
| `LoadStoreUnit_proofs!WriteBacksFresh` | `Spec => []NoStaleWriteBack` |
| `LoadStoreUnit_proofs!ExceptionsPrecise` | `Spec => []ExceptionPrecise` |
| `LoadStoreUnit_proofs!AmosBuffered` | `Spec => []AmoBuffered` |
| `LoadStoreUnit_proofs!ContractKept` | `~STEP`, `Spec => []StoreBufferContract` |
| `LoadStoreUnit_proofs!CommitsNeverFlush` | `~STEP`, `Spec => []CommitFlushExclusive` |
| `LoadStoreUnit_proofs!RetiresTheRightStore` | `~STEP`, `Spec => []BufferMatchesRob` |
| `LoadStoreUnit_proofs!NothingOrphaned` | `~STEP`, `Spec => []NoOrphans` |
| `LoadStoreUnit_proofs!FencesOrder` | `~STEP`, `Spec => FenceOrders` |
| `LoadStoreUnit_proofs!LoadsSeeStores` | `~STEP`, `Spec => []LoadSeesOlderStores` |
| `LoadStoreUnit_proofs!NiLoadsWait` | `~STEP`, `Spec => []NiLoadNonSpeculative` |

Assumptions. The rings of the store buffer have at least one place
(`DepthAssumption`), there is a store (`StoreAssumption`), the scoreboard has
at least two entries (`EntriesAssumption`), there is an instruction and its
`ex` is Boolean (`InstrAssumption`); sizes need not be powers of two.
Pages of code are pages (`CodeAssumption`), and so are those of loads and
stores (`ScenarioAssumption`). The cache has a way, a line, an
entry and a transaction, and non-idempotent lines are not cached
(`CacheAssumption`); stores are aligned, as `load_store_unit.sv` guarantees
(`WorkloadAssumption`). A program is a memory of whole words, the halfword
behind it is blank, and jumps stay in it (`FrontendAssumption`). Of the
decoder the issue stage needs that an instruction without a functional unit carries an
exception and names no destination, and that stores, fences and TLB flushes name none
(`IssueAssumption`). The load/store unit has the sizes of its parts
(`SizeAssumption`), and its instructions have the fields of an instruction, where only an access
to memory has a faulty address (its `InstrAssumption`). TLC
evaluates all of them on the instances of section 3. `FlushesWholeTlb` is
needed, TLB flushes read no register: run `issue_tlb_flush` shows one that is given
the result of a CSR access before it is known. So is `~STEP`: run `lsu_step` shows that a
single-stepped store leaves the ring of the store buffer with a write pointer behind its read
pointer, after which nothing that relates stores to the buffer can be expected to hold. What does not depend on
the buffer's order (types, late answers, exceptions, the AMO buffer) is proved with and without it.

*Store buffer.* `TypeOK /\ Consistent` is inductive. `Consistent` says which places
are valid by their distance from the read pointer, while the code writes places
by index. `AtDist` and `FlagsByIndex` change between the two views;
`RingStep` says what a push and a pop do to a consistent ring in
terms of indices. The two queues are then instances of the same argument
(`SpecConsistent`, `CommConsistent`). The commit queue needs `HeadValid` twice: an
entry that retires is valid, since the speculative queue is not empty, and a
request, which looks at a flag only, is raised only if the counter is not zero. The contract of the
assertions is needed exactly where the counter would wrap.
`CheckerCorrect` follows from the invariant alone: a place is valid if and only if it
is part of the queue's contents. The refinement reads the contents
of a ring as the sequence from its read pointer; with the invariant, a push appends
to this sequence, a pop takes its head, and a cycle is the step of `StoreQueue` that does
the same to both queues.

*Scoreboard.* `Consistent` is not inductive: if both commit pointers could name
the same entry while two instructions are acknowledged, the counter and the flags
would part. In the cycle after a flush or a reset the two pointers are equal
(both zero). `IInv` therefore adds `PortsReady`: the second pointer is one place behind
the first, or the scoreboard is empty; the next cycle without a flush
repairs the pointer before anything can be complete. `ByIndex` is `Consistent` in
terms of indices instead of distances. `NextEntryFlags` says what the sequence of
assignments in `issue_fifo` does to the flags of one entry, `PointerStep` what a cycle
does to pointers and counter. The refinement again reads the entries from
the commit pointer on as a sequence.

*MMU.* The invariant has three layers, proved one on top of the other, and nothing is assumed about
when flushes and fences come. `ReadInv`: at most one
read is on its way; the walker waits for it, or it is astray (`OneRead`). A walker that looks at an answer
has its own, or a crossed one while its own read is on its way, astray in turn. This gives `OwnAnswer`. `FreshInv`: a read that no flush
has hit, and its answer, see nothing older than the last fence (`ReadsFresh`);
the walker stands where a walk through the page tables since
that fence can be, for all the pages its entry will cover and that are not in `misread` (`WalkFresh`), hence
`TlbFresh`: a page leaves `misread` by a fence only, and the fence, being a flush, stops the walk and drops the entries
for the page. `FaultInv`: the request that a walk was started for still waits for it
(`WalkWanted`), and the tables justify the fault that is about to be
reported (`FaultJustified`).

*Data cache, the write side.* `TxConsistent`, the assertions of the code with their context, does
not stand alone. `Flights` places every transaction either in one write on its way or
once in the queue of responses: without it a response could free another
transaction's bytes. `Values` relates the values: a byte in the buffer is current, a write carries the current values of
the bytes that were not written again since, and a performed transaction
has brought them to memory; `StoreReachesMemory` needs it in the cycle in which an entry is
given up. `StoreWaits` keeps what the miss unit checked before it waited for the adapter,
`LoadWaits` and `AmoAlone` say the same of reads and atomics, and `NiAlone` that the only
non-idempotent entry is sent whole, in one transaction.

*Data cache, the read side.* `RInv` is an invariant relative to the one above. The difficulty is the pipeline of
look-ups: a hit is found in one cycle, used in the next or the one after, and a
line may be filled or invalidated in between. `LookupsRight` says that what a
look-up found is still so in each stage, which holds because a fill and an invalidation take the
port of the memories in the cycle they happen and void the stage before. `MissesMiss` keeps a line from being filled twice. `ReadAlone`
says that no write to a line is sent while the line is read, so what memory returned is current but for
the bytes in the buffer (`ReadCurrent`); `AnswersLegal` carries this to the ports.

*Front end.* `Fetching` says that the words in the cache, in the fetch register and half an
instruction in the realigner follow each other without a gap, so that `nextAt`, the
address of the next instruction that fetch will produce, is defined. `Delivering` says that there is one sequence
of entries which the two FIFOs hold in turn (`Queued`) and which is a route of
the program from what decode expects to `nextAt`, taking an address from the address
queue at every predicted change of control flow (`Route`). A route ends early at an entry
after which decode needs a flush: an exception, a jump whose target is not known, a lost half.
`Addressed` is about the program counter that
`instr_queue.sv` keeps. A cycle is then a pop at the front (`PopStep`) and at most two pushes at the end
(`PushStep`, from `SlotsRight`, which says what the realigner offers). The replay needs a fact
of its own: the FIFO of the first slot is never fuller than that of the second, hence
never is the second instruction queued without the first.

*Issue stage.* `Step` is a cycle with its inputs, signals and acknowledged instruction named; `Moved` is
all that the rest of the proof needs to know about the scoreboard: who stays, who enters, and that everyone who stays
moves up by the number that retire. `Ring` and `Marked` (an exception from the decoder stays) are inductive
without the units, and with them `UniqueWriter`: the check for another writer passes a register that is
written in the same cycle, and `CommittedPops` shows that its writer then really retires, which needs the
fact that stores, fences and TLB flushes, which are written to the register file without retiring while they
wait, name no register.
`NothingLost` needs three more: `Owners` (a unit works on an entry that waits, the right kind, and never the same
as another unit; after a flush the load register alone may name a free entry), `BusFree` (no single-cycle
instruction is in the ID/EX register when a product or a division is under way) and `Covered` (no one waits in
vain). `ResultsArrive` follows from `BusFree`: what the units complete is what the scoreboard
is told. `CsrInv` says that the only access in flight owns the buffer or is about to, or that the oldest
one in flight is going to flush the others; the second case is needed because a fence at the commit port clears the
buffer in every cycle it waits. `GoodOrDoomed` adds to `good` that an instruction may hold wrong operands as long
as something older is going to flush it (an exception, an atomic): only if there is none does
the issue stage find at most one source, and `ReadsRight` shows that it is the right one.

*Load/store unit.* `Step` is a cycle with its inputs and the signals of both units named. The scoreboard is
reused: `CycleTracks` of `Scoreboard_proofs` says who stays, who enters and by how much everyone ages. The invariant has layers.
`Basic` is about control alone. `LoadProtocol` relates the two state machines of load unit and cache: which
of them owns the outstanding read. `Shape` is the two-place queue between issue and the units. A store that has
left it for `VALID_STORE` may still trap and is then popped a second time, so the counter can wrap below zero; the
trap can only be followed by a flush, and `Shape` says that until then no unit works on a place
that is not valid. `Held`: whatever is in a queue or a unit belongs to an instruction that waits, and is there once.
`Basic` gives `TypeOK` and `NoStaleWriteBack`, and with `Amos` `AmoBuffered`.

`Traps` adds exceptions. The MMU reports a fault a cycle after the request, to both units, without a name. `Order`
says that the queue and the units hold memory operations in program order, or that everything they hold is
behind an instruction that is going to trap (`Tripped`, the wrapped counter). `Walking` and `Blamed` say whose
fault is about to be reported, `LoadFaults` that a load that was sent on has none. `ExceptionPrecise` speaks of
the oldest instruction; its inductive form `Precise` speaks of everything that is on the path, that is, not behind one that
traps.

`Stores` adds the store buffer, under `~STEP`. `Rings` is the invariant of `StoreBuffer_proofs`; its steps need
the contract of the assertions, which is now proved. `SpecOrder` says that the
speculative queue holds exactly the completed stores that are on the path, in order, followed at most by
stores behind a trap, and that a store in the output register still finds a place. `HeadStore` derives from it that a
retired store is the head of the queue, hence `StoreBufferContract` and `BufferMatchesRob`.

`Loads` adds what a load was told by the address checker. `Passed`: after the check, no store to the double word of
the load can enter the buffer before the load, because the one queue in front of both units is in order.
`Expected` keeps the older stores that have not yet reached the buffer in sight. `LoadSeesOlderStores` and
`NiLoadNonSpeculative` are parts of the same invariant.

Only model-checked:

- liveness (`RequestsAnswered`, `Delivers` and the others): fairness and `ENABLED` are out of the prover's
  reach;
- `ResultCorrect` of the divider: what the iteration computes is an induction over data;
- `CsrNotForwarded`, `EarlyOnlyIfZero`, `EveryAnswerOwn` and `LoadsKept`, which are violated (section 4), and
  `CommitFlushExclusive` with single-stepping.

## 6. What is not modelled, and the plan

Not modelled: decoder and ALU (combinational tables and arithmetic), floating
point (absent), renaming (disabled), vendored peripherals, the contents of predictors and
of the instruction cache, the FIFOs of the AXI adapter, `hydra_su.sv`.

The repository also holds a large amount of C and C++: the output of
Verilator for a test bench, and vendored simulators. It is generated from, or
used to test, the hardware described by the SystemVerilog that is modelled here; a model of
generated code would say nothing about the design.

Plan, in order:

1. `CsrFile`: trap entry and return, interrupts, WFI, debug mode.
2. `ScalarUnit`: reset domains of `hydra_su.sv`, the debug module's bus adapter.
3. `DataCache` behind `LoadStoreUnit` instead of a free cache.
