------------------------------ MODULE Frontend ------------------------------
(***************************************************************************)
(* Instruction fetch: the next PC and the branch predictions of            *)
(* frontend.sv, the re-alignment of 32 bit fetches into instructions       *)
(* (instr_realign.sv), the instruction queue with its replay               *)
(* (instr_queue.sv), and the control of the instruction cache              *)
(* (cva6_icache.sv) with the kill signals between them.                    *)
(*                                                                         *)
(* An address is a halfword of a small memory that wraps around; a fetch   *)
(* reads the word it lies in.  What is fetched is represented by the       *)
(* address it was read from.  The contents of the predictors, the cache    *)
(* and the TLB are free: what they answer is an input of every cycle.      *)
(***************************************************************************)
EXTENDS Naturals, FiniteSets, Sequences

CONSTANTS
    SIZE,           \* halfwords in memory, an even number
    Programs,       \* sequences of memories: address -> [comp, kind, target], and SIZE -> Blank
    DEPTH,          \* FETCH_FIFO_DEPTH of instr_queue.sv
    Fault,          \* words (even addresses) whose fetch raises an exception
    Junk,           \* words that the cache may return in that case
    NonIdempotent,  \* words in a region that must not be fetched speculatively
    Restart,        \* targets of flushes, returns and indirect jumps
    MAX_CF          \* unresolved control flow instructions in the back end

Kind == {"none", "jump", "branch", "jalr", "return"}
Words == {a \in 0..(SIZE - 1) : a % 2 = 0}
Blank == [comp |-> TRUE, kind |-> "none", target |-> 0]

ASSUME FrontendAssumption ==
    /\ SIZE \in Nat \ {0} /\ SIZE % 2 = 0
    /\ DEPTH \in Nat \ {0} /\ MAX_CF \in Nat
    /\ Fault \subseteq Words /\ Junk \subseteq Words /\ NonIdempotent \subseteq Words
    /\ Restart \subseteq 0..(SIZE - 1)
    /\ \A p \in DOMAIN Programs :
         /\ Programs[p] \in [0..SIZE -> [comp : BOOLEAN, kind : Kind, target : 0..(SIZE - 1)]]
         /\ Programs[p][SIZE] = Blank

VARIABLES
    prog,           \* which program is in memory
    npc, spec,      \* frontend.sv: npc_q, speculative_q
    ic, flush_q,    \* cva6_icache.sv: state_q, vaddr_q; a flush is pending
    fq,             \* frontend.sv: icache_valid_q, _vaddr_q, _ex_valid_q and the word in icache_data_q
    ra,             \* instr_realign.sv: unaligned_q, _address_q, _instr_q
    q, aq,          \* instr_queue.sv: the two instruction FIFOs and the address FIFO
    idx_is, idx_ds, \* instr_queue.sv: the FIFO of the next instruction in and out
    pc, reset,      \* instr_queue.sv: pc_q, reset_address_q
    unresolved,     \* control flow instructions in the back end
    credit,         \* how often the back end can still flush before it gets another instruction
    expected,       \* where the next instruction of the back end starts
    lost            \* the back end holds an instruction that has to be flushed

vars == <<prog, npc, spec, ic, flush_q, fq, ra, q, aq, idx_is, idx_ds, pc, reset,
          unresolved, credit, expected, lost>>

Address == 0..(SIZE - 1)
None == SIZE

Mem == Programs[prog]
comp(h) == Mem[h].comp
kind(h) == Mem[h].kind

word(a) == a - (a % 2)
odd(a) == a % 2 = 1
plus(a, n) == (a + n) % SIZE

NoFetch == [valid |-> FALSE, vaddr |-> 0, data |-> 0, ex |-> FALSE]
NoHalf == [on |-> FALSE, addr |-> 0, lo |-> 0]
Idle == [st |-> "IDLE", vaddr |-> 0]

Init ==
    /\ prog \in DOMAIN Programs
    /\ npc = 0 /\ spec = FALSE
    /\ ic = [st |-> "FLUSH", vaddr |-> 0] /\ flush_q = FALSE
    /\ fq = NoFetch /\ ra = NoHalf
    /\ q = [i \in 0..1 |-> <<>>] /\ aq = <<>>
    /\ idx_is = 0 /\ idx_ds = 0 /\ pc = 0 /\ reset = TRUE
    /\ unresolved = 0 /\ credit = 0
    /\ expected = 0 /\ lost = FALSE

-----------------------------------------------------------------------------
(* Re-alignment (instr_realign.sv).  A slot is an instruction of the       *)
(* fetched word: where it starts and the halfwords it is made of.          *)

\* The halfwords of icache_data_q: an odd fetch is shifted down by frontend.sv.
lower == IF odd(fq.vaddr) THEN fq.data + 1 ELSE fq.data
upper == IF odd(fq.vaddr) THEN None ELSE fq.data + 1

\* An odd fetch that holds no more than the first half of an instruction.
startsUnaligned == odd(fq.vaddr) /\ ~comp(lower)

\* The second slot is used if the first ends in the middle of the word.
secondSlot == ~odd(fq.vaddr) /\ (comp(lower) \/ ra.on) /\ comp(upper)

slot(v, at, lo, hi) == [valid |-> v, at |-> at, lo |-> lo, hi |-> hi, kind |-> IF v THEN kind(lo) ELSE "none"]

slots ==
    <<LET v == fq.valid /\ ~startsUnaligned
      IN  IF ra.on THEN slot(v, ra.addr, ra.lo, lower)
                   ELSE slot(v, fq.vaddr, lower, IF comp(lower) THEN None ELSE upper),
      slot(fq.valid /\ secondSlot, word(fq.vaddr) + 1, upper, None)>>

unaligned_d == startsUnaligned \/ ((comp(lower) \/ ra.on) /\ ~comp(upper))

realign_next(kill) ==
    IF kill THEN NoHalf
    ELSE IF ~fq.valid THEN ra
    ELSE IF unaligned_d
    THEN [on |-> TRUE, addr |-> word(fq.vaddr) + 1, lo |-> IF startsUnaligned THEN lower ELSE upper]
    ELSE NoHalf

-----------------------------------------------------------------------------
(* Prediction (frontend.sv).  s are the two slots of the word.  In the     *)
(* inputs x of a cycle, taken is the set of slots for which BHT or BTB     *)
(* predict a jump, ras whether the return stack is valid, and target what  *)
(* BTB or return stack hold.                                               *)

cf_type(s, i, x) ==
    \/ s[i].kind \in {"jump", "return"}
    \/ s[i].kind \in {"branch", "jalr"} /\ i \in x.taken

\* A return is a change of control flow even if the stack is empty ...
wild(s, i, x) == s[i].kind = "return" /\ ~x.ras

target(s, i, x) ==
    IF s[i].kind \in {"jump", "branch"} THEN Mem[s[i].lo].target
    ELSE IF s[i].kind = "none" \/ wild(s, i, x) THEN 0 ELSE x.target

\* ... but fetch is not redirected then.
bp_valid(s, x) == \E i \in 1..2 : cf_type(s, i, x) /\ ~wild(s, i, x)

predict_address(s, x) == IF cf_type(s, 1, x) THEN target(s, 1, x) ELSE target(s, 2, x)

speculative_d(s, x) ==
    /\ x.redirect = None
    /\ (spec /\ ~x.resolve) \/ \E i \in 1..2 : s[i].kind \in {"branch", "return", "jalr"}

-----------------------------------------------------------------------------
(* The instruction queue (instr_queue.sv).                                 *)

full(i) == Len(q[i]) = DEPTH

ready_o == ~full(0) /\ ~full(1) /\ Len(aq) < DEPTH

\* Instructions up to the first change of control flow.
valid(s, x) == {i \in 1..2 : s[i].valid /\ (i = 2 => ~cf_type(s, 1, x))}

\* The FIFO a slot goes to.
fifo(i) == (idx_is + i - 1) % 2

\* Mutant: a full FIFO is written.
push_instr_Unchecked(s, x) == valid(s, x)

push_instr(s, x) == {i \in valid(s, x) : ~full(fifo(i))}

push_address(s, x) == \E i \in push_instr(s, x) : cf_type(s, i, x)

address_overflow(s, x) == Len(aq) = DEPTH /\ push_address(s, x)

replay(s, x) == address_overflow(s, x) \/ push_instr(s, x) # valid(s, x)

push_instr_fifo(s, x) == IF address_overflow(s, x) THEN {} ELSE push_instr(s, x)

\* Mutant: the whole word is replayed.
replay_addr_Base(s, x) == s[1].at

\* From the first instruction that was not pushed.
replay_addr(s, x) == s[(Cardinality(push_instr_fifo(s, x)) % 2) + 1].at

fetch_entry_valid == q[0] # <<>> \/ q[1] # <<>>

\* The entry on offer.  An empty FIFO drives a value nobody should look at.
fetch_entry ==
    IF q[idx_ds] # <<>> THEN Head(q[idx_ds])
    ELSE [lo |-> None, hi |-> None, cf |-> FALSE, wild |-> FALSE, ex |-> FALSE]

address_out == IF aq # <<>> THEN Head(aq) ELSE 0

pop_address(x) == x.take /\ fetch_entry.cf

popped(f, pop) == IF pop /\ f # <<>> THEN Tail(f) ELSE f

\* The slot that is written to FIFO n.
slotOf(n) == IF fifo(1) = n THEN 1 ELSE 2

\* Mutant: an instruction that began in the word before is not marked.
instr_data_in_NotSpanning(s, i, x) ==
    [lo |-> s[i].lo, hi |-> s[i].hi, cf |-> cf_type(s, i, x), wild |-> wild(s, i, x),
     ex |-> fq.ex /\ ~(ra.on /\ i = 1)]

instr_data_in(s, i, x) ==
    [lo |-> s[i].lo, hi |-> s[i].hi, cf |-> cf_type(s, i, x), wild |-> wild(s, i, x), ex |-> fq.ex]

pushed(s, x, n) ==
    IF slotOf(n) \in push_instr_fifo(s, x) THEN <<instr_data_in(s, slotOf(n), x)>> ELSE <<>>

length(h) == IF comp(h) THEN 1 ELSE 2

pc_d(s, x) ==
    IF s[1].valid /\ reset THEN s[1].at
    ELSE IF pop_address(x) THEN address_out
    ELSE IF x.take THEN plus(pc, length(fetch_entry.lo)) ELSE pc

reset_address_d(s, x) == x.redirect # None \/ (reset /\ ~s[1].valid)

queue_flush ==
    /\ q' = [n \in 0..1 |-> <<>>] /\ aq' = <<>>
    /\ idx_is' = 0 /\ idx_ds' = 0

queue_step(s, x) ==
    /\ q' = [n \in 0..1 |-> popped(q[n], x.take /\ n = idx_ds) \o pushed(s, x, n)]
    /\ aq' = popped(aq, pop_address(x))
               \o IF push_address(s, x) /\ Len(aq) < DEPTH THEN <<predict_address(s, x)>> ELSE <<>>
    /\ idx_is' = (idx_is + Cardinality(push_instr_fifo(s, x))) % 2
    /\ idx_ds' = IF x.take THEN 1 - idx_ds ELSE idx_ds

-----------------------------------------------------------------------------
(* The instruction cache (cva6_icache.sv).  Its inputs: the kill signals,  *)
(* flush and spec, in k; reply is what translation and memory answer to    *)
(* the state the cache is in: nothing ("wait"), a translated address that  *)
(* hits ("hit"), that hits while an invalidation arrives ("hit_inval"),    *)
(* that misses ("miss") or that has to be looked up again ("retry"); the   *)
(* end of a refill, of a translation or of a flush ("done"); an            *)
(* invalidation ("inval").                                                 *)

signals(s, x) ==
    LET s1 == x.redirect # None \/ replay(s, x)
        bp == bp_valid(s, x)
    IN  [kill_s1 |-> s1, kill_s2 |-> s1 \/ bp,
         flush |-> flush_q \/ x.fencei,
         spec |-> speculative_d(s, x),
         address |-> IF bp THEN predict_address(s, x) ELSE npc]

\* A region that is not idempotent waits until fetch is not speculative.
proceeds(k, reply) ==
    /\ reply \in {"hit", "hit_inval", "miss", "retry"}
    /\ word(ic.vaddr) \in NonIdempotent => ~k.spec

hits(k, reply) == ic.st = "READ" /\ proceeds(k, reply) /\ reply \in {"hit", "hit_inval"} /\ ~k.flush

\* The cache takes a request in these cycles.
dreq_ready(k, reply) ==
    \/ ic.st = "IDLE" /\ ~k.flush /\ reply = "wait"
    \/ hits(k, reply) /\ reply = "hit"

dreq_valid(k, reply) ==
    /\ ~k.kill_s2
    /\ hits(k, reply) \/ (ic.st = "MISS" /\ reply = "done" /\ ~k.flush)

\* The state after a cycle in which the cache can take a request.
accept(k, reply) ==
    IF dreq_ready(k, reply) /\ ready_o /\ ~k.kill_s1 THEN [st |-> "READ", vaddr |-> k.address] ELSE Idle

killed(k) == k.kill_s2 \/ k.flush

afterRead(k, reply) ==
    IF ~proceeds(k, reply) THEN (IF killed(k) THEN [ic EXCEPT !.st = "KILL_ATRANS"] ELSE ic)
    ELSE IF k.flush THEN Idle
    ELSE IF hits(k, reply) THEN accept(k, reply)
    ELSE IF k.kill_s2 THEN Idle
    ELSE IF reply = "miss" THEN [ic EXCEPT !.st = "MISS"] ELSE ic

afterMiss(k, reply) ==
    IF reply = "done" THEN Idle
    ELSE IF killed(k) THEN [ic EXCEPT !.st = "KILL_MISS"] ELSE ic

\* When the cache is switched on, IDLE also clears it; this is the same as
\* a flush that is pending (k.flush) and is not represented on its own.
icache_next(k, reply) ==
    CASE ic.st = "IDLE" -> IF k.flush THEN [ic EXCEPT !.st = "FLUSH"] ELSE accept(k, reply)
      [] ic.st = "READ" -> afterRead(k, reply)
      [] ic.st = "MISS" -> afterMiss(k, reply)
      [] OTHER -> IF reply = "done" THEN Idle ELSE ic

\* Mutant: the pending flush is not cleared.
flush_next_Kept(k, reply) == k.flush

flush_next(k, reply) == k.flush /\ ~(ic.st = "FLUSH" /\ reply = "done")

fetched(k, x) ==
    IF dreq_valid(k, x.reply)
    THEN [valid |-> TRUE, vaddr |-> ic.vaddr, data |-> x.data, ex |-> word(ic.vaddr) \in Fault]
    ELSE NoFetch

npc_d(s, x, k) ==
    IF x.redirect # None THEN x.redirect
    ELSE IF replay(s, x) THEN replay_addr(s, x)
    ELSE IF dreq_ready(k, x.reply) /\ ready_o THEN plus(word(k.address), 2)
    ELSE k.address

-----------------------------------------------------------------------------
(* The back end takes an instruction if it has room, resolves control flow *)
(* in order, and flushes on behalf of an instruction it holds: one that    *)
(* was mispredicted, and after that one older than it.                     *)

\* The entry begins with the last halfword of a word that faults, and continues
\* in one that does not: see FaultKept.
halfLost(e, a) == odd(a) /\ word(a) \in Fault /\ word(plus(a, 1)) \notin Fault /\ ~comp(e.lo)

isCf(e) == ~e.ex /\ kind(e.lo) # "none"

\* What the back end knows: the path it has been given.
backend_next(x) ==
    /\ unresolved' = IF x.redirect # None THEN 0
                     ELSE unresolved + (IF x.take /\ isCf(fetch_entry) THEN 1 ELSE 0)
                                     - (IF x.resolve THEN 1 ELSE 0)
    /\ credit' = IF x.redirect # None THEN credit - 1 ELSE IF x.take THEN 2 ELSE credit
    /\ expected' = IF x.redirect # None THEN x.redirect
                   ELSE IF pop_address(x) THEN address_out
                   ELSE IF x.take THEN plus(expected, length(expected)) ELSE expected
    /\ lost' = /\ x.redirect = None
               /\ lost \/ (x.take /\ (fetch_entry.ex \/ fetch_entry.wild \/ halfLost(fetch_entry, expected)))

\* One clock cycle with inputs x, except for the FIFOs: s are the slots, k the
\* signals to the cache.
Cycle(s, x, k) ==
    /\ npc' = npc_d(s, x, k)
    /\ spec' = k.spec
    /\ ic' = icache_next(k, x.reply)
    /\ flush_q' = flush_next(k, x.reply)
    /\ fq' = fetched(k, x)
    /\ ra' = realign_next(k.kill_s2)
    /\ reset' = reset_address_d(s, x)
    /\ pc' = IF reset_address_d(s, x) THEN 0 ELSE pc_d(s, x)
    /\ backend_next(x)
    /\ UNCHANGED prog

replies ==
    CASE ic.st = "IDLE" -> {"wait", "inval"}
      [] ic.st = "READ" ->
           {"wait", "retry"} \cup (IF word(ic.vaddr) \in Fault THEN {"hit", "hit_inval"}
                                  ELSE IF word(ic.vaddr) \in NonIdempotent THEN {"miss"}
                                  ELSE {"hit", "hit_inval", "miss"})
      [] OTHER -> {"wait", "done"}

data == IF word(ic.vaddr) \in Fault THEN Junk ELSE {word(ic.vaddr)}

takes == IF fetch_entry_valid /\ unresolved < MAX_CF THEN BOOLEAN ELSE {FALSE}

\* What the predictors may say of the slots.
predictions(s) ==
    [taken : SUBSET {i \in 1..2 : s[i].kind \in {"branch", "jalr"}},
     ras : IF \E i \in 1..2 : s[i].kind = "return" THEN BOOLEAN ELSE {FALSE},
     target : IF \E i \in 1..2 : s[i].kind \in {"jalr", "return"} THEN Restart ELSE {0}]

input(take, redirect, fencei, resolve, p, reply, d) ==
    [take |-> take, redirect |-> redirect, fencei |-> fencei, resolve |-> resolve,
     taken |-> p.taken, ras |-> p.ras, target |-> p.target, reply |-> reply, data |-> d]

Run(s, x) == \E k \in {signals(s, x)} : Cycle(s, x, k)

\* The pipeline goes on ...
Advance ==
    \E s \in {slots} : \E p \in predictions(s), take \in takes, reply \in replies, d \in data :
        \E resolve \in (IF unresolved > 0 THEN BOOLEAN ELSE {FALSE}) :
            \E x \in {input(take, None, FALSE, resolve, p, reply, d)} : Run(s, x) /\ queue_step(s, x)

\* ... or is flushed: by a mispredicted branch, a trap, or an instruction with
\* side effects such as FENCE.I, which flushes the cache, too.
Flush ==
    /\ credit > 0
    /\ \E s \in {slots} : \E p \in predictions(s), take \in takes, reply \in replies, d \in data :
        \E redirect \in Restart, fencei \in BOOLEAN :
            Run(s, input(take, redirect, fencei, FALSE, p, reply, d)) /\ queue_flush

Next == Advance \/ Flush

Spec == Init /\ [][Next]_vars

\* A cycle in which memory, translation and the back end answer.
answer == IF ic.st = "READ" THEN (IF "miss" \in replies THEN "miss" ELSE "hit")
          ELSE IF ic.st = "IDLE" THEN "wait" ELSE "done"

Progress ==
    \E s \in {slots} :
        \E x \in {input(fetch_entry_valid /\ unresolved < MAX_CF, None, FALSE, unresolved > 0,
                       CHOOSE p \in predictions(s) : TRUE, answer, CHOOSE d \in data : TRUE)} :
            Run(s, x) /\ queue_step(s, x)

FairSpec == Spec /\ WF_vars(Progress)

-----------------------------------------------------------------------------
(* Properties.                                                             *)

Entry == [lo : 0..SIZE, hi : 0..SIZE, cf : BOOLEAN, wild : BOOLEAN, ex : BOOLEAN]

\* The type of the registers: no FIFO of instr_queue.sv holds more than its
\* depth, and the two instruction FIFOs are filled and emptied in turn.
TypeOK ==
    /\ npc \in Address /\ pc \in Address /\ expected \in Address
    /\ ic \in [st : {"FLUSH", "IDLE", "READ", "MISS", "KILL_ATRANS", "KILL_MISS"}, vaddr : Address]
    /\ \A i \in 0..1 : Len(q[i]) <= DEPTH /\ \A k \in 1..Len(q[i]) : q[i][k] \in Entry
    /\ Len(aq) <= DEPTH /\ \A k \in 1..Len(aq) : aq[k] \in Address
    /\ Len(q[idx_ds]) - Len(q[1 - idx_ds]) = IF idx_is = idx_ds THEN 0 ELSE 1
    /\ unresolved \in 0..MAX_CF /\ credit \in 0..2

\* The halfwords of the instruction at an address.
halves(a) == IF comp(a) THEN {a} ELSE {a, plus(a, 1)}

faulty(a) == \E h \in halves(a) : word(h) \in Fault

\* The back end is offered exactly the program along the path it was told:
\* from the target of a flush, instruction after instruction with both halves,
\* and on from a predicted change of control flow at the address given with
\* it, whatever was replayed because a FIFO was full, killed, or cut in two by
\* a word boundary.
InOrder ==
    fetch_entry_valid /\ ~lost =>
        /\ q[idx_ds] # <<>> /\ pc = expected
        /\ fetch_entry.ex \/ halfLost(fetch_entry, expected)
             \/ /\ fetch_entry.lo = expected
                /\ fetch_entry.hi = IF comp(expected) THEN None ELSE plus(expected, 1)
        /\ fetch_entry.cf =>
             /\ aq # <<>>
             /\ ~fetch_entry.ex /\ kind(fetch_entry.lo) \in {"jump", "branch"}
                  => address_out = Mem[fetch_entry.lo].target

\* An instruction any half of which could not be fetched reaches the back end
\* with the exception ("exceptions hold for the whole fetch packet",
\* instr_queue.sv), and no other does.  The one exception: when fetch starts at
\* the second halfword of a word that faults and what the cache returns looks
\* like the first half of an instruction, instr_realign.sv passes nothing on,
\* and the exception is dropped with it unless the next word faults, too.
FaultKept ==
    fetch_entry_valid /\ ~lost =>
        \/ fetch_entry.ex = faulty(expected)
        \/ halfLost(fetch_entry, expected)

\* Fetch waits for a control flow instruction to be resolved, and there is none.
stuck ==
    /\ ic.st = "READ" /\ word(ic.vaddr) \in NonIdempotent /\ spec
    /\ unresolved = 0 /\ ~fetch_entry_valid /\ ~fq.valid

\* The back end is offered instructions again and again, unless fetch is stuck:
\* frontend.sv marks fetch as speculative for every branch it sees, also for
\* one that does not fit into the queue and is replayed; if the replay is from
\* a region that is not idempotent it waits for that same branch.
Delivers == []<>(fetch_entry_valid \/ stuck)
=============================================================================
