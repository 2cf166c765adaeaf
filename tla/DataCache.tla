----------------------------- MODULE DataCache ------------------------------
(***************************************************************************)
(* The write-through data cache: the write buffer (wt_dcache_wbuffer.sv),  *)
(* the tag and data memories (wt_dcache_mem.sv), the miss unit             *)
(* (wt_dcache_missunit.sv) and the read port controllers (wt_dcache_ctrl,  *)
(* module LoadUnit), in front of a memory reached through wt_axi_adapter.  *)
(*                                                                         *)
(* A step is a clock cycle of the cache, or the memory performing one      *)
(* request it was sent: it does so at any time, and in any order.          *)
(*                                                                         *)
(* A word is a pair of a line and an offset; all lines have the same index,*)
(* so that they compete for the ways of one set.  `ref' is the reference:  *)
(* the value of every byte after the stores accepted so far.  One bit      *)
(* stands for a byte: nothing depends on a value but whether it is old.    *)
(***************************************************************************)
EXTENDS LoadUnit, Integers, Sequences, FiniteSets, FiniteSetsExt

CONSTANTS
    Port,        \* read ports: 0 the page table walker, 1 the load unit
    DEPTH,       \* DCACHE_WBUF_DEPTH
    MAX_TX,      \* DCACHE_MAX_TX
    Way, Line, Off, Byte,
    NcLine,      \* lines outside the cacheable regions
    NiLine,      \* lines in the non-idempotent regions
    Workload     \* what the processor does: the words it loads on each port, the
                 \* words and bytes it stores, the words of its atomics, and the
                 \* values that dcache_en and the read ports' kill_req take

ASSUME CacheAssumption ==
    /\ Port \subseteq {0, 1} /\ Byte \subseteq 0 .. 7
    /\ DEPTH \in Nat \ {0} /\ MAX_TX \in Nat \ {0}
    /\ NiLine \subseteq NcLine /\ NcLine \subseteq Line
    /\ Way # {} /\ Line # {} /\ Off # {}

Word  == Line \X Off
Data  == SUBSET Byte             \* a byte is a bit: the bytes of a word that are set
Entry == 0 .. DEPTH - 1
Tx    == 0 .. MAX_TX - 1
W     == 2                        \* the write buffer's port number

\* toSize64, toByteEnable8: an aligned byte, half word, word or double word is
\* sent at once, anything else byte by byte.
aligned(B) == \E s \in {1, 2, 4, 8}, k \in 0 .. 7 : B = k * s .. k * s + s - 1

\* The stores of the processor are aligned: others have trapped.
ASSUME WorkloadAssumption ==
    \A w \in Workload :
        /\ w.loads \in [Port -> SUBSET Word] /\ w.amos \subseteq Word
        /\ w.stores \subseteq Word \X SUBSET Byte /\ \A s \in w.stores : aligned(s[2])
        /\ w.en \subseteq BOOLEAN /\ w.kill \subseteq BOOLEAN

lineOf(w) == w[1]
bankOf(w) == w[2]

VARIABLES
    work,        \* the workload
    wbuffer,     \* wbuffer_q
    ni_pending,  \* ni_pending_q: the entries with a non-idempotent word
    tx,          \* tx_stat_q
    rtrn,        \* i_rtrn_id_fifo: transactions that memory has acknowledged
    lookup,      \* the read that was acknowledged last: whose, and what it found
    check,       \* check_en_q1, check_ptr_q1, rd_hit_oh_q
    wr_cl_q,     \* wr_cl_vld_q
    ways,        \* tag and data memories
    mu,          \* miss unit
    port,        \* read ports: controller, word and the values it may return
    writes,      \* writes on the way to memory
    read,        \* the read on the way to memory
    amo,         \* the atomic
    mem,         \* memory
    ref,         \* the value every byte should have
    stale,       \* a read has returned a value that was overwritten before
    owed         \* non-idempotent stores accepted and not yet performed

vars == <<work, wbuffer, ni_pending, tx, rtrn, lookup, check, wr_cl_q, ways, mu, port,
          writes, read, amo, mem, ref, stale, owed>>

NoData == {}

\* Word d with the bytes be taken from word e.
Merge(d, be, e) == (d \ be) \union (e \intersect be)

NoWord == CHOOSE w \in Word : TRUE
NoEntry == [valid |-> {}, dirty |-> {}, txblock |-> {}, data |-> NoData, wtag |-> NoWord,
            checked |-> FALSE, hit |-> {}]

NoLookup == [vld |-> FALSE, who |-> W, ptr |-> 0, hit |-> {}, data |-> NoData]

Init ==
    /\ work \in Workload
    /\ wbuffer = [e \in Entry |-> NoEntry]
    /\ ni_pending = {}
    /\ tx = [t \in Tx |-> [vld |-> FALSE, ptr |-> 0, be |-> {}]]
    /\ rtrn = <<>>
    /\ lookup = NoLookup
    /\ check = [en |-> FALSE, ptr |-> 0, hit |-> {}]
    /\ wr_cl_q = FALSE
    /\ ways \in [Way -> [vld : BOOLEAN, line : {lineOf(NoWord)}, data : {[o \in Off |-> NoData]}]]
    /\ mu = [state |-> "FLUSH", vld |-> FALSE, vld1 |-> FALSE, word |-> NoWord, nc |-> FALSE,
             way |-> CHOOSE w \in Way : TRUE, port |-> W, lock |-> W, ptr |-> 0, coll |-> {},
             en |-> FALSE]
    /\ port = [p \in Port |-> [st |-> "IDLE", word |-> NoWord, legal |-> {}]]
    /\ writes = <<>>
    /\ read = [st |-> "none", data |-> [o \in Off |-> NoData]]
    /\ amo = [st |-> "none", word |-> NoWord]
    /\ mem = [w \in Word |-> NoData] /\ ref = mem
    /\ stale = FALSE /\ owed = 0

-----------------------------------------------------------------------------
(* The write buffer's flags (gen_flags).                                   *)

\* Mutant: a word is sent again while its old bytes are on the way.
bdirty_InFlight(e) == wbuffer[e].dirty

\* The bytes that are ready for transmission.
bdirty(e) == IF wbuffer[e].txblock # {} THEN {} ELSE wbuffer[e].dirty \intersect wbuffer[e].valid

validEntries == {e \in Entry : wbuffer[e].valid # {}}
dirty   == {e \in Entry : bdirty(e) # {}}
tocheck == {e \in validEntries : ~wbuffer[e].checked}
empty   == validEntries = {}

holding(w) == {e \in validEntries : wbuffer[e].wtag = w}

\* Mutant: the byte offset is counted from the wrong end.
tx_be_LeadingZeros(e) == {7 - Min(bdirty(e))}

tx_be(e) == IF aligned(bdirty(e)) THEN bdirty(e) ELSE {Min(bdirty(e))}

freeTx == {t \in Tx : ~tx[t].vld}

\* Bytes of w that are in the write buffer replace those of the cache.
overlay(w, d) ==
    IF holding(w) = {} THEN d
    ELSE LET e == wbuffer[Min(holding(w))] IN Merge(d, e.valid, e.data)

nc(w) == ~mu.en \/ lineOf(w) \in NcLine

-----------------------------------------------------------------------------
(* The signals of a cycle.  `x' are its inputs and the choices of arbiters *)
(* and of the replacement, as far as they are not determined:              *)
(*   req, kill  requests and kills on the read ports                       *)
(*   st         a store on the write port, or none                         *)
(*   resp       the response of the memory: "none", "load", "store",       *)
(*              "inv" (all lines, when an atomic leaves), "amo"            *)
(*   ack        the adapter accepts a request (mem_data_ack_i)             *)
(*   sel        the port whose read is served;  ptr: the entry looked up   *)
(*   dptr       the dirty entry that is sent;  way: the one replaced       *)
(*   en         the cache is switched on (enable_i)                        *)

load_ack(x)  == x.resp = "load" /\ mu.vld
store_ack(x) == x.resp = "store"
flush_en     == mu.state = "FLUSH"

wr_cl_we(x) ==
    CASE flush_en \/ x.resp = "inv" -> Way
      [] load_ack(x) /\ ~mu.nc -> {mu.way}
      [] OTHER -> {}

wr_cl_vld(x) == load_ack(x) \/ wr_cl_we(x) # {}

\* Read requests to the memories, and whose turn it is: those of the read
\* ports first (rd_prio).
rd_req(x, p) ==
    IF p = W THEN tocheck # {}
    ELSE (port[p].st = "IDLE" /\ x.req[p] # {}) \/ port[p].st \in {"READ", "REPLAY_READ", "REPLAY_REQ"}

rd_ack(x, p) == x.sel = p /\ ~x.cl

\* The miss unit's arbiter: a request that is being waited for, or the lowest
\* port; reads are masked while the MSHR is in use.
miss_req == {p \in Port : port[p].st \in {"MISS_REQ", "KILL_MISS_ACK"}}
            \union (IF dirty # {} /\ freeTx # {} THEN {W} ELSE {})

mask_reads == mu.vld \/ mu.state = "DRAIN"

lock_reqs == mu.state \in {"STORE_WAIT", "LOAD_WAIT"}

miss_req_masked ==
    IF lock_reqs THEN {mu.lock} ELSE IF mask_reads THEN miss_req \intersect {W} ELSE miss_req

miss_port_idx == Min(miss_req_masked)

\* Mutant: a read that waited while its line was loaded is not looked up again.
mshr_rdrd_collision_d_Never(p) == FALSE

\* A read waits for the miss unit while its line is being loaded for another
\* port, and remembers that it did.
mshr_rdrd_collision_d(p) ==
    /\ p \in miss_req
    /\ p \in mu.coll \/ (lineOf(port[p].word) = lineOf(mu.word) /\ (mu.vld \/ mu.vld1))

\* Mutant: writes are sent while their line is being read.
mshr_rdwr_collision_Never(x) == FALSE

mshr_rdwr_collision(x) == mu.vld /\ lineOf(wbuffer[x.dptr].wtag) = lineOf(mu.word)

\* Mutant: a line is read while a write to it is on the way.
tx_rdwr_collision_Never(p) == FALSE

tx_rdwr_collision(p) ==
    \E t \in Tx : tx[t].vld /\ lineOf(wbuffer[tx[t].ptr].wtag) = lineOf(port[p].word)

\* Mutant: only the store buffer is waited for.
drained_StoresOnly == ~mu.vld

\* The cache may be flushed or an atomic sent.
drained == empty /\ ~mu.vld

enabling(x) == x.en /\ ~mu.en

\* What the miss unit offers to the memory (mem_data_req_o): "none", "store",
\* "load" or "amo".
mem_data_req(x) ==
    CASE mu.state = "IDLE" ->
           IF enabling(x) \/ amo.st # "none" \/ miss_req_masked = {} THEN "none"
           ELSE IF miss_port_idx = W THEN (IF mshr_rdwr_collision(x) THEN "none" ELSE "store")
           ELSE IF mshr_rdrd_collision_d(miss_port_idx) \/ tx_rdwr_collision(miss_port_idx)
                THEN "none" ELSE "load"
      [] mu.state = "DRAIN" ->
           IF miss_req_masked = {} \/ mshr_rdwr_collision(x) THEN "none" ELSE "store"
      [] mu.state = "STORE_WAIT" -> "store"
      [] mu.state = "LOAD_WAIT"  -> "load"
      [] mu.state = "AMO"        -> "amo"
      [] OTHER                   -> "none"

\* A read that is sent back to the cache.
miss_replay(x, p) ==
    /\ mu.state = "IDLE" /\ ~enabling(x) /\ amo.st = "none"
    /\ miss_req_masked # {} /\ p = miss_port_idx /\ mshr_rdrd_collision_d(p)

miss_ack(x, p) == x.ack /\ x.r \in {"store", "load"} /\ p = miss_port_idx

\* The event of a read port's controller (module LoadUnit).
event(x, p) ==
    LET c == port[p].st
    IN  CASE c \in {"IDLE", "REPLAY_REQ"} -> IF rd_ack(x, p) THEN "ack" ELSE "none"
          [] c \in {"READ", "REPLAY_READ"} ->
               IF x.cl THEN "again"
               ELSE IF lookup.hit = {} \/ ~mu.en THEN "none"
               ELSE IF rd_ack(x, p) THEN "hit_ack" ELSE "hit"
          [] c \in {"MISS_REQ", "KILL_MISS_ACK"} ->
               IF miss_replay(x, p) THEN "miss_replay"
               ELSE IF miss_ack(x, p) THEN "miss_ack" ELSE "none"
          [] OTHER -> IF load_ack(x) /\ mu.port = p THEN "miss_rtrn" ELSE "none"

gnt(x, p) == ctrl_gnt(port[p].st, x.req[p] # {}, x.kill[p], TRUE, event(x, p))

requested(x, p) == CHOOSE w \in x.req[p] : TRUE

\* The word whose index is presented to the memories.
rd_word(x, p) ==
    IF p = W THEN wbuffer[x.ptr].wtag
    ELSE IF gnt(x, p) THEN requested(x, p) ELSE port[p].word

-----------------------------------------------------------------------------
(* Write responses (p_tx_stat): the transaction at the head of the FIFO    *)
(* leaves once it is known whether its word is in the cache, and the word  *)
(* has been updated there.                                                 *)

rid  == Head(rtrn)
rptr == tx[rid].ptr

wr_data_be == tx[rid].be \ wbuffer[rptr].dirty

returned == rtrn # <<>> /\ wbuffer[rptr].checked

wr_req == returned /\ wr_data_be # {} /\ wbuffer[rptr].hit # {}

\* Mutant: the data memory is read and written in the same cycle.
bank_collision_Never(w, v) == FALSE

bank_collision(w, v) == bankOf(w) = bankOf(v)

wr_ack(x) ==
    /\ wr_req
    /\ x.we = {}
    /\ ~(x.sel \in Port /\ rd_ack(x, x.sel)
           /\ bank_collision(rd_word(x, x.sel), wbuffer[rptr].wtag))

evict(x) == returned /\ (wr_req => wr_ack(x))

-----------------------------------------------------------------------------
(* p_buffer: the write buffer's next state, in the order of the code.      *)

checked(wb) ==
    IF check.en /\ wbuffer[check.ptr].valid # {}
    THEN [wb EXCEPT ![check.ptr].checked = TRUE, ![check.ptr].hit = check.hit] ELSE wb

\* Mutant: a look-up that is overtaken by a change of the line is trusted.
inval_hit_ThisCycle(x, e) == x.cl /\ wbuffer[e].valid # {}

\* The line of entry e may have come or gone, now or in the last cycle.
inval_hit(x, e) == (x.cl \/ wr_cl_q) /\ wbuffer[e].valid # {}

invalidated(x, wb) ==
    [e \in Entry |-> IF inval_hit(x, e) THEN [wb[e] EXCEPT !.checked = FALSE] ELSE wb[e]]

\* Mutant: bytes that were written again while they were on the way are dropped.
acknowledged_WrittenAgain == tx[rid].be

\* The bytes that memory has: those written again stay for retransmission.
acknowledged == tx[rid].be \ wbuffer[rptr].dirty

evicted(x, wb) ==
    IF ~evict(x) THEN wb
    ELSE LET e  == wb[rptr]
             v1 == e.valid \ acknowledged
         IN  [wb EXCEPT ![rptr] = [e EXCEPT !.txblock = @ \ tx[rid].be, !.valid = v1,
                                            !.checked = @ /\ v1 # {}]]

sent(x, wb) ==
    IF ~(x.r = "store" /\ x.ack) THEN wb
    ELSE [wb EXCEPT ![x.dptr].dirty = @ \ tx_be(x.dptr), ![x.dptr].txblock = @ \union tx_be(x.dptr)]

is_ni(s) == lineOf(s.word) \in NiLine

\* Mutant: non-idempotent stores are merged like others.
ni_conflict_Never(s) == FALSE

ni_conflict(s) == is_ni(s) /\ ni_pending # {}

data_gnt(s) == (holding(s.word) # {} \/ validEntries # Entry) /\ ~ni_conflict(s)

accepted(x) == {s \in x.st : data_gnt(s)}

wr_ptr(s) == IF holding(s.word) # {} THEN Min(holding(s.word)) ELSE Min(Entry \ validEntries)

written(x, wb) ==
    IF accepted(x) = {} THEN wb
    ELSE LET s == CHOOSE s \in x.st : TRUE
             e == wb[wr_ptr(s)]
         IN  [wb EXCEPT ![wr_ptr(s)] =
                [e EXCEPT !.checked = FALSE, !.wtag = s.word,
                          !.valid = @ \union s.be, !.dirty = @ \union s.be,
                          !.data = Merge(@, s.be, s.data)]]

ni_pending_next(x, wb) ==
    ({e \in ni_pending : wb[e].valid # {}} \ {wr_ptr(s) : s \in accepted(x)})
    \union {wr_ptr(s) : s \in {s \in accepted(x) : is_ni(s)}}

tx_next(x, ev) ==
    LET cleared == IF ev THEN [tx EXCEPT ![rid].vld = FALSE] ELSE tx
    IN  IF x.r = "store" /\ x.ack
        THEN [cleared EXCEPT ![Min(freeTx)] = [vld |-> TRUE, ptr |-> x.dptr, be |-> tx_be(x.dptr)]]
        ELSE cleared

-----------------------------------------------------------------------------
(* The memories.                                                           *)

\* A read finds the ways with the line, and the word in one of them.
found(w) ==
    LET h == {y \in Way : ways[y].vld /\ ways[y].line = lineOf(w)}
    IN  [hit |-> h, data |-> IF h = {} THEN NoData ELSE ways[CHOOSE y \in h : TRUE].data[bankOf(w)]]

lookup_next(x) ==
    IF x.sel \notin Port \union {W} \/ x.cl THEN NoLookup
    ELSE LET f == found(rd_word(x, x.sel))
         IN  [vld |-> TRUE, who |-> x.sel, ptr |-> IF x.sel = W THEN x.ptr ELSE 0,
              hit |-> f.hit, data |-> IF x.sel = W THEN NoData ELSE f.data]

\* Flush and invalidation clear the valid bits, a fill writes a line, and a
\* write response the clean bytes of its word.
ways_next(x, wa) ==
    [y \in Way |->
        IF y \in x.we
        THEN IF load_ack(x) THEN [vld |-> TRUE, line |-> lineOf(mu.word), data |-> read.data]
                            ELSE [ways[y] EXCEPT !.vld = FALSE]
        ELSE IF wa /\ y \in wbuffer[rptr].hit
        THEN [ways[y] EXCEPT !.data[bankOf(wbuffer[rptr].wtag)] =
                Merge(@, wr_data_be, wbuffer[rptr].data)]
        ELSE ways[y]]

-----------------------------------------------------------------------------
(* The miss unit's registers (p_fsm and the MSHR).                         *)

mu_state(x) ==
    CASE mu.state = "IDLE" ->
           IF enabling(x) THEN (IF drained THEN "FLUSH" ELSE "DRAIN")
           ELSE IF amo.st # "none" THEN (IF drained THEN "AMO" ELSE "DRAIN")
           ELSE IF x.r = "store" /\ ~x.ack THEN "STORE_WAIT"
           ELSE IF x.r = "load" /\ ~x.ack THEN "LOAD_WAIT" ELSE "IDLE"
      [] mu.state \in {"STORE_WAIT", "LOAD_WAIT"} -> IF x.ack THEN "IDLE" ELSE mu.state
      [] mu.state = "DRAIN"    -> IF empty /\ ~mu.vld THEN "IDLE" ELSE "DRAIN"
      [] mu.state = "FLUSH"    -> "IDLE"
      [] mu.state = "AMO"      -> IF x.ack THEN "AMO_WAIT" ELSE "AMO"
      [] mu.state = "AMO_WAIT" -> IF x.resp = "amo" THEN "IDLE" ELSE "AMO_WAIT"

mu_next(x) ==
    LET allocate == x.r = "load" /\ x.ack
        waits    == mu_state(x) \in {"STORE_WAIT", "LOAD_WAIT"}
        m        == IF allocate
                    THEN [mu EXCEPT !.word = port[miss_port_idx].word, !.way = x.way,
                                    !.nc = nc(port[miss_port_idx].word), !.port = miss_port_idx]
                    ELSE mu
    IN  [m EXCEPT !.state = mu_state(x),
                  !.vld   = allocate \/ (@ /\ ~load_ack(x)),
                  !.vld1  = mu.vld,
                  !.coll  = {p \in Port : mshr_rdrd_collision_d(p)},
                  !.lock  = IF waits THEN miss_port_idx ELSE W,
                  !.ptr   = IF waits /\ x.r = "store" THEN x.dptr ELSE 0,
                  !.en    = x.en /\ (@ \/ flush_en)]

-----------------------------------------------------------------------------
(* The read ports.  `legal' are the values that the word had since the     *)
(* request was granted.                                                    *)

rdata(p) ==
    overlay(port[p].word, IF port[p].st = "MISS_WAIT" THEN read.data[bankOf(port[p].word)] ELSE lookup.data)

answers(x, p) == ctrl_rvalid(port[p].st, x.kill[p], TRUE, event(x, p)) /\ ~x.kill[p]

\* Every byte of the answer d is one that the word had.
IsLegal(d, legal) == \A b \in Byte : \E l \in legal : b \in d <=> b \in l

port_next(x, p, ref1) ==
    LET st1 == ctrl_next(port[p].st, x.req[p] # {}, x.kill[p], TRUE, event(x, p))
        w   == IF gnt(x, p) THEN requested(x, p) ELSE port[p].word
    IN  [st |-> st1,
         word  |-> IF st1 = "IDLE" THEN NoWord ELSE w,
         legal |-> IF st1 \in {"IDLE", "KILL_MISS", "KILL_MISS_ACK"} THEN {}
                   ELSE {ref[w], ref1[w]} \union (IF gnt(x, p) THEN {} ELSE port[p].legal)]

ref_next(x) ==
    IF accepted(x) = {} THEN ref
    ELSE LET s == CHOOSE s \in x.st : TRUE
         IN  [ref EXCEPT ![s.word] = Merge(@, s.be, s.data)]

-----------------------------------------------------------------------------
(* A clock cycle.                                                          *)
Cycle(x) ==
    \E ev \in {evict(x)}, ref1 \in {ref_next(x)},
       wb \in {evicted(x, invalidated(x, checked(wbuffer)))} :
        /\ wbuffer' = written(x, sent(x, wb))
        /\ ni_pending' = ni_pending_next(x, wb)
        /\ tx' = tx_next(x, ev)
        /\ rtrn' = (IF ev THEN Tail(rtrn) ELSE rtrn)
                     \o (IF store_ack(x) THEN <<Head(writes).id>> ELSE <<>>)
        /\ lookup' = lookup_next(x)
        /\ check' = IF lookup.vld /\ lookup.who = W
                    THEN [en |-> TRUE, ptr |-> lookup.ptr, hit |-> lookup.hit]
                    ELSE [en |-> FALSE, ptr |-> 0, hit |-> {}]
        /\ wr_cl_q' = x.cl
        /\ ways' = ways_next(x, wr_ack(x))
        /\ mu' = mu_next(x)
        /\ port' = [p \in Port |-> port_next(x, p, ref1)]
        /\ writes' = (IF store_ack(x) THEN Tail(writes) ELSE writes)
                       \o (IF x.r = "store" /\ x.ack
                           THEN <<[id |-> Min(freeTx), word |-> wbuffer[x.dptr].wtag, done |-> FALSE,
                                   be |-> tx_be(x.dptr), data |-> wbuffer[x.dptr].data]>>
                           ELSE <<>>)
        /\ read' = IF load_ack(x) THEN [read EXCEPT !.st = "none"]
                   ELSE IF x.r = "load" /\ x.ack THEN [read EXCEPT !.st = "sent"] ELSE read
        /\ amo' = CASE x.amo # {}         -> [st |-> "req", word |-> CHOOSE w \in x.amo : TRUE]
                    [] x.r = "amo" /\ x.ack -> [amo EXCEPT !.st = "sent"]
                    [] x.resp = "inv"     -> [amo EXCEPT !.st = "issued"]
                    [] x.resp = "amo"     -> [st |-> "none", word |-> NoWord]
                    [] OTHER              -> amo
        /\ ref' = ref1
        /\ stale' = (stale \/ \E p \in Port : answers(x, p) /\ ~IsLegal(rdata(p), port[p].legal))
        /\ owed' = owed + Cardinality({s \in accepted(x) : is_ni(s)})
        /\ UNCHANGED <<work, mem>>

-----------------------------------------------------------------------------
(* The memory performs a write, a read or an atomic that it was sent.      *)
PerformWrite(k) ==
    /\ ~writes[k].done
    /\ mem' = [mem EXCEPT ![writes[k].word] = Merge(@, writes[k].be, writes[k].data)]
    /\ writes' = [writes EXCEPT ![k].done = TRUE]
    /\ owed' = IF is_ni(writes[k]) THEN owed - 1 ELSE owed
    /\ UNCHANGED <<work, wbuffer, ni_pending, tx, rtrn, lookup, check, wr_cl_q, ways, mu, port, read, amo,
                   ref, stale>>

PerformRead ==
    /\ read.st = "sent"
    /\ read' = [st |-> "done", data |-> [o \in Off |-> mem[<<lineOf(mu.word), o>>]]]
    /\ UNCHANGED <<work, wbuffer, ni_pending, tx, rtrn, lookup, check, wr_cl_q, ways, mu, port, writes, amo,
                   mem, ref, stale, owed>>

\* An atomic changes the word it works on, every byte of it.
PerformAmo ==
    /\ amo.st = "issued"
    /\ amo' = [amo EXCEPT !.st = "done"]
    /\ mem' = [mem EXCEPT ![amo.word] = Byte \ @]
    /\ ref' = [ref EXCEPT ![amo.word] = mem'[amo.word]]
    /\ port' = [p \in Port |->
         IF port[p].legal = {} \/ port[p].word # amo.word THEN port[p]
         ELSE [port[p] EXCEPT !.legal = @ \union {mem'[amo.word]}]]
    /\ UNCHANGED <<work, wbuffer, ni_pending, tx, rtrn, lookup, check, wr_cl_q, ways, mu, writes, read,
                   stale, owed>>

-----------------------------------------------------------------------------
(* Inputs.  A store that changes nothing shows nothing: the stores change  *)
(* every byte they write.  While an atomic is requested the store buffer   *)
(* is empty, so that there is no store on the write port.                  *)

responses ==
    {"none"} \union (IF read.st = "done" THEN {"load"} ELSE {})
    \union (IF writes # <<>> /\ Head(writes).done THEN {"store"} ELSE {})
    \union (CASE amo.st = "sent" -> {"inv"} [] amo.st = "done" -> {"amo"} [] OTHER -> {})

storeOf(s) ==
    [word |-> s[1], be |-> s[2], data |-> Byte \ ref[s[1]]]

storesOffered == IF amo.st # "none" THEN {{}} ELSE {{}} \union {{storeOf(s)} : s \in work.stores}

amosOffered(st) == IF amo.st # "none" \/ st # {} THEN {{}} ELSE {{}} \union {{w} : w \in work.amos}

wants(p) ==
    IF port[p].st \in {"IDLE", "READ", "REPLAY_READ"} THEN {{}} \union {{w} : w \in work.loads[p]} ELSE {{}}

kills(p) ==
    IF port[p].st \in {"READ", "REPLAY_READ", "MISS_REQ", "MISS_WAIT", "REPLAY_REQ"} THEN work.kill ELSE {FALSE}

dptrs == IF mu.state = "STORE_WAIT" THEN {mu.ptr} ELSE IF dirty = {} THEN {0} ELSE dirty

arbiter(i) ==
    LET ps == {p \in Port : rd_req(i, p)}
    IN  IF ps # {} THEN ps ELSE IF tocheck # {} THEN {W} ELSE {W + 1}

\* What is left open by the inputs i.
choices(i) ==
    [ack : IF mem_data_req(i) = "none" THEN {FALSE} ELSE BOOLEAN, sel : arbiter(i),
     ptr : IF arbiter(i) = {W} THEN tocheck ELSE {0},
     way : IF mem_data_req(i) = "load" THEN Way ELSE {mu.way}]

signals(i, c) ==
    [req |-> i.req, kill |-> i.kill, resp |-> i.resp, dptr |-> i.dptr, en |-> i.en, st |-> i.st,
     amo |-> i.amo, r |-> mem_data_req(i), we |-> wr_cl_we(i), cl |-> wr_cl_vld(i),
     ack |-> c.ack, sel |-> c.sel, ptr |-> c.ptr, way |-> c.way]

requests == {f \in [Port -> UNION {wants(p) : p \in Port}] : \A p \in Port : f[p] \in wants(p)}
killed   == {f \in [Port -> BOOLEAN] : \A p \in Port : f[p] \in kills(p)}

Env ==
    {i \in [req : requests, kill : killed, resp : responses, dptr : dptrs, en : work.en,
            st : storesOffered, amo : UNION {amosOffered(st) : st \in storesOffered}] :
        i.amo \in amosOffered(i.st)}

Next ==
    \/ \E i \in Env : \E c \in choices(i) : \E x \in {signals(i, c)} : Cycle(x)
    \/ \E k \in DOMAIN writes : PerformWrite(k)
    \/ PerformRead
    \/ PerformAmo

Spec == Init /\ [][Next]_vars

-----------------------------------------------------------------------------
(* Properties.                                                             *)

\* Registers hold values of their type.
TypeOK ==
    /\ wbuffer \in [Entry -> [valid : SUBSET Byte, dirty : SUBSET Byte, txblock : SUBSET Byte,
                              data : Data, wtag : Word, checked : BOOLEAN, hit : SUBSET Way]]
    /\ ni_pending \subseteq Entry
    /\ tx \in [Tx -> [vld : BOOLEAN, ptr : Entry, be : SUBSET Byte]]
    /\ Len(rtrn) <= MAX_TX /\ Len(writes) <= MAX_TX
    /\ ways \in [Way -> [vld : BOOLEAN, line : Line, data : [Off -> Data]]]
    /\ port \in [Port -> [st : CtrlState, word : Word, legal : SUBSET Data]]
    /\ read.data \in [Off -> Data]
    /\ mem \in [Word -> Data] /\ ref \in [Word -> Data]

\* A read returns, for every byte, a value that the byte had between the grant
\* of the read and its answer: the youngest store before it, at least.
LoadSeesLatest == ~stale

\* A cached byte that is out of date is covered by the write buffer, and a line
\* is in one way only (the assertions tag_write_duplicate and hit_hot1), so a
\* store updates every copy.
CacheCoherent ==
    /\ \A y \in Way, o \in Off, b \in Byte :
         ways[y].vld /\ ~(b \in ways[y].data[o] <=> b \in ref[<<ways[y].line, o>>])
             => \E e \in holding(<<ways[y].line, o>>) : b \in wbuffer[e].valid
    /\ \A y, z \in Way : y # z /\ ways[y].vld /\ ways[z].vld /\ mu.state # "FLUSH" => ways[y].line # ways[z].line

\* No store is lost: a byte that has left the write buffer is in memory.
StoreReachesMemory ==
    \A w \in Word, b \in Byte :
        ~(b \in mem[w] <=> b \in ref[w]) => \E e \in holding(w) : b \in wbuffer[e].valid

\* An atomic is performed on the value of the last store, and nothing of its
\* line is left in the cache.
AmoAfterStores ==
    amo.st = "issued" => mem = ref /\ empty /\ writes = <<>> /\ \A y \in Way : ~ways[y].vld

\* The assertions byteStates, tx_valid0, tx_valid1 and wbuffer_hit_hot1 of
\* wt_dcache_wbuffer.sv, and what they rest on: a byte is blocked exactly while
\* a transaction carries it, and a word is in one entry.
TxConsistent ==
    /\ \A e \in Entry :
         /\ wbuffer[e].dirty \union wbuffer[e].txblock = wbuffer[e].valid
         /\ wbuffer[e].txblock = UNION {tx[t].be : t \in {t \in Tx : tx[t].vld /\ tx[t].ptr = e}}
    /\ \A k \in DOMAIN rtrn : tx[rtrn[k]].vld
    /\ \A t, u \in Tx : t # u /\ tx[t].vld /\ tx[u].vld /\ tx[t].ptr = tx[u].ptr
                         => tx[t].be \intersect tx[u].be = {}
    /\ \A e, f \in validEntries : e # f => wbuffer[e].wtag # wbuffer[f].wtag

\* Every store to a non-idempotent location is performed once, and is over when
\* not_ni_o is raised again.
NiStoresOnce ==
    /\ owed \in {0, 1}
    /\ ni_pending = {} => owed = 0
=============================================================================
