----------------------- MODULE DataCacheReads_proofs ------------------------
(***************************************************************************)
(* Proofs about the read path of the data cache: the lines in its ways and *)
(* the data that its read ports return.                                    *)
(***************************************************************************)
EXTENDS DataCache_proofs

\* The ways that hold line l.
holds(l) == {y \in Way : ways[y].vld /\ ways[y].line = l}

\* Byte b of word w is in the write buffer.
covered(w, b) == \E e \in holding(w) : b \in wbuffer[e].valid

\* A write to line l is on its way, or acknowledged and waiting to leave.
onWay(l) == \E t \in Tx : tx[t].vld /\ lineOf(wbuffer[tx[t].ptr].wtag) = l

Missing == {"MISS_REQ", "KILL_MISS_ACK"}
Looking == {"READ", "REPLAY_READ"}

\* While a line is read from memory no write to it is on its way, and none is
\* about to be sent.
ReadAlone ==
    /\ mu.state \in {"FLUSH", "LOAD_WAIT"} => ~mu.vld
    /\ mu.state = "STORE_WAIT" =>
         mu.lock = W /\ (mu.vld => lineOf(wbuffer[mu.ptr].wtag) # lineOf(mu.word))
    /\ mu.state = "LOAD_WAIT" =>
         /\ ~mu.vld1 /\ mu.lock \notin mu.coll /\ port[mu.lock].st \in Missing
         /\ ~onWay(lineOf(port[mu.lock].word))
    /\ mu.vld => ~onWay(lineOf(mu.word))

\* What memory has returned is current, but for the bytes in the write buffer.
ReadCurrent ==
    mu.vld /\ read.st = "done" =>
        \A o \in Off, b \in Byte :
            current(read.data[o], <<lineOf(mu.word), o>>, b) \/ covered(<<lineOf(mu.word), o>>, b)

\* A line that is read for the cache is in no way, nor is one that waits to be
\* read, unless it has been loaded since for another port.
MissesMiss ==
    /\ mu.vld /\ ~mu.nc => holds(lineOf(mu.word)) = {}
    /\ \A p \in Port :
         port[p].st \in Missing /\ mu.en /\ lineOf(port[p].word) \notin NcLine =>
             holds(lineOf(port[p].word)) = {} \/ p \in mu.coll

\* The pipeline of look-ups: what a read of the tags has found is still so.
LookupsRight ==
    /\ lookup.vld /\ lookup.who = W =>
         /\ wbuffer[lookup.ptr].valid # {}
         /\ lookup.hit = holds(lineOf(wbuffer[lookup.ptr].wtag))
    /\ check.en /\ wbuffer[check.ptr].valid # {} /\ ~wr_cl_q =>
         check.hit = holds(lineOf(wbuffer[check.ptr].wtag))
    /\ \A e \in Entry : wbuffer[e].valid # {} /\ wbuffer[e].checked =>
         wbuffer[e].hit = holds(lineOf(wbuffer[e].wtag))
    /\ \A p \in Port : port[p].st \in Looking =>
         lookup.vld /\ lookup.who = p /\ lookup.hit = holds(lineOf(port[p].word))

\* What a read port is about to return is legal, but for the bytes in the
\* write buffer.
AnswersLegal ==
    /\ \A p \in Port : port[p].st \notin {"IDLE", "KILL_MISS", "KILL_MISS_ACK"} =>
         ref[port[p].word] \in port[p].legal
    /\ \A p \in Port : port[p].st = "MISS_WAIT" =>
         mu.vld /\ mu.port = p /\ mu.word = port[p].word
    /\ \A p \in Port : port[p].st \in Looking /\ lookup.hit # {} =>
         \A b \in Byte : \/ covered(port[p].word, b)
                         \/ \E l \in port[p].legal : b \in lookup.data <=> b \in l

RInv ==
    /\ ReadAlone /\ ReadCurrent /\ MissesMiss /\ LookupsRight /\ AnswersLegal
    /\ CacheCoherent /\ LoadSeesLatest

RStep(x) == Step(x) /\ RInv

-----------------------------------------------------------------------------
(* What a cycle does to the ways, the write buffer and the ports.          *)

\* A way gains a line only when the line arrives from memory.
LEMMA HoldsNext ==
    ASSUME NEW x, Step(x), NEW l, NEW y \in Way
    PROVE  y \in holds(l)' <=> \/ y \in x.we /\ load_ack(x) /\ l = lineOf(mu.word)
                               \/ y \notin x.we /\ y \in holds(l)
<1>1. /\ y \in x.we /\ load_ack(x) =>
            ways'[y] = [vld |-> TRUE, line |-> lineOf(mu.word), data |-> read.data]
      /\ y \in x.we /\ ~load_ack(x) => ~ways'[y].vld
      /\ y \notin x.we => ways'[y].vld = ways[y].vld /\ ways'[y].line = ways[y].line
  BY WaysNext DEF Step, IInv
<1>2. CASE y \in x.we /\ load_ack(x)
  BY <1>1, <1>2 DEF holds
<1>3. CASE y \in x.we /\ ~load_ack(x)
  BY <1>1, <1>3 DEF holds
<1>4. CASE y \notin x.we
  BY <1>1, <1>4 DEF holds
<1> QED BY <1>2, <1>3, <1>4

\* Ways change their line only in a cycle with wr_cl_vld.
LEMMA HoldsKept ==
    ASSUME NEW x, Step(x)
    PROVE  /\ ~x.cl => x.we = {} /\ ~load_ack(x) /\ \A l : holds(l)' = holds(l)
           /\ flush_en /\ ~mu.vld => x.we = Way /\ x.cl
           /\ x.we = {} \/ x.we = Way \/ (load_ack(x) /\ ~mu.nc /\ x.we = {mu.way})
           /\ load_ack(x) => x.resp = "load" /\ read.st = "done" /\ mu.vld
<1>1. x.we = wr_cl_we(x) /\ x.cl = wr_cl_vld(x) /\ x.resp \in responses
  BY InputFacts DEF Step, IInv
<1>2. ~x.cl => x.we = {} /\ ~load_ack(x)
  BY <1>1 DEF wr_cl_vld
<1>3. ASSUME ~x.cl, NEW l PROVE holds(l)' = holds(l)
  <2>1. holds(l)' \subseteq Way /\ holds(l) \subseteq Way
    BY DEF holds
  <2>2. \A y \in Way : y \in holds(l)' <=> y \in holds(l)
    BY <1>2, <1>3, HoldsNext
  <2> QED BY <2>1, <2>2
<1>4. flush_en /\ ~mu.vld => x.we = Way /\ x.cl
  <2>1. flush_en /\ ~mu.vld => wr_cl_we(x) = Way /\ Way # {}
    BY CacheAssumption DEF wr_cl_we, load_ack
  <2> QED BY <1>1, <2>1 DEF wr_cl_vld
<1>5. x.we = {} \/ x.we = Way \/ (load_ack(x) /\ ~mu.nc /\ x.we = {mu.way})
  BY <1>1 DEF wr_cl_we
<1>6. load_ack(x) => x.resp = "load" /\ read.st = "done" /\ mu.vld
  BY <1>1 DEF load_ack, responses
<1> QED BY <1>2, <1>3, <1>4, <1>5, <1>6

\* The byte of word w that leaves the write buffer in this cycle.
leavesByte(x, w, b) == evict(x) /\ wbuffer[rptr].wtag = w /\ b \in wr_data_be

LEMMA KeepsCovered ==
    ASSUME NEW x, Step(x), NEW w, NEW b, covered(w, b), ~leavesByte(x, w, b)
    PROVE  covered(w, b)'
<1>1. PICK e \in Entry : wbuffer[e].valid # {} /\ wbuffer[e].wtag = w /\ b \in wbuffer[e].valid
  BY DEF covered, holding, validEntries
<1>2. b \notin dropped(x, e)
  BY <1>1 DEF dropped, back, leavesByte, wr_data_be
<1>3. b \in wbuffer'[e].valid /\ wbuffer'[e].wtag = w
  BY <1>1, <1>2, EntryStep, TagStable
<1> QED BY <1>3 DEF covered, holding, validEntries

\* A byte that was current is so after the cycle, or a store to it has come.
LEMMA KeepsCurrent ==
    ASSUME NEW x, Step(x), NEW w \in Word, NEW b, NEW d, current(d, w, b)
    PROVE  (b \in d <=> b \in ref'[w]) \/ covered(w, b)'
<1>1. CASE b \in ref'[w] <=> b \in ref[w]
  BY <1>1 DEF current
<1>2. CASE ~(b \in ref'[w] <=> b \in ref[w])
  <2>1. accepted(x) # {}
    BY <1>2, RefNext
  <2>2. w = stored(x).word /\ b \in stored(x).be
    BY <1>2, <2>1, RefNext DEF Merge
  <2>3. PICK e \in Entry : e = wr_ptr(stored(x)) /\ target(x, e)
    BY <2>1, StoreFacts DEF target
  <2>4. b \in wbuffer'[e].valid /\ wbuffer'[e].wtag = w
    BY <2>2, <2>3, EntryStep DEF coming
  <2> QED BY <2>4 DEF covered, holding, validEntries
<1> QED BY <1>1, <1>2

LEMMA KeepsGood ==
    ASSUME NEW x, Step(x), NEW w \in Word, NEW b, NEW d, current(d, w, b) \/ covered(w, b), ~leavesByte(x, w, b)
    PROVE  (b \in d <=> b \in ref'[w]) \/ covered(w, b)'
<1>1. CASE current(d, w, b)
  BY <1>1, KeepsCurrent
<1>2. CASE covered(w, b)
  BY <1>2, KeepsCovered
<1> QED BY <1>1, <1>2

\* The entry of the transaction that leaves.
LEMMA LeavesFacts ==
    ASSUME NEW x, RStep(x), evict(x)
    PROVE  /\ rptr \in Entry /\ wbuffer[rptr].wtag \in Word
           /\ wbuffer[rptr].hit = holds(lineOf(wbuffer[rptr].wtag))
           /\ onWay(lineOf(wbuffer[rptr].wtag))
           /\ \A b \in wr_data_be : current(wbuffer[rptr].data, wbuffer[rptr].wtag, b)
           /\ wr_data_be # {} /\ wbuffer[rptr].hit # {} => wr_ack(x)
<1>1. rid \in Tx /\ tx[rid].vld /\ rptr \in Entry /\ tx[rid].be \subseteq wbuffer[rptr].valid /\ tx[rid].be # {}
  BY EvictFacts DEF RStep, Step
<1>2. returned /\ (wr_req => wr_ack(x))
  BY DEF evict
<1>3. wbuffer[rptr].hit = holds(lineOf(wbuffer[rptr].wtag))
  <2>1. wbuffer[rptr].checked /\ wbuffer[rptr].valid # {}
    BY <1>1, <1>2 DEF returned
  <2> QED BY <1>1, <2>1 DEF RStep, RInv, LookupsRight
<1>4. onWay(lineOf(wbuffer[rptr].wtag))
  BY <1>1 DEF onWay, rptr
<1>5. \A b \in wr_data_be : current(wbuffer[rptr].data, wbuffer[rptr].wtag, b)
  BY <1>1 DEF RStep, Step, IInv, Values, wr_data_be
<1>6. wbuffer[rptr].wtag \in Word
  BY <1>1 DEF RStep, Step, IInv, Types
<1> QED BY <1>1, <1>2, <1>3, <1>4, <1>5, <1>6 DEF wr_req

-----------------------------------------------------------------------------
(* The controllers of the read ports.                                      *)

nextState(x, p) == ctrl_next(port[p].st, x.req[p] # {}, x.kill[p], TRUE, event(x, p))
nextWord(x, p)  == IF gnt(x, p) THEN requested(x, p) ELSE port[p].word

LEMMA PortNext ==
    ASSUME NEW x, Step(x), NEW p \in Port
    PROVE  /\ port'[p].st = nextState(x, p) /\ nextWord(x, p) \in Word
           /\ nextState(x, p) # "IDLE" => port'[p].word = nextWord(x, p)
           /\ nextState(x, p) \notin {"IDLE", "KILL_MISS", "KILL_MISS_ACK"} =>
                port'[p].legal = {ref[nextWord(x, p)], ref'[nextWord(x, p)]}
                                   \union (IF gnt(x, p) THEN {} ELSE port[p].legal)
<1>1. port' = [q \in Port |-> port_next(x, q, ref')]
  BY CycleRegisters, CycleQueues DEF Step
<1>2. port_next(x, p, ref') =
        [st |-> nextState(x, p), word |-> IF nextState(x, p) = "IDLE" THEN NoWord ELSE nextWord(x, p),
         legal |-> IF nextState(x, p) \in {"IDLE", "KILL_MISS", "KILL_MISS_ACK"} THEN {}
                   ELSE {ref[nextWord(x, p)], ref'[nextWord(x, p)]} \union (IF gnt(x, p) THEN {} ELSE port[p].legal)]
  BY Zenon DEF port_next, nextState, nextWord
<1>3. nextWord(x, p) \in Word
  BY RdWordType DEF nextWord
<1> QED BY <1>1, <1>2, <1>3

\* How a controller comes into the states in which it looks up, misses or waits.
LEMMA PortMoves ==
    ASSUME NEW x, Step(x), NEW p \in Port
    PROVE  /\ nextState(x, p) \in Looking => rd_ack(x, p)
           /\ nextState(x, p) \in Missing =>
                /\ nextWord(x, p) = port[p].word
                /\ \/ port[p].st \in Missing
                   \/ port[p].st \in Looking /\ ~x.cl /\ (lookup.hit = {} \/ ~mu.en)
           /\ nextState(x, p) = "MISS_WAIT" =>
                /\ nextWord(x, p) = port[p].word
                /\ \/ port[p].st = "MISS_WAIT" /\ ~(load_ack(x) /\ mu.port = p)
                   \/ port[p].st = "MISS_REQ" /\ miss_ack(x, p)
           /\ port[p].st \in Missing /\ ~miss_replay(x, p) /\ ~miss_ack(x, p) =>
                nextState(x, p) \in Missing
<1>0. port[p].st \in CtrlState
  BY DEF Step, IInv, Types
<1>1. CASE port[p].st \in {"IDLE", "REPLAY_REQ"}
  <2>1. event(x, p) = IF rd_ack(x, p) THEN "ack" ELSE "none"
    BY <1>1 DEF event
  <2> QED BY <1>1, <2>1 DEF nextState, ctrl_next, Looking, Missing
<1>2. CASE port[p].st \in {"READ", "REPLAY_READ"}
  <2>1. event(x, p) = IF x.cl THEN "again"
                      ELSE IF lookup.hit = {} \/ ~mu.en THEN "none"
                      ELSE IF rd_ack(x, p) THEN "hit_ack" ELSE "hit"
    BY <1>2 DEF event
  <2>2. nextState(x, p) \in {"READ", "REPLAY_READ"} => event(x, p) = "hit_ack"
    BY <1>2, <2>1 DEF nextState, ctrl_next, looksUp
  <2>3. nextState(x, p) \in Missing => event(x, p) = "none"
    BY <1>2, <2>1 DEF nextState, ctrl_next, looksUp, Missing
  <2>4. nextState(x, p) # "MISS_WAIT"
    BY <1>2, <2>1 DEF nextState, ctrl_next, looksUp
  <2>5. event(x, p) = "none" => ~gnt(x, p)
    BY DEF gnt, ctrl_gnt
  <2> QED BY <1>2, <2>1, <2>2, <2>3, <2>4, <2>5 DEF nextWord, Looking, Missing
<1>3. CASE port[p].st \in {"MISS_REQ", "KILL_MISS_ACK"}
  <2>1. event(x, p) = IF miss_replay(x, p) THEN "miss_replay"
                      ELSE IF miss_ack(x, p) THEN "miss_ack" ELSE "none"
    BY <1>3 DEF event
  <2>2. ~gnt(x, p)
    BY <1>3 DEF gnt, ctrl_gnt, looksUp
  <2> QED BY <1>3, <2>1, <2>2 DEF nextState, nextWord, ctrl_next, Looking, Missing
<1>4. CASE port[p].st \in {"MISS_WAIT", "KILL_MISS"}
  <2>1. event(x, p) = IF load_ack(x) /\ mu.port = p THEN "miss_rtrn" ELSE "none"
    BY <1>4 DEF event
  <2>2. ~gnt(x, p)
    BY <1>4 DEF gnt, ctrl_gnt, looksUp
  <2> QED BY <1>4, <2>1, <2>2 DEF nextState, nextWord, ctrl_next, Looking, Missing
<1> QED BY <1>0, <1>1, <1>2, <1>3, <1>4 DEF CtrlState

\* A port that looks up has read the tags in this cycle.
LEMMA LookupNext ==
    ASSUME NEW x, Step(x)
    PROVE  /\ lookup'.vld => ~x.cl /\ x.sel \in Port \union {W} /\ lookup'.who = x.sel
           /\ x.sel \in Port \union {W} /\ ~x.cl =>
                LET w == rd_word(x, x.sel)
                IN  /\ lookup'.vld /\ lookup'.hit = holds(lineOf(w))
                    /\ x.sel = W => lookup'.ptr = x.ptr
                    /\ x.sel # W => lookup'.data = found(w).data
<1>1. lookup' = lookup_next(x)
  BY CycleRegisters DEF Step
<1>2. CASE x.sel \notin Port \union {W} \/ x.cl
  BY <1>1, <1>2 DEF lookup_next, NoLookup
<1>3. CASE ~(x.sel \notin Port \union {W} \/ x.cl)
  <2> DEFINE w == rd_word(x, x.sel)
  <2>1. lookup' = [vld |-> TRUE, who |-> x.sel, ptr |-> IF x.sel = W THEN x.ptr ELSE 0,
                   hit |-> found(w).hit, data |-> IF x.sel = W THEN NoData ELSE found(w).data]
    BY <1>1, <1>3, Zenon DEF lookup_next
  <2>2. found(w).hit = holds(lineOf(w))
    BY DEF found, holds
  <2> HIDE DEF w
  <2>3. /\ lookup'.vld /\ lookup'.who = x.sel /\ lookup'.hit = holds(lineOf(w))
        /\ x.sel = W => lookup'.ptr = x.ptr
        /\ x.sel # W => lookup'.data = found(w).data
    BY <2>1, <2>2
  <2> QED BY <1>3, <2>3 DEF w
<1> QED BY <1>2, <1>3

-----------------------------------------------------------------------------
(* What the miss unit sends.                                               *)

\* A read is sent when no other is on its way, for a port that misses, and
\* when no write to its line is on its way.
LEMMA LoadFacts ==
    ASSUME NEW x, RStep(x), x.r = "load"
    PROVE  LET p == miss_port_idx
           IN  /\ p \in Port /\ port[p].st \in Missing /\ port[p].word \in Word
               /\ ~mu.vld /\ ~mshr_rdrd_collision_d(p) /\ p \notin mu.coll
               /\ ~onWay(lineOf(port[p].word))
               /\ mu.state \in {"IDLE", "LOAD_WAIT"}
<1> DEFINE p == miss_port_idx
<1>0. x.r = mem_data_req(x) /\ mu.state \in MuState /\ mu.lock \in 0 .. 2
  BY InputFacts DEF RStep, Step, IInv, Types
<1>1. p \in Port /\ mu.state \in {"IDLE", "LOAD_WAIT"}
  <2>1. mu.state \in {"IDLE", "LOAD_WAIT"}
    BY <1>0 DEF mem_data_req, MuState
  <2> QED BY <2>1, MissPort DEF RStep
<1>2. port[p].word \in Word
  BY <1>1 DEF RStep, Step, IInv, Types
<1>3. CASE mu.state = "IDLE"
  <2>1. miss_req_masked # {} /\ p # W /\ ~mshr_rdrd_collision_d(p) /\ ~tx_rdwr_collision(p)
    BY <1>0, <1>3 DEF mem_data_req
  <2>2. ~lock_reqs
    BY <1>3 DEF lock_reqs
  <2>3. p \in miss_req_masked
    <3>1. miss_req_masked \subseteq Port \union {W}
      BY <2>2 DEF miss_req_masked, miss_req
    <3> QED BY <2>1, <3>1, MinMember, Constants DEF miss_port_idx
  <2>4. ~mu.vld /\ p \in miss_req
    BY <2>1, <2>2, <2>3 DEF miss_req_masked, mask_reads
  <2>5. port[p].st \in Missing
    BY <2>1, <2>4 DEF miss_req, Missing
  <2>6. p \notin mu.coll
    BY <2>1, <2>4 DEF mshr_rdrd_collision_d
  <2>7. ~onWay(lineOf(port[p].word))
    BY <2>1 DEF tx_rdwr_collision, onWay
  <2> QED BY <1>1, <1>2, <2>1, <2>4, <2>5, <2>6, <2>7
<1>4. CASE mu.state = "LOAD_WAIT"
  <2>1. p = mu.lock
    <3>1. miss_req_masked = {mu.lock} /\ {mu.lock} \subseteq Nat
      BY <1>0, <1>4 DEF miss_req_masked, lock_reqs
    <3> QED BY <3>1, MinMember DEF miss_port_idx
  <2>2. /\ ~mu.vld /\ ~mu.vld1 /\ p \notin mu.coll /\ port[p].st \in Missing
        /\ ~onWay(lineOf(port[p].word))
    BY <1>4, <2>1 DEF RStep, RInv, ReadAlone
  <2>3. ~mshr_rdrd_collision_d(p)
    BY <2>2 DEF mshr_rdrd_collision_d
  <2> QED BY <1>1, <1>2, <2>2, <2>3
<1> QED BY <1>1, <1>3, <1>4

\* A write is sent for the write buffer, and not to the line that is being read.
LEMMA StoreLine ==
    ASSUME NEW x, RStep(x), x.r = "store"
    PROVE  /\ miss_port_idx = W
           /\ x.dptr \in Entry /\ wbuffer[x.dptr].valid # {}
           /\ mu.vld => lineOf(wbuffer[x.dptr].wtag) # lineOf(mu.word)
<1>0. x.r = mem_data_req(x) /\ mu.state \in MuState /\ mu.lock \in 0 .. 2 /\ x.dptr \in dirty /\ x.dptr \in dptrs
  BY InputFacts DEF RStep, Step, IInv, Types
<1>1. x.dptr \in Entry /\ wbuffer[x.dptr].valid # {}
  BY <1>0 DEF dirty, bdirty
<1>2. CASE mu.state = "IDLE"
  BY <1>0, <1>1, <1>2 DEF mem_data_req, mshr_rdwr_collision
<1>3. CASE mu.state = "DRAIN"
  <2>1. miss_req_masked # {} /\ ~mshr_rdwr_collision(x)
    BY <1>0, <1>3 DEF mem_data_req
  <2>2. miss_req_masked = {W}
    BY <1>3, <2>1 DEF miss_req_masked, lock_reqs, mask_reads
  <2>3. miss_port_idx = W
    <3>1. {W} \subseteq Nat
      BY Constants
    <3> QED BY <2>2, <3>1, MinMember DEF miss_port_idx
  <2> QED BY <1>1, <2>1, <2>3 DEF mshr_rdwr_collision
<1>4. CASE mu.state = "STORE_WAIT"
  <2>1. miss_port_idx = mu.lock
    <3>1. miss_req_masked = {mu.lock} /\ {mu.lock} \subseteq Nat
      BY <1>0, <1>4 DEF miss_req_masked, lock_reqs
    <3> QED BY <3>1, MinMember DEF miss_port_idx
  <2>2. x.dptr = mu.ptr
    BY <1>0, <1>4 DEF dptrs
  <2> QED BY <1>1, <1>4, <2>1, <2>2 DEF RStep, RInv, ReadAlone
<1>5. mu.state \in {"IDLE", "DRAIN", "STORE_WAIT"}
  BY <1>0 DEF mem_data_req, MuState
<1> QED BY <1>2, <1>3, <1>4, <1>5

\* A write to a line comes on its way only by being sent.
LEMMA OnWayNext ==
    ASSUME NEW x, Step(x), NEW l, onWay(l)'
    PROVE  onWay(l) \/ (sends(x) /\ lineOf(wbuffer[x.dptr].wtag) = l)
<1>1. PICK t \in Tx : tx'[t].vld /\ lineOf(wbuffer'[tx'[t].ptr].wtag) = l
  BY DEF onWay
<1>2. CASE sends(x) /\ t = newTx
  <2>1. tx'[t].ptr = x.dptr /\ x.dptr \in Entry /\ wbuffer[x.dptr].valid # {}
    BY <1>2, TxNext, SendFacts DEF dirty, bdirty
  <2>2. wbuffer'[x.dptr].wtag = wbuffer[x.dptr].wtag
    BY <2>1, TagStable
  <2> QED BY <1>1, <1>2, <2>1, <2>2
<1>3. CASE ~(sends(x) /\ t = newTx)
  <2>1. tx[t].vld /\ tx'[t].ptr = tx[t].ptr
    BY <1>1, <1>3, TxNext
  <2>2. tx[t].ptr \in Entry /\ wbuffer[tx[t].ptr].valid # {}
    BY <2>1, TxEntry DEF Step
  <2>3. wbuffer'[tx[t].ptr].wtag = wbuffer[tx[t].ptr].wtag
    BY <2>2, TagStable
  <2> QED BY <1>1, <2>1, <2>3 DEF onWay
<1> QED BY <1>2, <1>3

LEMMA ReadAloneStep ==
    ASSUME NEW x, RStep(x)
    PROVE  ReadAlone'
<1>0. /\ x.r = mem_data_req(x) /\ mu.state \in MuState /\ x.ack \in BOOLEAN
      /\ mu'.state = mu_state(x)
      /\ mu'.vld <=> allocates(x) \/ (mu.vld /\ ~load_ack(x))
      /\ mu'.vld1 = mu.vld /\ mu'.coll = {p \in Port : mshr_rdrd_collision_d(p)}
      /\ mu'.lock = IF waits(x) THEN miss_port_idx ELSE W
      /\ mu'.ptr = IF waits(x) /\ x.r = "store" THEN x.dptr ELSE 0
      /\ allocates(x) => mu'.word = port[miss_port_idx].word
      /\ ~allocates(x) => mu'.word = mu.word
  BY InputFacts, MuNext DEF RStep, Step, IInv, Types
<1>1. ASSUME mu_state(x) = "LOAD_WAIT" PROVE x.r = "load" /\ ~x.ack
  BY <1>0, <1>1 DEF mu_state, MuState, mem_data_req
<1>2. ASSUME mu_state(x) = "STORE_WAIT" PROVE x.r = "store" /\ ~x.ack
  BY <1>0, <1>2 DEF mu_state, MuState, mem_data_req
<1>3. ASSUME mu_state(x) = "FLUSH" PROVE ~mu.vld /\ x.r = "none"
  BY <1>0, <1>3 DEF mu_state, MuState, mem_data_req, drained
<1>4. ASSUME mu'.state \in {"FLUSH", "LOAD_WAIT"} PROVE ~mu'.vld
  BY <1>0, <1>1, <1>3, <1>4, LoadFacts DEF allocates
<1>5. ASSUME mu'.state = "STORE_WAIT"
      PROVE  mu'.lock = W /\ (mu'.vld => lineOf(wbuffer'[mu'.ptr].wtag) # lineOf(mu'.word))
  <2>1. x.r = "store" /\ ~x.ack /\ waits(x)
    BY <1>0, <1>2, <1>5 DEF waits
  <2>2. mu'.lock = W /\ mu'.ptr = x.dptr /\ mu'.word = mu.word /\ (mu'.vld => mu.vld)
    BY <1>0, <2>1, StoreLine DEF allocates
  <2>3. wbuffer'[x.dptr].wtag = wbuffer[x.dptr].wtag
    BY <2>1, StoreLine, TagStable DEF RStep
  <2> QED BY <2>1, <2>2, <2>3, StoreLine
<1>6. ASSUME mu'.state = "LOAD_WAIT"
      PROVE  /\ ~mu'.vld1 /\ mu'.lock \notin mu'.coll /\ port'[mu'.lock].st \in Missing
             /\ \A t \in Tx : ~(tx'[t].vld /\ lineOf(wbuffer'[tx'[t].ptr].wtag) = lineOf(port'[mu'.lock].word))
  <2>1. x.r = "load" /\ ~x.ack /\ waits(x)
    BY <1>0, <1>1, <1>6 DEF waits
  <2>2. PICK p \in Port : p = miss_port_idx
    BY <2>1, LoadFacts
  <2>3. /\ port[p].st \in Missing /\ ~mu.vld /\ ~mshr_rdrd_collision_d(p)
        /\ ~onWay(lineOf(port[p].word))
    BY <2>1, <2>2, LoadFacts
  <2>4. mu'.lock = p /\ p \notin mu'.coll /\ ~mu'.vld1
    BY <1>0, <2>1, <2>2, <2>3
  <2>5. nextState(x, p) \in Missing /\ nextWord(x, p) = port[p].word
    <3>1. ~miss_replay(x, p) /\ ~miss_ack(x, p)
      BY <2>1, <2>3 DEF miss_replay, miss_ack
    <3> QED BY <2>3, <3>1, PortMoves DEF RStep
  <2>6. port'[p].st \in Missing /\ port'[p].word = port[p].word
    BY <2>5, PortNext DEF RStep, Missing
  <2>7. PICK l : l = lineOf(port[p].word)
    OBVIOUS
  <2>8. ~onWay(l)'
    BY <2>1, <2>3, <2>7, OnWayNext DEF RStep, sends
  <2> QED BY <2>4, <2>6, <2>7, <2>8 DEF onWay
<1>7. ASSUME mu'.vld
      PROVE  \A t \in Tx : ~(tx'[t].vld /\ lineOf(wbuffer'[tx'[t].ptr].wtag) = lineOf(mu'.word))
  <2>0. PICK l : l = lineOf(mu'.word)
    OBVIOUS
  <2>1. ASSUME allocates(x) PROVE ~onWay(l)'
    BY <1>0, <1>7, <2>0, <2>1, LoadFacts, OnWayNext DEF allocates, sends, RStep
  <2>2. ASSUME ~allocates(x) PROVE ~onWay(l)'
    <3>1. mu.vld /\ l = lineOf(mu.word) /\ ~onWay(l)
      BY <1>0, <1>7, <2>0, <2>2 DEF RStep, RInv, ReadAlone
    <3> QED BY <3>1, StoreLine, OnWayNext DEF sends, RStep
  <2> QED BY <2>0, <2>1, <2>2 DEF onWay
<1> QED BY <1>4, <1>5, <1>6, <1>7 DEF ReadAlone, onWay

LEMMA ReadNext ==
    ASSUME NEW x, Step(x)
    PROVE  /\ read'.data = read.data
           /\ load_ack(x) => read'.st = "none"
           /\ ~load_ack(x) /\ allocates(x) => read'.st = "sent"
           /\ ~load_ack(x) /\ ~allocates(x) => read' = read
<1>1. read \in [st : {"none", "sent", "done"}, data : [Off -> Data]]
  BY DEF Step, IInv, Types
<1>2. read' = IF load_ack(x) THEN [read EXCEPT !.st = "none"]
              ELSE IF x.r = "load" /\ x.ack THEN [read EXCEPT !.st = "sent"] ELSE read
  BY CycleRegisters DEF Step
<1> QED BY <1>1, <1>2 DEF allocates

LEMMA ReadCurrentStep ==
    ASSUME NEW x, RStep(x)
    PROVE  ReadCurrent'
<1>1. SUFFICES ASSUME mu'.vld, read'.st = "done", NEW o \in Off, NEW b \in Byte
               PROVE  \/ b \in read'.data[o] <=> b \in ref'[<<lineOf(mu'.word), o>>]
                      \/ \E e \in Entry : /\ wbuffer'[e].valid # {} /\ b \in wbuffer'[e].valid
                                          /\ wbuffer'[e].wtag = <<lineOf(mu'.word), o>>
  BY DEF ReadCurrent, current, covered, holding, validEntries
<1>2. ~load_ack(x) /\ ~allocates(x) /\ read' = read
  BY <1>1, ReadNext DEF RStep
<1>3. mu.vld /\ mu'.word = mu.word /\ mu.word \in Word
  BY <1>1, <1>2, MuNext DEF RStep, Step, IInv, Types
<1>4. PICK w \in Word : w = <<lineOf(mu.word), o>>
  BY <1>3, Constants DEF Word
<1>5. current(read.data[o], w, b) \/ covered(w, b)
  BY <1>1, <1>2, <1>3, <1>4 DEF RStep, RInv, ReadCurrent
<1>6. ~leavesByte(x, w, b)
  <2>1. lineOf(w) = lineOf(mu.word)
    BY <1>4 DEF lineOf
  <2> QED BY <1>3, <2>1, LeavesFacts DEF leavesByte, RStep, RInv, ReadAlone
<1>7. (b \in read.data[o] <=> b \in ref'[w]) \/ covered(w, b)'
  BY <1>5, <1>6, KeepsGood DEF RStep
<1> QED BY <1>2, <1>3, <1>4, <1>7 DEF covered, holding, validEntries

LEMMA MissesMissStep ==
    ASSUME NEW x, RStep(x)
    PROVE  MissesMiss'
<1>0. /\ mu'.vld <=> allocates(x) \/ (mu.vld /\ ~load_ack(x))
      /\ mu'.coll = {p \in Port : mshr_rdrd_collision_d(p)}
      /\ mu'.en <=> x.en /\ (mu.en \/ flush_en)
      /\ allocates(x) => mu'.word = port[miss_port_idx].word /\ mu'.nc = nc(port[miss_port_idx].word)
      /\ ~allocates(x) => mu'.word = mu.word /\ mu'.nc = mu.nc
      /\ mu.coll \subseteq Port
  BY MuNext DEF RStep, Step, IInv, Types
<1>1. ASSUME NEW l, ~load_ack(x), holds(l) = {} PROVE holds(l)' = {}
  <2>1. holds(l)' \subseteq Way
    BY DEF holds
  <2> QED BY <1>1, <2>1, HoldsNext DEF RStep
<1>2. ASSUME mu'.vld, ~mu'.nc
      PROVE  \A y \in Way : ~(ways'[y].vld /\ ways'[y].line = lineOf(mu'.word))
  <2>1. ~load_ack(x)
    BY <1>0, <1>2, LoadFacts DEF allocates, load_ack
  <2>2. PICK l : l = lineOf(mu'.word)
    OBVIOUS
  <2>3. holds(l) = {}
    <3>1. CASE allocates(x)
      <4>1. PICK p \in Port : p = miss_port_idx
        BY <3>1, LoadFacts DEF allocates
      <4>2. port[p].st \in Missing /\ p \notin mu.coll
        BY <3>1, <4>1, LoadFacts DEF allocates
      <4>3. mu.en /\ l \notin NcLine /\ l = lineOf(port[p].word)
        BY <1>0, <1>2, <2>2, <3>1, <4>1 DEF nc
      <4> QED BY <4>2, <4>3 DEF RStep, RInv, MissesMiss
    <3>2. CASE ~allocates(x)
      BY <1>0, <1>2, <2>1, <2>2, <3>2 DEF RStep, RInv, MissesMiss
    <3> QED BY <3>1, <3>2
  <2>4. holds(l)' = {}
    BY <1>1, <2>1, <2>3
  <2> QED BY <2>2, <2>4 DEF holds
<1>3. ASSUME NEW p \in Port, port'[p].st \in Missing, mu'.en, lineOf(port'[p].word) \notin NcLine,
             p \notin mu'.coll
      PROVE  \A y \in Way : ~(ways'[y].vld /\ ways'[y].line = lineOf(port'[p].word))
  <2>1. /\ nextState(x, p) \in Missing /\ port'[p].word = port[p].word
        /\ \/ port[p].st \in Missing
           \/ port[p].st \in Looking /\ ~x.cl /\ (lookup.hit = {} \/ ~mu.en)
    BY <1>3, PortNext, PortMoves DEF RStep, Missing
  <2>2. PICK l : l = lineOf(port[p].word)
    OBVIOUS
  <2>3. holds(l)' = {}
    <3>0. holds(l)' \subseteq Way
      BY DEF holds
    <3>1. CASE flush_en
      <4>1. ~mu.vld
        BY <3>1 DEF flush_en, RStep, RInv, ReadAlone
      <4>2. x.we = Way /\ ~load_ack(x)
        BY <3>1, <4>1, HoldsKept DEF RStep
      <4> QED BY <3>0, <4>2, HoldsNext DEF RStep
    <3>2. CASE ~flush_en /\ port[p].st \in Missing
      <4>1. p \in miss_req
        BY <3>2 DEF miss_req, Missing
      <4>2. p \notin mu.coll /\ ~(l = lineOf(mu.word) /\ mu.vld)
        BY <1>0, <1>3, <2>2, <4>1 DEF mshr_rdrd_collision_d
      <4>3. holds(l) = {}
        BY <1>0, <1>3, <2>1, <2>2, <3>2, <4>2 DEF RStep, RInv, MissesMiss
      <4> QED BY <3>0, <4>2, <4>3, HoldsNext DEF load_ack, RStep
    <3>3. CASE ~flush_en /\ port[p].st \in Looking /\ ~x.cl /\ (lookup.hit = {} \/ ~mu.en)
      <4>1. holds(l) = {}
        BY <1>0, <1>3, <2>2, <3>3 DEF RStep, RInv, LookupsRight
      <4> QED BY <3>3, <4>1, HoldsKept DEF RStep
    <3> QED BY <2>1, <3>1, <3>2, <3>3
  <2> QED BY <2>1, <2>2, <2>3 DEF holds
<1>4. MissesMiss' <=>
        /\ mu'.vld /\ ~mu'.nc => {y \in Way : ways'[y].vld /\ ways'[y].line = lineOf(mu'.word)} = {}
        /\ \A p \in Port :
             port'[p].st \in Missing /\ mu'.en /\ lineOf(port'[p].word) \notin NcLine =>
                 \/ {y \in Way : ways'[y].vld /\ ways'[y].line = lineOf(port'[p].word)} = {}
                 \/ p \in mu'.coll
  BY DEF MissesMiss, holds
<1> QED BY <1>2, <1>3, <1>4

-----------------------------------------------------------------------------
(* The pipeline of look-ups.                                               *)

\* An entry is checked after the cycle only when a look-up for it arrives, or
\* arrived before, and no line has come or gone since the tags were read.
LEMMA EntryChecked ==
    ASSUME NEW x, Step(x), NEW e \in Entry, wbuffer'[e].checked, wbuffer'[e].valid # {}
    PROVE  /\ ~target(x, e) /\ wbuffer[e].valid # {} /\ ~x.cl /\ ~wr_cl_q
           /\ IF check.en /\ check.ptr = e THEN wbuffer'[e].hit = check.hit
              ELSE wbuffer[e].checked /\ wbuffer'[e].hit = wbuffer[e].hit
<1> DEFINE from(f, g) == f.checked => g.checked /\ f.hit = g.hit
<1> DEFINE wb0 == checked(wbuffer)
           wb1 == invalidated(x, wb0)
           wb2 == evicted(x, wb1)
           wb3 == sent(x, wb2)
<1>0. wbuffer' = written(x, wb3) /\ wbuffer \in [Entry -> EntryRec]
  BY DEF Cycle, Step, IInv, Types, EntryRec
<1>1. /\ wb0 \in [Entry -> EntryRec]
      /\ \A f \in Entry : IF check.en /\ check.ptr = f /\ wbuffer[f].valid # {} THEN wb0[f].hit = check.hit
                          ELSE wb0[f] = wbuffer[f]
  <2>1. check.ptr \in Entry /\ check.hit \in SUBSET Way
    BY DEF Step, IInv, Types
  <2>2. CASE check.en /\ wbuffer[check.ptr].valid # {}
    <3> DEFINE c == check.ptr
               r == [wbuffer[c] EXCEPT !.checked = TRUE, !.hit = check.hit]
    <3>1. r \in EntryRec /\ r.hit = check.hit
      BY <1>0, <2>1 DEF EntryRec
    <3>2. wb0 = [wbuffer EXCEPT ![c] = r]
      BY <1>0, <2>1, <2>2, Zenon DEF checked
    <3> HIDE DEF r
    <3> QED BY <1>0, <2>1, <2>2, <3>1, <3>2
  <2>3. CASE ~(check.en /\ wbuffer[check.ptr].valid # {})
    BY <1>0, <2>3 DEF checked
  <2> QED BY <2>2, <2>3
<1>2. /\ wb1 \in [Entry -> EntryRec]
      /\ \A f \in Entry : from(wb1[f], wb0[f]) /\ (wb1[f].checked => ~inval_hit(x, f))
  <2> HIDE DEF wb0
  <2> DEFINE n(f) == IF inval_hit(x, f) THEN [wb0[f] EXCEPT !.checked = FALSE] ELSE wb0[f]
  <2>1. wb1 = [f \in Entry |-> n(f)]
    BY DEF invalidated
  <2>2. ASSUME NEW f \in Entry
        PROVE  n(f) \in EntryRec /\ from(n(f), wb0[f]) /\ (n(f).checked => ~inval_hit(x, f))
    <3>1. wb0[f] \in EntryRec
      BY <1>1
    <3>2. CASE inval_hit(x, f)
      BY <3>1, <3>2 DEF EntryRec
    <3>3. CASE ~inval_hit(x, f)
      BY <3>1, <3>3
    <3> QED BY <3>2, <3>3
  <2> HIDE DEF n
  <2> QED BY <2>1, <2>2
<1>3. wb2 \in [Entry -> EntryRec] /\ \A f \in Entry : from(wb2[f], wb1[f])
  <2> HIDE DEF wb1
  <2>1. CASE ~evict(x)
    BY <2>1, <1>2 DEF evicted
  <2>2. CASE evict(x)
    <3>0. rptr \in Entry
      BY <2>2, EvictFacts DEF Step
    <3> DEFINE v1 == wb1[rptr].valid \ acknowledged
               r  == [wb1[rptr] EXCEPT !.txblock = @ \ tx[rid].be, !.valid = v1,
                                       !.checked = @ /\ v1 # {}]
    <3>1. r \in EntryRec /\ from(r, wb1[rptr])
      <4>1. wb1[rptr] \in EntryRec
        BY <1>2, <3>0
      <4>2. v1 \in SUBSET Byte /\ wb1[rptr].txblock \ tx[rid].be \in SUBSET Byte
        BY <4>1 DEF EntryRec
      <4>3. (wb1[rptr].checked /\ v1 # {}) \in BOOLEAN
        OBVIOUS
      <4>4. /\ r \in EntryRec /\ r.hit = wb1[rptr].hit
            /\ r.checked = (wb1[rptr].checked /\ v1 # {})
        <5> HIDE DEF v1
        <5> QED BY <4>1, <4>2, <4>3 DEF EntryRec
      <4> HIDE DEF r
      <4> QED BY <4>4
    <3>2. wb2 = [wb1 EXCEPT ![rptr] = r]
      BY <2>2 DEF evicted
    <3> HIDE DEF r
    <3> QED BY <1>2, <3>0, <3>1, <3>2
  <2> QED BY <2>1, <2>2
<1>4. wb3 \in [Entry -> EntryRec] /\ \A f \in Entry : from(wb3[f], wb2[f])
  <2> HIDE DEF wb2
  <2>1. CASE ~sends(x)
    BY <2>1, <1>3 DEF sent, sends
  <2>2. CASE sends(x)
    <3>1. tx_be(x.dptr) \subseteq Byte /\ x.dptr \in Entry
      BY <2>2, SendFacts, TxBytes DEF Step, IInv
    <3> DEFINE d == x.dptr
               r == [wb2[d] EXCEPT !.dirty = @ \ tx_be(d), !.txblock = @ \union tx_be(d)]
    <3>2. r \in EntryRec /\ from(r, wb2[d])
      <4>1. wb2[d] \in EntryRec
        BY <3>1, <1>3
      <4>2. wb2[d].dirty \ tx_be(d) \in SUBSET Byte /\ wb2[d].txblock \union tx_be(d) \in SUBSET Byte
        BY <4>1, <3>1 DEF EntryRec
      <4> QED BY <4>1, <4>2 DEF EntryRec
    <3>3. wb3 = [wb2 EXCEPT ![d] = r]
      BY <2>2, <3>1, <1>3, Zenon DEF sent, sends
    <3> HIDE DEF r
    <3> QED BY <3>1, <3>2, <3>3, <1>3
  <2> QED BY <2>1, <2>2
<1>5. ~target(x, e) /\ from(wbuffer'[e], wb3[e])
  <2> HIDE DEF wb3
  <2>1. CASE accepted(x) = {}
    BY <2>1, <1>4, <1>0 DEF written, target
  <2>2. CASE accepted(x) # {}
    <3> DEFINE w == wr_ptr(stored(x))
               r == [wb3[w] EXCEPT !.checked = FALSE, !.wtag = stored(x).word,
                          !.valid = @ \union stored(x).be, !.dirty = @ \union stored(x).be,
                          !.data = Merge(@, stored(x).be, stored(x).data)]
    <3>1. wbuffer' = [wb3 EXCEPT ![w] = r]
      BY <2>2, <1>0 DEF written, stored
    <3>2. w \in Entry /\ wb3[w] \in EntryRec
      BY <2>2, <1>4, StoreFacts
    <3>3. ~r.checked
      <4> HIDE DEF w
      <4> QED BY <3>2 DEF EntryRec
    <3> HIDE DEF r
    <3>4. wbuffer'[w] = r
      BY <1>4, <3>1, <3>2
    <3>5. e # w
      BY <3>3, <3>4
    <3>6. wbuffer'[e] = wb3[e]
      BY <1>4, <3>1, <3>5
    <3> QED BY <3>5, <3>6 DEF target
  <2> QED BY <2>1, <2>2
<1>6. wbuffer[e].valid # {}
  BY <1>5, EntryStep DEF coming
<1> HIDE DEF wb0, wb1, wb2, wb3
<1>7. wb1[e].checked /\ wbuffer'[e].hit = wb1[e].hit
  BY <1>3, <1>4, <1>5
<1>8. ~inval_hit(x, e) /\ wb0[e].checked /\ wbuffer'[e].hit = wb0[e].hit
  BY <1>2, <1>7
<1>9. ~x.cl /\ ~wr_cl_q
  BY <1>6, <1>8 DEF inval_hit
<1> QED BY <1>1, <1>5, <1>6, <1>8, <1>9

LEMMA LookupsRightStep ==
    ASSUME NEW x, RStep(x)
    PROVE  LookupsRight'
<1>0. ASSUME ~x.cl, NEW e \in Entry, wbuffer[e].valid # {}, NEW h, h = holds(lineOf(wbuffer[e].wtag))
      PROVE  h = {y \in Way : ways'[y].vld /\ ways'[y].line = lineOf(wbuffer'[e].wtag)}
  <2>1. PICK l : l = lineOf(wbuffer[e].wtag)
    OBVIOUS
  <2>2. wbuffer'[e].wtag = wbuffer[e].wtag
    BY <1>0, TagStable DEF RStep
  <2>3. holds(l)' = holds(l)
    BY <1>0, HoldsKept DEF RStep
  <2> QED BY <1>0, <2>1, <2>2, <2>3 DEF holds
<1>1. ASSUME lookup'.vld, lookup'.who = W
      PROVE  /\ wbuffer'[lookup'.ptr].valid # {}
             /\ lookup'.hit = {y \in Way : ways'[y].vld /\ ways'[y].line = lineOf(wbuffer'[lookup'.ptr].wtag)}
  <2>1. ~x.cl /\ x.sel = W
    BY <1>1, LookupNext DEF RStep
  <2>2. PICK e \in Entry : e = x.ptr /\ wbuffer[e].valid # {} /\ ~wbuffer[e].checked
    BY <2>1, InputTypes DEF RStep, tocheck, validEntries
  <2>3. lookup'.ptr = e /\ lookup'.hit = holds(lineOf(wbuffer[e].wtag))
    BY <2>1, <2>2, LookupNext DEF RStep, rd_word
  <2>4. dropped(x, e) = {}
    BY <2>2 DEF dropped, back, evict, returned
  <2>5. wbuffer'[e].valid # {}
    BY <2>2, <2>4, EntryStep DEF RStep
  <2> QED BY <1>0, <2>1, <2>2, <2>3, <2>5
<1>2. ASSUME check'.en, wbuffer'[check'.ptr].valid # {}, ~wr_cl_q'
      PROVE  check'.hit = {y \in Way : ways'[y].vld /\ ways'[y].line = lineOf(wbuffer'[check'.ptr].wtag)}
  <2>1. ~x.cl /\ lookup.vld /\ lookup.who = W /\ check'.ptr = lookup.ptr /\ check'.hit = lookup.hit
    BY <1>2, CycleRegisters DEF RStep, Step
  <2>2. PICK e \in Entry : e = lookup.ptr
    BY DEF RStep, Step, IInv, Types
  <2>3. wbuffer[e].valid # {} /\ lookup.hit = holds(lineOf(wbuffer[e].wtag))
    BY <2>1, <2>2 DEF RStep, RInv, LookupsRight
  <2> QED BY <1>0, <2>1, <2>2, <2>3
<1>3. ASSUME NEW e \in Entry, wbuffer'[e].valid # {}, wbuffer'[e].checked
      PROVE  wbuffer'[e].hit = {y \in Way : ways'[y].vld /\ ways'[y].line = lineOf(wbuffer'[e].wtag)}
  <2>1. /\ wbuffer[e].valid # {} /\ ~x.cl /\ ~wr_cl_q
        /\ IF check.en /\ check.ptr = e THEN wbuffer'[e].hit = check.hit
           ELSE wbuffer[e].checked /\ wbuffer'[e].hit = wbuffer[e].hit
    BY <1>3, EntryChecked DEF RStep
  <2>2. wbuffer'[e].hit = holds(lineOf(wbuffer[e].wtag))
    BY <2>1 DEF RStep, RInv, LookupsRight
  <2> QED BY <1>0, <2>1, <2>2
<1>4. ASSUME NEW p \in Port, port'[p].st \in Looking
      PROVE  /\ lookup'.vld /\ lookup'.who = p
             /\ lookup'.hit = {y \in Way : ways'[y].vld /\ ways'[y].line = lineOf(port'[p].word)}
  <2>1. x.sel = p /\ ~x.cl /\ port'[p].word = nextWord(x, p)
    BY <1>4, PortNext, PortMoves DEF RStep, rd_ack, Looking
  <2>2. PICK w : w = nextWord(x, p)
    OBVIOUS
  <2>3. rd_word(x, p) = w
    BY <2>2, Constants DEF rd_word, nextWord
  <2>4. lookup'.vld /\ lookup'.who = p /\ lookup'.hit = holds(lineOf(w))
    BY <2>1, <2>3, LookupNext DEF RStep
  <2>5. PICK l : l = lineOf(w)
    OBVIOUS
  <2>6. holds(l)' = holds(l)
    BY <2>1, HoldsKept DEF RStep
  <2> QED BY <2>1, <2>2, <2>4, <2>5, <2>6 DEF holds
<1>5. LookupsRight' <=>
    /\ lookup'.vld /\ lookup'.who = W =>
         /\ wbuffer'[lookup'.ptr].valid # {}
         /\ lookup'.hit = {y \in Way : ways'[y].vld /\ ways'[y].line = lineOf(wbuffer'[lookup'.ptr].wtag)}
    /\ check'.en /\ wbuffer'[check'.ptr].valid # {} /\ ~wr_cl_q' =>
         check'.hit = {y \in Way : ways'[y].vld /\ ways'[y].line = lineOf(wbuffer'[check'.ptr].wtag)}
    /\ \A e \in Entry : wbuffer'[e].valid # {} /\ wbuffer'[e].checked =>
         wbuffer'[e].hit = {y \in Way : ways'[y].vld /\ ways'[y].line = lineOf(wbuffer'[e].wtag)}
    /\ \A p \in Port : port'[p].st \in Looking =>
         /\ lookup'.vld /\ lookup'.who = p
         /\ lookup'.hit = {y \in Way : ways'[y].vld /\ ways'[y].line = lineOf(port'[p].word)}
  BY DEF LookupsRight, holds
<1> QED BY <1>1, <1>2, <1>3, <1>4, <1>5

-----------------------------------------------------------------------------
(* What is read is legal.                                                  *)

\* A byte that is read from a way is current or in the write buffer.
LEMMA FoundGood ==
    ASSUME IInv, CacheCoherent, NEW w \in Word, holds(lineOf(w)) # {}, NEW b \in Byte
    PROVE  current(found(w).data, w, b) \/ covered(w, b)
<1>1. PICK y \in Way : /\ ways[y].vld /\ ways[y].line = lineOf(w)
                       /\ found(w).data = ways[y].data[bankOf(w)]
  <2>1. (CHOOSE y \in holds(lineOf(w)) : TRUE) \in holds(lineOf(w))
    OBVIOUS
  <2>2. found(w).data = ways[CHOOSE y \in holds(lineOf(w)) : TRUE].data[bankOf(w)]
    BY DEF found, holds
  <2> QED BY <2>1, <2>2 DEF holds
<1>2. <<ways[y].line, bankOf(w)>> = w /\ bankOf(w) \in Off
  BY <1>1, Constants DEF Word, lineOf, bankOf
<1> QED BY <1>1, <1>2 DEF CacheCoherent, current, covered

LEMMA AnswersLegalStep ==
    ASSUME NEW x, RStep(x)
    PROVE  AnswersLegal'
<1>1. ASSUME NEW p \in Port, port'[p].st \notin {"IDLE", "KILL_MISS", "KILL_MISS_ACK"}
      PROVE  ref'[port'[p].word] \in port'[p].legal
  BY <1>1, PortNext DEF RStep
<1>2. ASSUME NEW p \in Port, port'[p].st = "MISS_WAIT"
      PROVE  mu'.vld /\ mu'.port = p /\ mu'.word = port'[p].word
  <2>1. /\ port'[p].word = port[p].word
        /\ \/ port[p].st = "MISS_WAIT" /\ ~(load_ack(x) /\ mu.port = p)
           \/ port[p].st = "MISS_REQ" /\ miss_ack(x, p)
    BY <1>2, PortNext, PortMoves DEF RStep
  <2>2. /\ mu'.vld <=> allocates(x) \/ (mu.vld /\ ~load_ack(x))
        /\ allocates(x) => mu'.word = port[miss_port_idx].word /\ mu'.port = miss_port_idx
        /\ ~allocates(x) => mu'.word = mu.word /\ mu'.port = mu.port
    BY MuNext DEF RStep, Step, IInv
  <2>3. CASE port[p].st = "MISS_WAIT" /\ ~(load_ack(x) /\ mu.port = p)
    <3>1. mu.vld /\ mu.port = p /\ mu.word = port[p].word
      BY <2>3 DEF RStep, RInv, AnswersLegal
    <3>2. ~allocates(x)
      BY <3>1, LoadFacts DEF allocates
    <3> QED BY <2>1, <2>2, <2>3, <3>1, <3>2
  <2>4. CASE port[p].st = "MISS_REQ" /\ miss_ack(x, p)
    <3>1. x.ack /\ p = miss_port_idx /\ x.r \in {"store", "load"}
      BY <2>4 DEF miss_ack
    <3>2. x.r # "store"
      BY <3>1, StoreLine, Constants
    <3> QED BY <2>1, <2>2, <3>1, <3>2 DEF allocates
  <2> QED BY <2>1, <2>3, <2>4
<1>3. ASSUME NEW p \in Port, port'[p].st \in Looking, lookup'.hit # {}, NEW b \in Byte
      PROVE  \/ \E e \in Entry : /\ wbuffer'[e].valid # {} /\ b \in wbuffer'[e].valid
                                 /\ wbuffer'[e].wtag = port'[p].word
             \/ \E l \in port'[p].legal : b \in lookup'.data <=> b \in l
  <2>1. PICK w \in Word : w = nextWord(x, p)
    BY PortNext DEF RStep
  <2>2. x.sel = p /\ ~x.cl /\ port'[p].word = w /\ ref[w] \in port'[p].legal
    BY <1>3, <2>1, PortNext, PortMoves DEF RStep, rd_ack, Looking
  <2>3. rd_word(x, p) = w
    BY <2>1, Constants DEF rd_word, nextWord
  <2>4. lookup'.hit = holds(lineOf(w)) /\ lookup'.data = found(w).data
    BY <2>2, <2>3, LookupNext, Constants DEF RStep
  <2>5. current(found(w).data, w, b) \/ covered(w, b)
    BY <1>3, <2>4, FoundGood DEF RStep, RInv, Step
  <2>6. ~leavesByte(x, w, b)
    <3>1. SUFFICES ASSUME evict(x), wbuffer[rptr].wtag = w, b \in wr_data_be
                   PROVE  FALSE
      BY DEF leavesByte
    <3>2. wr_ack(x)
      BY <1>3, <2>4, <3>1, LeavesFacts
    <3> QED BY <2>2, <2>3, <3>1, <3>2 DEF wr_ack, rd_ack, bank_collision
  <2>7. CASE current(found(w).data, w, b)
    BY <2>2, <2>4, <2>7 DEF current
  <2>8. CASE covered(w, b)
    <3>1. covered(w, b)'
      BY <2>6, <2>8, KeepsCovered DEF RStep
    <3> QED BY <2>2, <3>1 DEF covered, holding, validEntries
  <2> QED BY <2>5, <2>7, <2>8
<1> QED BY <1>1, <1>2, <1>3 DEF AnswersLegal, covered, holding, validEntries

-----------------------------------------------------------------------------
(* The ways hold what they should.                                         *)

\* A way that is not filled changes in the bytes that leave the write buffer.
LEMMA WayData ==
    ASSUME NEW x, RStep(x), NEW y \in Way, y \notin x.we, NEW o \in Off, NEW b
    PROVE  b \in ways'[y].data[o] <=>
             IF y \in holds(ways[y].line) /\ leavesByte(x, <<ways[y].line, o>>, b)
             THEN b \in wbuffer[rptr].data ELSE b \in ways[y].data[o]
<1> DEFINE v == wbuffer[rptr].wtag
           d == Merge(ways[y].data[bankOf(v)], wr_data_be, wbuffer[rptr].data)
<1>0. ways[y] \in WayRec
  BY DEF RStep, Step, IInv, Types, WayRec
<1>1. ways'[y] = IF wr_ack(x) /\ y \in wbuffer[rptr].hit
                 THEN [ways[y] EXCEPT !.data[bankOf(v)] = Merge(@, wr_data_be, wbuffer[rptr].data)]
                 ELSE ways[y]
  BY CycleMemories, Zenon DEF RStep, Step, ways_next
<1>2. ways[y].data \in [Off -> Data]
  BY <1>0 DEF WayRec
<1>3. ways'[y].data = IF wr_ack(x) /\ y \in wbuffer[rptr].hit
                      THEN [ways[y].data EXCEPT ![bankOf(v)] = d] ELSE ways[y].data
  BY <1>0, <1>1 DEF WayRec
<1>4. CASE wr_ack(x) /\ y \in wbuffer[rptr].hit
  <2>1. evict(x)
    BY <1>4 DEF wr_ack, wr_req, evict
  <2>2. y \in holds(lineOf(v)) /\ v \in Word
    BY <1>4, <2>1, LeavesFacts
  <2>3. ways[y].vld /\ ways[y].line = lineOf(v) /\ y \in holds(ways[y].line)
    BY <2>2 DEF holds
  <2>4. v = <<ways[y].line, o>> <=> o = bankOf(v)
    BY <2>2, <2>3 DEF lineOf, bankOf, Word
  <2>5. b \in d <=> IF b \in wr_data_be THEN b \in wbuffer[rptr].data ELSE b \in ways[y].data[bankOf(v)]
    BY DEF Merge
  <2>6. leavesByte(x, <<ways[y].line, o>>, b) <=> o = bankOf(v) /\ b \in wr_data_be
    BY <2>1, <2>4 DEF leavesByte
  <2>7. ways'[y].data[o] = IF o = bankOf(v) THEN d ELSE ways[y].data[o]
    BY <1>2, <1>3, <1>4
  <2> HIDE DEF d, v
  <2> QED BY <2>3, <2>5, <2>6, <2>7
<1>5. CASE ~(wr_ack(x) /\ y \in wbuffer[rptr].hit)
  <2>1. ASSUME y \in holds(ways[y].line), leavesByte(x, <<ways[y].line, o>>, b)
        PROVE  FALSE
    <3>1. evict(x) /\ v = <<ways[y].line, o>> /\ b \in wr_data_be
      BY <2>1 DEF leavesByte
    <3>2. y \in wbuffer[rptr].hit
      BY <2>1, <3>1, LeavesFacts DEF lineOf
    <3>3. wr_ack(x)
      BY <3>1, <3>2, LeavesFacts
    <3> QED BY <1>5, <3>2, <3>3
  <2> QED BY <1>3, <1>5, <2>1
<1> QED BY <1>4, <1>5

LEMMA CacheCoherentStep ==
    ASSUME NEW x, RStep(x)
    PROVE  CacheCoherent'
<1>1. ASSUME NEW y \in Way, NEW o \in Off, NEW b \in Byte, ways'[y].vld
      PROVE  \/ b \in ways'[y].data[o] <=> b \in ref'[<<ways'[y].line, o>>]
             \/ \E e \in Entry : /\ wbuffer'[e].valid # {} /\ b \in wbuffer'[e].valid
                                 /\ wbuffer'[e].wtag = <<ways'[y].line, o>>
  <2>0. /\ y \in x.we /\ load_ack(x) =>
             ways'[y] = [vld |-> TRUE, line |-> lineOf(mu.word), data |-> read.data]
        /\ y \in x.we /\ ~load_ack(x) => ~ways'[y].vld
        /\ y \notin x.we => ways'[y].vld = ways[y].vld /\ ways'[y].line = ways[y].line
    BY WaysNext DEF RStep, Step, IInv
  <2>1. CASE y \in x.we
    <3>1. load_ack(x) /\ mu.vld /\ read.st = "done"
      BY <1>1, <2>0, <2>1, HoldsKept DEF RStep
    <3>2. PICK w \in Word : w = <<lineOf(mu.word), o>>
      <4>1. mu.word \in Word
        BY DEF RStep, Step, IInv, Types
      <4> QED BY <4>1, Constants DEF Word
    <3>3. current(read.data[o], w, b) \/ covered(w, b)
      BY <3>1, <3>2 DEF RStep, RInv, ReadCurrent
    <3>4. ~leavesByte(x, w, b)
      <4>1. lineOf(w) = lineOf(mu.word)
        BY <3>2 DEF lineOf
      <4> QED BY <3>1, <4>1, LeavesFacts DEF leavesByte, RStep, RInv, ReadAlone
    <3>5. (b \in read.data[o] <=> b \in ref'[w]) \/ covered(w, b)'
      BY <3>3, <3>4, KeepsGood DEF RStep
    <3>6. ways'[y].data = read.data /\ <<ways'[y].line, o>> = w
      BY <2>0, <2>1, <3>1, <3>2
    <3> QED BY <3>5, <3>6 DEF covered, holding, validEntries
  <2>2. CASE y \notin x.we
    <3>1. ways[y].vld /\ ways'[y].line = ways[y].line /\ y \in holds(ways[y].line)
      BY <1>1, <2>0, <2>2 DEF holds
    <3>2. PICK w \in Word : w = <<ways[y].line, o>>
      BY DEF RStep, Step, IInv, Types, Word
    <3>3. current(ways[y].data[o], w, b) \/ covered(w, b)
      BY <3>1, <3>2 DEF RStep, RInv, CacheCoherent, current, covered
    <3>4. b \in ways'[y].data[o] <=> IF leavesByte(x, w, b) THEN b \in wbuffer[rptr].data ELSE b \in ways[y].data[o]
      BY <2>2, <3>1, <3>2, WayData
    <3>5. (b \in ways'[y].data[o] <=> b \in ref'[w]) \/ covered(w, b)'
      <4>1. CASE leavesByte(x, w, b)
        <5>1. current(wbuffer[rptr].data, w, b)
          BY <4>1, LeavesFacts DEF leavesByte
        <5>2. (b \in wbuffer[rptr].data <=> b \in ref'[w]) \/ covered(w, b)'
          BY <5>1, KeepsCurrent DEF RStep
        <5> QED BY <3>4, <4>1, <5>2
      <4>2. CASE ~leavesByte(x, w, b)
        <5>1. (b \in ways[y].data[o] <=> b \in ref'[w]) \/ covered(w, b)'
          BY <3>3, <4>2, KeepsGood DEF RStep
        <5> QED BY <3>4, <4>2, <5>1
      <4> QED BY <4>1, <4>2
    <3> QED BY <3>1, <3>2, <3>5 DEF covered, holding, validEntries
  <2> QED BY <2>1, <2>2
<1>2. ASSUME NEW y \in Way, NEW z \in Way, y # z, ways'[y].vld, ways'[z].vld
      PROVE  ways'[y].line # ways'[z].line
  <2>0. \A u \in {y, z} :
          /\ u \in x.we /\ load_ack(x) => ways'[u].line = lineOf(mu.word)
          /\ u \in x.we /\ ~load_ack(x) => ~ways'[u].vld
          /\ u \notin x.we => ways'[u].vld = ways[u].vld /\ ways'[u].line = ways[u].line
    BY WaysNext DEF RStep, Step, IInv
  <2>1. ~flush_en
    <3>1. SUFFICES ASSUME flush_en PROVE FALSE
      OBVIOUS
    <3>2. ~mu.vld
      BY <3>1 DEF flush_en, RStep, RInv, ReadAlone
    <3> QED BY <1>2, <2>0, <3>1, <3>2, HoldsKept DEF RStep
  <2>2. CASE y \notin x.we /\ z \notin x.we
    BY <1>2, <2>0, <2>1, <2>2 DEF RStep, RInv, CacheCoherent, flush_en
  <2>3. CASE y \in x.we \/ z \in x.we
    <3>1. load_ack(x) /\ x.resp = "load" /\ mu.vld /\ x.we = wr_cl_we(x)
      BY <1>2, <2>0, <2>3, HoldsKept, InputFacts DEF RStep, Step, IInv
    <3>2. ~mu.nc /\ x.we = {mu.way}
      BY <2>1, <2>3, <3>1 DEF wr_cl_we
    <3>3. holds(lineOf(mu.word)) = {}
      BY <3>1, <3>2 DEF RStep, RInv, MissesMiss
    <3>4. \A u \in Way : ways[u].vld => ways[u].line # lineOf(mu.word)
      BY <3>3 DEF holds
    <3> QED BY <1>2, <2>0, <2>3, <3>1, <3>2, <3>4
  <2> QED BY <2>2, <2>3
<1> QED BY <1>1, <1>2 DEF CacheCoherent, holding, validEntries

-----------------------------------------------------------------------------
(* The answers.                                                            *)

\* The write buffer gives a byte it holds the value of the last store to it.
LEMMA OverlayByte ==
    ASSUME IInv, NEW w, NEW b, NEW d
    PROVE  b \in overlay(w, d) <=> IF covered(w, b) THEN b \in ref[w] ELSE b \in d
<1>1. CASE holding(w) = {}
  BY <1>1 DEF overlay, covered
<1>2. CASE holding(w) # {}
  <2>1. holding(w) \subseteq Nat
    BY CacheAssumption DEF holding, validEntries, Entry
  <2>2. PICK e \in holding(w) : e = Min(holding(w))
    BY <1>2, <2>1, MinMember
  <2>3. e \in Entry /\ wbuffer[e].wtag = w /\ wbuffer[e].valid # {}
    BY <2>2 DEF holding, validEntries
  <2>4. \A f \in holding(w) : f = e
    BY <2>2 DEF IInv, TxConsistent, holding
  <2>5. covered(w, b) <=> b \in wbuffer[e].valid
    BY <2>2, <2>4 DEF covered
  <2>6. b \in wbuffer[e].valid => (b \in wbuffer[e].data <=> b \in ref[w])
    BY <2>3 DEF IInv, Values, current
  <2>7. overlay(w, d) = Merge(d, wbuffer[e].valid, wbuffer[e].data)
    BY <1>2, <2>2 DEF overlay
  <2> QED BY <2>5, <2>6, <2>7 DEF Merge
<1> QED BY <1>1, <1>2

\* Every answer is legal.
LEMMA AnswerLegal ==
    ASSUME NEW x, RStep(x), NEW p \in Port, answers(x, p)
    PROVE  IsLegal(rdata(p), port[p].legal)
<1>0. SUFFICES ASSUME NEW b \in Byte PROVE \E l \in port[p].legal : b \in rdata(p) <=> b \in l
  BY DEF IsLegal
<1> DEFINE w == port[p].word
<1>1. \/ port[p].st \in Looking /\ event(x, p) \in {"hit", "hit_ack"}
      \/ port[p].st = "MISS_WAIT" /\ event(x, p) = "miss_rtrn"
  BY DEF answers, ctrl_rvalid, looksUp, Looking
<1>2. ref[w] \in port[p].legal
  BY <1>1 DEF RStep, RInv, AnswersLegal, Looking
<1>3. CASE port[p].st \in Looking /\ event(x, p) \in {"hit", "hit_ack"}
  <2>1. lookup.hit # {}
    BY <1>3 DEF event, Looking
  <2>2. covered(w, b) \/ \E l \in port[p].legal : b \in lookup.data <=> b \in l
    BY <1>3, <2>1 DEF RStep, RInv, AnswersLegal
  <2>3. rdata(p) = overlay(w, lookup.data)
    BY <1>3 DEF rdata, Looking
  <2>4. b \in overlay(w, lookup.data) <=> IF covered(w, b) THEN b \in ref[w] ELSE b \in lookup.data
    BY OverlayByte DEF RStep, Step
  <2> HIDE DEF w
  <2> QED BY <1>2, <2>2, <2>3, <2>4
<1>4. CASE port[p].st = "MISS_WAIT" /\ event(x, p) = "miss_rtrn"
  <2>1. load_ack(x) /\ mu.word = w /\ w \in Word
    BY <1>4 DEF event, RStep, RInv, AnswersLegal, Step, IInv, Types
  <2>2. mu.vld /\ read.st = "done"
    BY <2>1, HoldsKept DEF RStep
  <2>3. <<lineOf(w), bankOf(w)>> = w /\ bankOf(w) \in Off
    BY <2>1, Constants DEF Word, lineOf, bankOf
  <2>4. current(read.data[bankOf(w)], w, b) \/ covered(w, b)
    BY <2>1, <2>2, <2>3 DEF RStep, RInv, ReadCurrent
  <2>5. rdata(p) = overlay(w, read.data[bankOf(w)])
    BY <1>4 DEF rdata
  <2>6. b \in overlay(w, read.data[bankOf(w)]) <=>
          IF covered(w, b) THEN b \in ref[w] ELSE b \in read.data[bankOf(w)]
    BY OverlayByte DEF RStep, Step
  <2> HIDE DEF w
  <2> QED BY <1>2, <2>4, <2>5, <2>6 DEF current
<1> QED BY <1>1, <1>3, <1>4

LEMMA LoadSeesLatestStep ==
    ASSUME NEW x, RStep(x)
    PROVE  LoadSeesLatest'
<1>1. stale' = (stale \/ \E p \in Port : answers(x, p) /\ ~IsLegal(rdata(p), port[p].legal))
  BY CycleRegisters DEF RStep, Step
<1>2. ~stale
  BY DEF RStep, RInv, LoadSeesLatest
<1> QED BY <1>1, <1>2, AnswerLegal DEF LoadSeesLatest

-----------------------------------------------------------------------------
(* The steps of the memory.                                                *)

readPath == <<wbuffer, tx, lookup, check, wr_cl_q, ways, mu, port, ref, stale>>

LEMMA ReadPathKept ==
    ASSUME RInv, UNCHANGED readPath
    PROVE  /\ ReadAlone' /\ MissesMiss' /\ LookupsRight' /\ AnswersLegal'
           /\ CacheCoherent' /\ LoadSeesLatest'
<1>1. ReadAlone'
  BY DEF RInv, ReadAlone, readPath, onWay
<1>2. MissesMiss'
  BY DEF RInv, MissesMiss, readPath, holds
<1>3. LookupsRight'
  BY DEF RInv, LookupsRight, readPath, holds
<1>4. AnswersLegal'
  BY DEF RInv, AnswersLegal, readPath, covered, holding, validEntries
<1>5. CacheCoherent' /\ LoadSeesLatest'
  BY DEF RInv, CacheCoherent, LoadSeesLatest, readPath, holding, validEntries
<1> QED BY <1>1, <1>2, <1>3, <1>4, <1>5

LEMMA ReadCurrentKept ==
    ASSUME RInv, UNCHANGED <<wbuffer, mu, read, ref>>
    PROVE  ReadCurrent'
BY DEF RInv, ReadCurrent, current, covered, holding, validEntries

LEMMA RPerformReadStep ==
    ASSUME IInv, RInv, PerformRead
    PROVE  RInv'
<1>1. UNCHANGED readPath /\ UNCHANGED <<wbuffer, mu, ref>>
  BY DEF PerformRead, readPath
<1>2. ReadCurrent'
  <2>1. ASSUME NEW o \in Off, NEW b \in Byte
        PROVE  \/ b \in read'.data[o] <=> b \in ref[<<lineOf(mu.word), o>>]
               \/ covered(<<lineOf(mu.word), o>>, b)
    <3>1. PICK w \in Word : w = <<lineOf(mu.word), o>>
      <4>1. mu.word \in Word
        BY DEF IInv, Types
      <4> QED BY <4>1, Constants DEF Word
    <3>2. read'.data[o] = mem[w]
      BY <3>1 DEF PerformRead
    <3> QED BY <3>1, <3>2 DEF IInv, StoreReachesMemory, covered
  <2> QED BY <1>1, <2>1 DEF ReadCurrent, current, covered, holding, validEntries
<1> QED BY <1>1, <1>2, ReadPathKept DEF RInv

LEMMA RPerformAmoStep ==
    ASSUME IInv, RInv, PerformAmo
    PROVE  RInv'
<1>1. /\ UNCHANGED <<wbuffer, tx, lookup, check, wr_cl_q, ways, mu, read, stale>>
      /\ amo.st = "issued" /\ amo.word \in Word
      /\ ref' = [ref EXCEPT ![amo.word] = mem'[amo.word]] /\ ref \in [Word -> Data]
  BY DEF PerformAmo, IInv, Types
<1>2. /\ \A e \in Entry : wbuffer[e].valid = {}
      /\ ~mu.vld /\ \A y \in Way : ~ways[y].vld
  BY <1>1, AmoFacts DEF IInv, AmoAlone
<1>3. ASSUME NEW p \in Port
      PROVE  /\ port'[p].st = port[p].st /\ port'[p].word = port[p].word
             /\ port[p].legal \subseteq port'[p].legal
             /\ port[p].legal # {} /\ port[p].word = amo.word => mem'[amo.word] \in port'[p].legal
  <2>1. port[p] \in PortRec
    BY DEF IInv, Types, PortRec
  <2>2. port'[p] = IF port[p].legal = {} \/ port[p].word # amo.word THEN port[p]
                   ELSE [port[p] EXCEPT !.legal = @ \union {mem'[amo.word]}]
    BY Zenon DEF PerformAmo
  <2> QED BY <2>1, <2>2 DEF PortRec
<1>4. ReadAlone'
  <2>1. mu.state = "LOAD_WAIT" => mu.lock \in Port
    BY DEF IInv, LoadWaits
  <2> QED BY <1>1, <1>3, <2>1 DEF RInv, ReadAlone, onWay
<1>5. ReadCurrent'
  BY <1>1, <1>2 DEF ReadCurrent
<1>6. MissesMiss'
  BY <1>1, <1>3 DEF RInv, MissesMiss, holds
<1>7. LookupsRight'
  BY <1>1, <1>3 DEF RInv, LookupsRight, holds
<1>8. ASSUME NEW p \in Port, port'[p].st \notin {"IDLE", "KILL_MISS", "KILL_MISS_ACK"}
      PROVE  ref'[port'[p].word] \in port'[p].legal
  <2>1. ref[port[p].word] \in port[p].legal /\ port[p].word \in Word
    BY <1>3, <1>8 DEF RInv, AnswersLegal, IInv, Types
  <2>2. ref'[port[p].word] = IF port[p].word = amo.word THEN mem'[amo.word] ELSE ref[port[p].word]
    BY <1>1, <2>1
  <2> QED BY <1>3, <2>1, <2>2
<1>9. AnswersLegal'
  <2>1. ASSUME NEW p \in Port, port'[p].st = "MISS_WAIT"
        PROVE  mu'.vld /\ mu'.port = p /\ mu'.word = port'[p].word
    BY <1>1, <1>3, <2>1 DEF RInv, AnswersLegal
  <2>2. ASSUME NEW p \in Port, port'[p].st \in Looking, lookup'.hit # {}, NEW b \in Byte
        PROVE  \E l \in port'[p].legal : b \in lookup'.data <=> b \in l
    <3>1. ~covered(port[p].word, b)
      BY <1>2 DEF covered, holding, validEntries
    <3>2. \E l \in port[p].legal : b \in lookup.data <=> b \in l
      BY <1>1, <1>3, <2>2, <3>1 DEF RInv, AnswersLegal
    <3> QED BY <1>1, <1>3, <3>2
  <2> QED BY <1>8, <2>1, <2>2 DEF AnswersLegal
<1>10. CacheCoherent' /\ LoadSeesLatest'
  BY <1>1, <1>2 DEF RInv, CacheCoherent, LoadSeesLatest
<1> QED BY <1>4, <1>5, <1>6, <1>7, <1>9, <1>10 DEF RInv

-----------------------------------------------------------------------------
(* The invariant of the read path, and what follows from it.               *)

LEMMA InitRInv ==
    ASSUME Init
    PROVE  RInv
<1>1. ReadAlone /\ ReadCurrent /\ LoadSeesLatest
  BY DEF Init, ReadAlone, ReadCurrent, LoadSeesLatest
<1>2. MissesMiss
  BY DEF Init, MissesMiss, Missing
<1>3. LookupsRight
  <2>1. ~lookup.vld /\ ~check.en /\ (\A e \in Entry : wbuffer[e].valid = {}) /\ \A p \in Port : port[p].st = "IDLE"
    BY DEF Init, NoLookup, NoEntry
  <2> QED BY <2>1 DEF LookupsRight, Looking
<1>4. AnswersLegal
  <2>1. \A p \in Port : port[p].st = "IDLE"
    BY DEF Init
  <2> QED BY <2>1 DEF AnswersLegal, Looking
<1>5. CacheCoherent
  <2>1. mu.state = "FLUSH"
    BY DEF Init
  <2>2. ASSUME NEW y \in Way, NEW o \in Off, NEW b \in Byte
        PROVE  b \in ways[y].data[o] <=> b \in ref[<<ways[y].line, o>>]
    <3>1. ways[y].line = lineOf(NoWord) /\ ways[y].data = [q \in Off |-> NoData]
      BY DEF Init
    <3>2. <<ways[y].line, o>> \in Word
      BY <3>1, Constants DEF Word
    <3>3. ref[<<ways[y].line, o>>] = NoData
      BY <3>2 DEF Init
    <3> QED BY <3>1, <3>3
  <2> QED BY <2>1, <2>2 DEF CacheCoherent
<1> QED BY <1>1, <1>2, <1>3, <1>4, <1>5 DEF RInv

\* The invariant of the read path, in every reachable state.
THEOREM ReadInvariant == Spec => []RInv
<1>1. Init => RInv
  BY InitRInv
<1>2. IInv /\ RInv /\ [Next]_vars => RInv'
  <2> SUFFICES ASSUME IInv, RInv, [Next]_vars PROVE RInv'
    OBVIOUS
  <2>1. ASSUME NEW i \in Env, NEW c \in choices(i), NEW x \in {signals(i, c)}, Cycle(x) PROVE RInv'
    <3>1. RStep(x)
      BY <2>1 DEF RStep, Step, CycleIn
    <3> QED BY <3>1, ReadAloneStep, ReadCurrentStep, MissesMissStep, LookupsRightStep, AnswersLegalStep,
               CacheCoherentStep, LoadSeesLatestStep DEF RInv
  <2>2. ASSUME NEW k \in DOMAIN writes, PerformWrite(k) PROVE RInv'
    <3>1. UNCHANGED readPath /\ UNCHANGED <<wbuffer, mu, read, ref>>
      BY <2>2 DEF PerformWrite, readPath
    <3> QED BY <3>1, ReadPathKept, ReadCurrentKept DEF RInv
  <2>3. CASE PerformRead
    BY <2>3, RPerformReadStep
  <2>4. CASE PerformAmo
    BY <2>4, RPerformAmoStep
  <2>5. CASE UNCHANGED vars
    <3>1. UNCHANGED readPath /\ UNCHANGED <<wbuffer, mu, read, ref>>
      BY <2>5 DEF vars, readPath
    <3> QED BY <3>1, ReadPathKept, ReadCurrentKept DEF RInv
  <2> QED BY <2>1, <2>2, <2>3, <2>4, <2>5 DEF Next
<1> QED BY <1>1, <1>2, Invariant, PTL DEF Spec

\* A cached byte that differs from the last store is covered by the write
\* buffer, and a line is in one way only, whatever the size of the cache: the
\* assertions tag_write_duplicate and hit_hot1 never fail.
THEOREM CoherentCache == Spec => []CacheCoherent
BY ReadInvariant, PTL DEF RInv

\* No read port ever returns a byte that was overwritten before its read was
\* granted, whether the byte comes from the cache, from memory or from the
\* write buffer.
THEOREM LoadsSeeLatest == Spec => []LoadSeesLatest
BY ReadInvariant, PTL DEF RInv
=============================================================================
