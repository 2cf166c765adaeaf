-------------------------- MODULE DataCache_proofs --------------------------
(***************************************************************************)
(* Proofs about the write path of the data cache: write buffer,            *)
(* transactions, memory, atomics and non-idempotent stores.                *)
(***************************************************************************)
EXTENDS DataCache, FiniteSetTheorems, SequenceTheorems, WellFoundedInduction, TLAPS

MuState == {"IDLE", "DRAIN", "FLUSH", "STORE_WAIT", "LOAD_WAIT", "AMO", "AMO_WAIT"}

Write == [id : Tx, word : Word, done : BOOLEAN, be : SUBSET Byte, data : Data]

\* The values of the registers, of the requests on their way and of memory.
Types ==
    /\ work \in Workload
    /\ wbuffer \in [Entry -> [valid : SUBSET Byte, dirty : SUBSET Byte, txblock : SUBSET Byte,
                              data : Data, wtag : Word, checked : BOOLEAN, hit : SUBSET Way]]
    /\ ni_pending \subseteq Entry
    /\ tx \in [Tx -> [vld : BOOLEAN, ptr : Entry, be : SUBSET Byte]]
    /\ rtrn \in Seq(Tx)
    /\ writes \in Seq(Write)
    /\ lookup \in [vld : BOOLEAN, who : 0 .. 2, ptr : Entry, hit : SUBSET Way, data : Data]
    /\ check \in [en : BOOLEAN, ptr : Entry, hit : SUBSET Way]
    /\ ways \in [Way -> [vld : BOOLEAN, line : Line, data : [Off -> Data]]]
    /\ mu \in [state : MuState, vld : BOOLEAN, vld1 : BOOLEAN, word : Word, nc : BOOLEAN, way : Way,
               port : 0 .. 2, lock : 0 .. 2, ptr : Entry, coll : SUBSET Port, en : BOOLEAN]
    /\ port \in [Port -> [st : CtrlState, word : Word, legal : SUBSET Data]]
    /\ read \in [st : {"none", "sent", "done"}, data : [Off -> Data]]
    /\ amo \in [st : {"none", "req", "sent", "issued", "done"}, word : Word]
    /\ mem \in [Word -> Data] /\ ref \in [Word -> Data]
    /\ owed \in Int

\* A transaction carries something, and it is either on its way to memory or
\* acknowledged and waiting to leave, once.
Flights ==
    /\ \A t \in Tx : tx[t].vld =>
         /\ tx[t].be # {}
         /\ (\E k \in DOMAIN writes : writes[k].id = t) \/ (\E k \in DOMAIN rtrn : rtrn[k] = t)
    /\ \A k \in DOMAIN writes :
         LET t == writes[k].id
         IN  tx[t].vld /\ tx[t].be = writes[k].be /\ wbuffer[tx[t].ptr].wtag = writes[k].word
    /\ \A j, k \in DOMAIN writes : j # k => writes[j].id # writes[k].id
    /\ \A j, k \in DOMAIN rtrn : j # k => rtrn[j] # rtrn[k]
    /\ \A j \in DOMAIN writes, k \in DOMAIN rtrn : writes[j].id # rtrn[k]

\* The bytes that transaction t carries and that were not written again.
latest(t) == tx[t].be \ wbuffer[tx[t].ptr].dirty

current(d, w, b) == b \in d <=> b \in ref[w]

\* Memory has performed the write of transaction t.
performed(t) ==
    \/ \E k \in DOMAIN writes : writes[k].id = t /\ writes[k].done
    \/ \E k \in DOMAIN rtrn : rtrn[k] = t

\* The write buffer holds the current values of its bytes, a write that is sent
\* those of the bytes that were not written again, and once it is performed
\* memory has them.
Values ==
    /\ \A e \in Entry : \A b \in wbuffer[e].valid : current(wbuffer[e].data, wbuffer[e].wtag, b)
    /\ \A k \in DOMAIN writes : \A b \in latest(writes[k].id) : current(writes[k].data, writes[k].word, b)
    /\ \A t \in Tx : tx[t].vld /\ performed(t) =>
         LET w == wbuffer[tx[t].ptr].wtag IN \A b \in latest(t) : current(mem[w], w, b)

\* A store that waits for the adapter has a dirty entry and a free transaction.
StoreWaits == mu.state = "STORE_WAIT" => mu.ptr \in dirty /\ freeTx # {}

\* A read that waits for the adapter is one of a read port.
LoadWaits == mu.state = "LOAD_WAIT" => mu.lock \in Port

\* An atomic is sent when the buffers are empty, and keeps them so.
AmoAlone ==
    /\ mu.state \in {"AMO", "AMO_WAIT"} => amo.st # "none" /\ empty /\ ~mu.vld
    /\ amo.st \in {"sent", "issued", "done"} => mu.state = "AMO_WAIT"
    /\ amo.st = "issued" => \A y \in Way : ~ways[y].vld

\* Entry e holds a non-idempotent store that memory has not performed.
unperformed(e) ==
    \/ wbuffer[e].dirty # {}
    \/ \E k \in DOMAIN writes : ~writes[k].done /\ tx[writes[k].id].ptr = e

\* At most one entry is non-idempotent, and it is sent whole, in one transaction.
NiAlone ==
    /\ \A e \in Entry : e \in ni_pending <=> wbuffer[e].valid # {} /\ lineOf(wbuffer[e].wtag) \in NiLine
    /\ \A e, f \in ni_pending : e = f
    /\ \A e \in ni_pending : wbuffer[e].dirty # {} => wbuffer[e].txblock = {} /\ aligned(wbuffer[e].dirty)
    /\ \A t, u \in Tx : tx[t].vld /\ tx[u].vld /\ tx[t].ptr = tx[u].ptr /\ tx[t].ptr \in ni_pending => t = u
    /\ owed = IF \E e \in ni_pending : unperformed(e) THEN 1 ELSE 0

-----------------------------------------------------------------------------
(* What a cycle does, entry by entry.                                      *)

\* The smallest member of a non-empty set of numbers, which arbiters and
\* leading zero counters pick.
LEMMA MinMember ==
    ASSUME NEW S, S \subseteq Nat, S # {}
    PROVE  Min(S) \in S
<1> DEFINE R == {p \in Nat \X Nat : p[1] < p[2]}
<1>1. IsWellFoundedOn(R, Nat)
  BY NatLessThanWellFounded, Zenon DEF OpToRel
<1>2. PICK n \in S : \A m \in S : ~(<<m, n>> \in R)
  <2> HIDE DEF R
  <2> QED BY <1>1, WFMin
<1>3. ASSUME NEW m \in S PROVE n <= m
  <2>1. <<m, n>> \in Nat \X Nat /\ <<m, n>>[1] = m /\ <<m, n>>[2] = n
    OBVIOUS
  <2>2. ~(<<m, n>>[1] < <<m, n>>[2])
    BY <1>2, <2>1
  <2> QED BY <2>1, <2>2
<1> QED BY <1>3 DEF Min

EntryRec == [valid : SUBSET Byte, dirty : SUBSET Byte, txblock : SUBSET Byte,
             data : Data, wtag : Word, checked : BOOLEAN, hit : SUBSET Way]

sends(x) == x.r = "store" /\ x.ack

\* The bytes of entry e that a cycle with the signals x gives back to the
\* entry, drops, sends and stores.
back(x, e)    == IF evict(x) /\ e = rptr THEN tx[rid].be ELSE {}
dropped(x, e) == back(x, e) \ wbuffer[e].dirty
going(x, e)   == IF sends(x) /\ e = x.dptr THEN tx_be(e) ELSE {}
stored(x)     == CHOOSE s \in x.st : TRUE
target(x, e)  == accepted(x) # {} /\ e = wr_ptr(stored(x))
coming(x, e)  == IF target(x, e) THEN stored(x).be ELSE {}

\* A transaction carries bytes that are dirty and not yet on their way.
LEMMA TxBytes ==
    ASSUME Types, NEW e \in dirty
    PROVE  /\ tx_be(e) # {} /\ tx_be(e) \subseteq wbuffer[e].dirty \intersect wbuffer[e].valid
           /\ tx_be(e) \subseteq Byte
           /\ e \in Entry /\ wbuffer[e].txblock = {}
           /\ aligned(wbuffer[e].dirty \intersect wbuffer[e].valid)
                => tx_be(e) = wbuffer[e].dirty \intersect wbuffer[e].valid
<1>1. e \in Entry /\ bdirty(e) # {}
  BY DEF dirty
<1>2. wbuffer[e].txblock = {} /\ bdirty(e) = wbuffer[e].dirty \intersect wbuffer[e].valid
  BY <1>1 DEF bdirty
<1>3. bdirty(e) \subseteq Byte /\ Byte \subseteq Nat
  <2>1. Byte \subseteq Nat
    BY CacheAssumption
  <2>2. wbuffer[e].dirty \subseteq Byte
    BY <1>1 DEF Types
  <2> QED BY <1>2, <2>1, <2>2
<1>4. Min(bdirty(e)) \in bdirty(e)
  BY <1>1, <1>3, MinMember
<1>5. tx_be(e) \subseteq bdirty(e) /\ tx_be(e) # {}
  BY <1>1, <1>4 DEF tx_be
<1> QED BY <1>1, <1>2, <1>3, <1>5 DEF tx_be

\* The store on the write port, if any.
StoreIn(x) ==
    \/ x.st = {}
    \/ \E s : x.st = {s} /\ s \in [word : Word, be : SUBSET Byte, data : Data]

\* The assignments of p_buffer, in whatever order they are made, add up to this.
LEMMA EntryNext ==
    ASSUME Types, NEW x, Cycle(x), StoreIn(x), sends(x) => x.dptr \in dirty, NEW e \in Entry
    PROVE  /\ wbuffer'[e].valid = (wbuffer[e].valid \ dropped(x, e)) \union coming(x, e)
           /\ wbuffer'[e].dirty = (wbuffer[e].dirty \ going(x, e)) \union coming(x, e)
           /\ wbuffer'[e].txblock = (wbuffer[e].txblock \ back(x, e)) \union going(x, e)
           /\ wbuffer'[e].wtag = IF target(x, e) THEN stored(x).word ELSE wbuffer[e].wtag
           /\ wbuffer'[e].data = IF target(x, e) THEN Merge(wbuffer[e].data, stored(x).be, stored(x).data)
                                 ELSE wbuffer[e].data
           /\ wbuffer' \in [Entry -> EntryRec]
           /\ evicted(x, invalidated(x, checked(wbuffer)))[e].valid = wbuffer[e].valid \ dropped(x, e)
<1> DEFINE same(f, g) ==
             /\ f.valid = g.valid /\ f.dirty = g.dirty /\ f.txblock = g.txblock
             /\ f.wtag = g.wtag /\ f.data = g.data
<1> DEFINE wb0 == checked(wbuffer)
           wb1 == invalidated(x, wb0)
           wb2 == evicted(x, wb1)
           wb3 == sent(x, wb2)
<1>0. wbuffer' = written(x, wb3) /\ wbuffer \in [Entry -> EntryRec]
  BY DEF Cycle, Types, EntryRec
<1>1. wb0 \in [Entry -> EntryRec] /\ \A f \in Entry : same(wb0[f], wbuffer[f])
  <2>1. check.ptr \in Entry /\ check.hit \in SUBSET Way
    BY DEF Types
  <2>2. CASE check.en /\ wbuffer[check.ptr].valid # {}
    <3> DEFINE c == check.ptr
               r == [wbuffer[c] EXCEPT !.checked = TRUE, !.hit = check.hit]
    <3>1. r \in EntryRec /\ same(r, wbuffer[c])
      BY <1>0, <2>1 DEF EntryRec
    <3>2. wb0 = [wbuffer EXCEPT ![c] = r]
      BY <1>0, <2>1, <2>2, Zenon DEF checked
    <3> HIDE DEF r
    <3> QED BY <1>0, <2>1, <3>1, <3>2
  <2>3. CASE ~(check.en /\ wbuffer[check.ptr].valid # {})
    BY <1>0, <2>3 DEF checked
  <2> QED BY <2>2, <2>3
<1>2. wb1 \in [Entry -> EntryRec] /\ \A f \in Entry : same(wb1[f], wbuffer[f])
  <2> HIDE DEF wb0
  <2> DEFINE n(f) == IF inval_hit(x, f) THEN [wb0[f] EXCEPT !.checked = FALSE] ELSE wb0[f]
  <2>1. wb1 = [f \in Entry |-> n(f)]
    BY DEF invalidated
  <2>2. ASSUME NEW f \in Entry PROVE n(f) \in EntryRec /\ same(n(f), wb0[f])
    <3>1. wb0[f] \in EntryRec
      BY <1>1
    <3> QED BY <3>1 DEF EntryRec
  <2> HIDE DEF n
  <2> QED BY <1>1, <2>1, <2>2
<1>3. /\ wb2 \in [Entry -> EntryRec]
      /\ \A f \in Entry : /\ wb2[f].valid = wbuffer[f].valid \ dropped(x, f)
                          /\ wb2[f].dirty = wbuffer[f].dirty
                          /\ wb2[f].txblock = wbuffer[f].txblock \ back(x, f)
                          /\ wb2[f].wtag = wbuffer[f].wtag
                          /\ wb2[f].data = wbuffer[f].data
  <2> HIDE DEF wb1
  <2>1. CASE ~evict(x)
    BY <2>1, <1>2 DEF evicted, back, dropped
  <2>2. CASE evict(x) /\ rptr \in Entry
    <3> DEFINE v1 == wb1[rptr].valid \ acknowledged
               r  == [wb1[rptr] EXCEPT !.txblock = @ \ tx[rid].be, !.valid = v1,
                                       !.checked = @ /\ v1 # {}]
    <3>1. /\ r \in EntryRec /\ r.valid = wbuffer[rptr].valid \ dropped(x, rptr)
          /\ r.txblock = wbuffer[rptr].txblock \ back(x, rptr)
          /\ r.dirty = wbuffer[rptr].dirty /\ r.wtag = wbuffer[rptr].wtag /\ r.data = wbuffer[rptr].data
      <4>1. wb1[rptr] \in EntryRec /\ same(wb1[rptr], wbuffer[rptr])
        BY <2>2, <1>2
      <4>2. acknowledged = dropped(x, rptr) /\ tx[rid].be = back(x, rptr)
        BY <2>2 DEF back, dropped, acknowledged
      <4>3. v1 \in SUBSET Byte /\ wb1[rptr].txblock \ tx[rid].be \in SUBSET Byte
        BY <4>1 DEF EntryRec
      <4>4. (wb1[rptr].checked /\ v1 # {}) \in BOOLEAN
        OBVIOUS
      <4>5. /\ r \in EntryRec /\ r.valid = v1 /\ r.txblock = wb1[rptr].txblock \ tx[rid].be
            /\ r.dirty = wb1[rptr].dirty /\ r.wtag = wb1[rptr].wtag /\ r.data = wb1[rptr].data
        <5> HIDE DEF v1
        <5> QED BY <4>1, <4>3, <4>4 DEF EntryRec
      <4> HIDE DEF r
      <4> QED BY <4>1, <4>2, <4>5
    <3>2. wb2 = [wb1 EXCEPT ![rptr] = r]
      BY <2>2 DEF evicted
    <3> HIDE DEF r
    <3> QED BY <1>2, <2>2, <3>1, <3>2 DEF back, dropped
  <2>3. CASE evict(x) /\ rptr \notin Entry
    <3>1. wb2 = wb1
      BY <2>3, <1>2 DEF evicted
    <3>2. \A f \in Entry : back(x, f) = {} /\ dropped(x, f) = {}
      BY <2>3 DEF back, dropped
    <3> QED BY <1>2, <3>1, <3>2
  <2> QED BY <2>1, <2>2, <2>3
<1>4. /\ wb3 \in [Entry -> EntryRec]
      /\ \A f \in Entry : /\ wb3[f].valid = wbuffer[f].valid \ dropped(x, f)
                          /\ wb3[f].dirty = wbuffer[f].dirty \ going(x, f)
                          /\ wb3[f].txblock = (wbuffer[f].txblock \ back(x, f)) \union going(x, f)
                          /\ wb3[f].wtag = wbuffer[f].wtag
                          /\ wb3[f].data = wbuffer[f].data
  <2> HIDE DEF wb2
  <2>1. CASE ~sends(x)
    BY <2>1, <1>3 DEF sent, sends, going
  <2>2. CASE sends(x)
    <3>1. tx_be(x.dptr) \subseteq Byte /\ x.dptr \in Entry
      BY <2>2, TxBytes
    <3> DEFINE d == x.dptr
               r == [wb2[d] EXCEPT !.dirty = @ \ tx_be(d), !.txblock = @ \union tx_be(d)]
    <3>2. /\ r \in EntryRec /\ r.valid = wb2[d].valid /\ r.dirty = wb2[d].dirty \ tx_be(d)
          /\ r.txblock = wb2[d].txblock \union tx_be(d) /\ r.wtag = wb2[d].wtag /\ r.data = wb2[d].data
      <4>1. wb2[d] \in EntryRec
        BY <3>1, <1>3
      <4>2. wb2[d].dirty \ tx_be(d) \in SUBSET Byte /\ wb2[d].txblock \union tx_be(d) \in SUBSET Byte
        BY <4>1, <3>1 DEF EntryRec
      <4> QED BY <4>1, <4>2 DEF EntryRec
    <3>3. wb3 = [wb2 EXCEPT ![d] = r]
      BY <2>2, <3>1, <1>3, Zenon DEF sent, sends
    <3> HIDE DEF r
    <3> QED BY <2>2, <3>1, <3>2, <3>3, <1>3 DEF going
  <2> QED BY <2>1, <2>2
<1> DEFINE goal == /\ wbuffer'[e].valid = (wbuffer[e].valid \ dropped(x, e)) \union coming(x, e)
                   /\ wbuffer'[e].dirty = (wbuffer[e].dirty \ going(x, e)) \union coming(x, e)
                   /\ wbuffer'[e].txblock = (wbuffer[e].txblock \ back(x, e)) \union going(x, e)
                   /\ wbuffer'[e].wtag = IF target(x, e) THEN stored(x).word ELSE wbuffer[e].wtag
                   /\ wbuffer'[e].data = IF target(x, e) THEN Merge(wbuffer[e].data, stored(x).be, stored(x).data)
                                         ELSE wbuffer[e].data
                   /\ wbuffer' \in [Entry -> EntryRec]
<1>5. ASSUME accepted(x) = {} PROVE goal
  <2> HIDE DEF wb3
  <2> QED BY <1>5, <1>4, <1>0 DEF written, target, coming
<1>6. ASSUME accepted(x) # {} PROVE goal
  <2> HIDE DEF wb3
  <2>1. stored(x) \in [word : Word, be : SUBSET Byte, data : Data]
    BY <1>6 DEF stored, accepted, StoreIn
  <2>2. wbuffer' = [wb3 EXCEPT ![wr_ptr(stored(x))] =
                     [wb3[wr_ptr(stored(x))] EXCEPT !.checked = FALSE, !.wtag = stored(x).word,
                          !.valid = @ \union stored(x).be, !.dirty = @ \union stored(x).be,
                          !.data = Merge(@, stored(x).be, stored(x).data)]]
    BY <1>6, <1>0 DEF written, stored
  <2> DEFINE w == wr_ptr(stored(x))
             r == [wb3[w] EXCEPT !.checked = FALSE, !.wtag = stored(x).word,
                          !.valid = @ \union stored(x).be, !.dirty = @ \union stored(x).be,
                          !.data = Merge(@, stored(x).be, stored(x).data)]
  <2>3. CASE w \in Entry
    <3>1. Merge(wbuffer[w].data, stored(x).be, stored(x).data) \in Data
      BY <2>1, <2>3, <1>0 DEF Merge, Data, EntryRec
    <3>2. /\ r \in EntryRec /\ r.valid = wb3[w].valid \union stored(x).be
          /\ r.dirty = wb3[w].dirty \union stored(x).be /\ r.txblock = wb3[w].txblock
          /\ r.wtag = stored(x).word /\ r.data = Merge(wbuffer[w].data, stored(x).be, stored(x).data)
      <4>1. wb3[w] \in EntryRec /\ wb3[w].data = wbuffer[w].data
        BY <2>3, <1>4
      <4>2. /\ wb3[w].valid \union stored(x).be \in SUBSET Byte
            /\ wb3[w].dirty \union stored(x).be \in SUBSET Byte
            /\ Merge(wb3[w].data, stored(x).be, stored(x).data) \in Data
            /\ stored(x).word \in Word
        BY <4>1, <2>1, <3>1 DEF EntryRec
      <4> HIDE DEF w
      <4> QED BY <4>1, <4>2 DEF EntryRec
    <3>3. wbuffer' = [wb3 EXCEPT ![w] = r]
      BY <2>2
    <3> HIDE DEF r, w
    <3>4. target(x, e) <=> e = w
      BY <1>6 DEF target, w
    <3> QED BY <2>3, <3>2, <3>3, <3>4, <1>4 DEF coming
  <2>4. CASE w \notin Entry
    BY <2>2, <2>4, <1>4 DEF target, coming
  <2> QED BY <2>3, <2>4
<1>7. wb2[e].valid = wbuffer[e].valid \ dropped(x, e)
  BY <1>3
<1> QED BY <1>5, <1>6, <1>7

-----------------------------------------------------------------------------
(* The inputs of a cycle.                                                  *)

CycleIn(x) == \E i \in Env : \E c \in choices(i) : x = signals(i, c)

\* What the ports, the memory and the miss unit put on the wires: a store only
\* while there is no atomic, a write only if something is dirty and a
\* transaction is free.
LEMMA InputFacts ==
    ASSUME Types, StoreWaits, NEW x, CycleIn(x)
    PROVE  /\ x.st # {} => amo.st = "none" /\ \E s \in work.stores : x.st = {storeOf(s)}
           /\ x.amo # {} => amo.st = "none" /\ x.st = {} /\ \E w \in work.amos : x.amo = {w}
           /\ x.resp \in responses
           /\ x.r = mem_data_req(x) /\ x.we = wr_cl_we(x) /\ x.cl = wr_cl_vld(x)
           /\ x.ack \in BOOLEAN /\ (x.r = "none" => ~x.ack)
           /\ x.dptr \in dptrs
           /\ x.r = "store" => x.dptr \in dirty /\ freeTx # {}
<1>1. PICK i \in Env : \E c \in choices(i) : x = signals(i, c)
  BY DEF CycleIn
<1>2. PICK c \in choices(i) : x = signals(i, c)
  BY <1>1
<1>3. /\ i.resp \in responses /\ i.dptr \in dptrs /\ i.st \in storesOffered
      /\ i.amo \in amosOffered(i.st)
  BY DEF Env
<1>4. /\ x.resp = i.resp /\ x.dptr = i.dptr /\ x.st = i.st /\ x.amo = i.amo /\ x.en = i.en
      /\ x.r = mem_data_req(i) /\ x.we = wr_cl_we(i) /\ x.cl = wr_cl_vld(i) /\ x.ack = c.ack
  BY <1>2 DEF signals
<1>5. x.r = mem_data_req(x)
  BY <1>4 DEF mem_data_req, enabling, mshr_rdwr_collision
<1>6. x.we = wr_cl_we(x) /\ x.cl = wr_cl_vld(x)
  BY <1>4 DEF wr_cl_we, wr_cl_vld, load_ack
<1>7. x.ack \in BOOLEAN /\ (x.r = "none" => ~x.ack)
  BY <1>4 DEF choices
<1>8. x.st # {} => amo.st = "none" /\ \E s \in work.stores : x.st = {storeOf(s)}
  BY <1>3, <1>4 DEF storesOffered
<1>9. x.amo # {} => amo.st = "none" /\ x.st = {} /\ \E w \in work.amos : x.amo = {w}
  BY <1>3, <1>4 DEF amosOffered
<1>10. ASSUME x.r = "store" PROVE x.dptr \in dirty /\ freeTx # {}
  <2>1. CASE mu.state = "STORE_WAIT"
    BY <2>1, <1>3, <1>4 DEF StoreWaits, dptrs
  <2>2. CASE mu.state # "STORE_WAIT"
    <3>1. W \in miss_req
      <4>1. CASE mu.state = "IDLE"
        <5>1. miss_req_masked # {} /\ miss_port_idx = W
          BY <1>10, <1>5, <4>1 DEF mem_data_req
        <5>2. miss_req_masked \subseteq miss_req
          BY <4>1 DEF miss_req_masked, lock_reqs
        <5>3. miss_req \subseteq Nat
          <6>1. Port \subseteq Nat /\ W \in Nat
            BY CacheAssumption DEF W
          <6> QED BY <6>1 DEF miss_req
        <5> QED BY <5>1, <5>2, <5>3, MinMember DEF miss_port_idx
      <4>2. CASE mu.state = "DRAIN"
        <5>1. miss_req_masked # {}
          BY <1>10, <1>5, <4>2 DEF mem_data_req
        <5> QED BY <5>1, <4>2 DEF miss_req_masked, lock_reqs, mask_reads
      <4>3. CASE mu.state \notin {"IDLE", "DRAIN", "STORE_WAIT"}
        BY <1>10, <1>5, <4>3 DEF mem_data_req
      <4> QED BY <2>2, <4>1, <4>2, <4>3
    <3>2. dirty # {} /\ freeTx # {}
      BY <3>1, CacheAssumption DEF miss_req, W
    <3> QED BY <3>2, <2>2, <1>3, <1>4 DEF dptrs
  <2> QED BY <2>1, <2>2
<1> QED BY <1>3, <1>4, <1>5, <1>6, <1>7, <1>8, <1>9, <1>10

-----------------------------------------------------------------------------
(* What a cycle does to transactions and to the queues between write       *)
(* buffer and memory.                                                      *)

IInv ==
    /\ Types /\ TxConsistent /\ Flights /\ Values /\ StoreReachesMemory
    /\ StoreWaits /\ LoadWaits /\ AmoAlone /\ NiAlone

Step(x) == IInv /\ CycleIn(x) /\ Cycle(x)

acks(x)   == IF store_ack(x) THEN 1 ELSE 0
leaves(x) == IF evict(x) THEN 1 ELSE 0
adds(x)   == IF sends(x) THEN 1 ELSE 0
newTx     == Min(freeTx)

newWrite(x) == [id |-> newTx, word |-> wbuffer[x.dptr].wtag, done |-> FALSE,
                be |-> tx_be(x.dptr), data |-> wbuffer[x.dptr].data]

\* The transaction that leaves is one that memory has acknowledged.
LEMMA EvictFacts ==
    ASSUME IInv, NEW x, evict(x)
    PROVE  /\ rtrn # <<>> /\ rid = rtrn[1] /\ rid \in Tx /\ 1 \in DOMAIN rtrn
           /\ tx[rid].vld /\ rptr \in Entry
           /\ tx[rid].be # {} /\ tx[rid].be \subseteq wbuffer[rptr].txblock
           /\ tx[rid].be \subseteq wbuffer[rptr].valid
<1>1. rtrn # <<>> /\ rtrn \in Seq(Tx)
  BY DEF evict, returned, IInv, Types
<1>2. rid = rtrn[1] /\ 1 \in DOMAIN rtrn /\ rid \in Tx
  BY <1>1 DEF rid
<1>3. tx[rid].vld
  BY <1>2 DEF IInv, TxConsistent
<1>4. rptr \in Entry /\ tx[rid].be # {}
  BY <1>2, <1>3 DEF IInv, Types, Flights, rptr
<1>5. tx[rid].be \subseteq wbuffer[rptr].txblock
  BY <1>2, <1>3, <1>4 DEF IInv, TxConsistent, rptr
<1>6. wbuffer[rptr].txblock \subseteq wbuffer[rptr].valid
  BY <1>4 DEF IInv, TxConsistent
<1> QED BY <1>1, <1>2, <1>3, <1>4, <1>5, <1>6

\* No transaction belongs to the entry that is sent.
LEMMA SendFacts ==
    ASSUME NEW x, Step(x), sends(x)
    PROVE  /\ newTx \in Tx /\ ~tx[newTx].vld
           /\ x.dptr \in dirty /\ x.dptr \in Entry
           /\ \A t \in Tx : tx[t].vld => tx[t].ptr # x.dptr
           /\ tx_be(x.dptr) # {} /\ tx_be(x.dptr) \subseteq wbuffer[x.dptr].dirty
           /\ wbuffer[x.dptr].txblock = {}
<1>1. x.dptr \in dirty /\ freeTx # {}
  BY InputFacts DEF sends, Step, IInv
<1>2. newTx \in freeTx
  <2>1. freeTx \subseteq Nat
    BY CacheAssumption DEF freeTx, Tx
  <2> QED BY <1>1, <2>1, MinMember DEF newTx
<1>3. /\ tx_be(x.dptr) # {} /\ tx_be(x.dptr) \subseteq wbuffer[x.dptr].dirty
      /\ wbuffer[x.dptr].txblock = {} /\ x.dptr \in Entry
  BY <1>1, TxBytes DEF Step, IInv
<1>4. \A t \in Tx : tx[t].vld => tx[t].ptr # x.dptr
  BY <1>3 DEF Step, IInv, TxConsistent, Flights
<1> QED BY <1>1, <1>2, <1>3, <1>4 DEF freeTx

\* A store goes to the entry that holds its word, or to a free one.
LEMMA StoreFacts ==
    ASSUME NEW x, Step(x)
    PROVE  /\ StoreIn(x)
           /\ accepted(x) # {} =>
                LET s == stored(x)
                    w == wr_ptr(s)
                IN  /\ x.st = {s} /\ accepted(x) = {s} /\ amo.st = "none"
                    /\ s \in [word : Word, be : SUBSET Byte, data : Data] /\ aligned(s.be)
                    /\ w \in Entry
                    /\ wbuffer[w].valid = {} \/ wbuffer[w].wtag = s.word
                    /\ \A e \in Entry : wbuffer[e].valid # {} /\ wbuffer[e].wtag = s.word => e = w
                    /\ ~ni_conflict(s)
<1>1. \A s \in work.stores : storeOf(s) \in [word : Word, be : SUBSET Byte, data : Data] /\ aligned(storeOf(s).be)
  <2>1. work \in Workload
    BY DEF Step, IInv, Types
  <2>2. \A s \in work.stores : s \in Word \X SUBSET Byte /\ aligned(s[2])
    BY <2>1, WorkloadAssumption
  <2> QED BY <2>2 DEF storeOf, Data
<1>2. x.st # {} => amo.st = "none" /\ \E s \in work.stores : x.st = {storeOf(s)}
  BY InputFacts DEF Step, IInv
<1>3. StoreIn(x)
  BY <1>1, <1>2 DEF StoreIn
<1>4. ASSUME accepted(x) # {}
      PROVE  LET s == stored(x)
                 w == wr_ptr(s)
             IN  /\ x.st = {s} /\ accepted(x) = {s} /\ amo.st = "none"
                 /\ s \in [word : Word, be : SUBSET Byte, data : Data] /\ aligned(s.be)
                 /\ w \in Entry
                 /\ wbuffer[w].valid = {} \/ wbuffer[w].wtag = s.word
                 /\ \A e \in Entry : wbuffer[e].valid # {} /\ wbuffer[e].wtag = s.word => e = w
                 /\ ~ni_conflict(s)
  <2> DEFINE s == stored(x)
             w == wr_ptr(s)
  <2>1. x.st # {}
    BY <1>4 DEF accepted
  <2>2. x.st = {s} /\ amo.st = "none" /\ s \in [word : Word, be : SUBSET Byte, data : Data] /\ aligned(s.be)
    BY <1>1, <1>2, <2>1 DEF stored
  <2>3. data_gnt(s) /\ accepted(x) = {s}
    BY <1>4, <2>2 DEF accepted
  <2>4. Entry \subseteq Nat
    BY CacheAssumption DEF Entry
  <2>5. w \in Entry /\ (wbuffer[w].valid = {} \/ wbuffer[w].wtag = s.word) /\ (holding(s.word) # {} => w \in holding(s.word))
    <3>1. CASE holding(s.word) # {}
      <4>1. holding(s.word) \subseteq Nat
        BY <2>4 DEF holding, validEntries
      <4>2. w \in holding(s.word)
        BY <3>1, <4>1, MinMember DEF wr_ptr
      <4> QED BY <4>2 DEF holding, validEntries
    <3>2. CASE holding(s.word) = {}
      <4>1. Entry \ validEntries # {}
        BY <3>2, <2>3 DEF data_gnt, validEntries
      <4>2. w \in Entry \ validEntries
        BY <3>2, <4>1, <2>4, MinMember DEF wr_ptr
      <4> QED BY <3>2, <4>2 DEF validEntries
    <3> QED BY <3>1, <3>2
  <2>6. ASSUME NEW e \in Entry, wbuffer[e].valid # {}, wbuffer[e].wtag = s.word PROVE e = w
    <3>1. e \in holding(s.word)
      BY <2>6 DEF holding, validEntries
    <3>2. w \in holding(s.word)
      BY <3>1, <2>5
    <3> HIDE DEF w, s
    <3> QED BY <3>1, <3>2 DEF Step, IInv, TxConsistent, holding
  <2>7. ~ni_conflict(s)
    BY <2>3 DEF data_gnt
  <2> QED BY <2>2, <2>3, <2>5, <2>6, <2>7
<1> QED BY <1>3, <1>4

LEMMA CycleQueues ==
    ASSUME NEW x, Cycle(x)
    PROVE  /\ tx' = tx_next(x, evict(x))
           /\ rtrn' = (IF evict(x) THEN Tail(rtrn) ELSE rtrn)
                        \o (IF store_ack(x) THEN <<Head(writes).id>> ELSE <<>>)
           /\ writes' = (IF store_ack(x) THEN Tail(writes) ELSE writes)
                          \o (IF x.r = "store" /\ x.ack THEN <<newWrite(x)>> ELSE <<>>)
           /\ mem' = mem /\ ref' = ref_next(x) /\ work' = work
BY Zenon DEF Cycle, newWrite, newTx

LEMMA EntryStep ==
    ASSUME NEW x, Step(x), NEW e \in Entry
    PROVE  /\ wbuffer'[e].valid = (wbuffer[e].valid \ dropped(x, e)) \union coming(x, e)
           /\ wbuffer'[e].dirty = (wbuffer[e].dirty \ going(x, e)) \union coming(x, e)
           /\ wbuffer'[e].txblock = (wbuffer[e].txblock \ back(x, e)) \union going(x, e)
           /\ wbuffer'[e].wtag = IF target(x, e) THEN stored(x).word ELSE wbuffer[e].wtag
           /\ wbuffer'[e].data = IF target(x, e) THEN Merge(wbuffer[e].data, stored(x).be, stored(x).data)
                                 ELSE wbuffer[e].data
           /\ wbuffer' \in [Entry -> EntryRec]
           /\ evicted(x, invalidated(x, checked(wbuffer)))[e].valid = wbuffer[e].valid \ dropped(x, e)
<1>1. Types /\ Cycle(x) /\ StoreIn(x) /\ (sends(x) => x.dptr \in dirty)
  BY StoreFacts, SendFacts DEF Step, IInv
<1> QED BY <1>1, EntryNext

LEMMA TxNext ==
    ASSUME NEW x, Step(x), NEW t \in Tx
    PROVE  /\ tx'[t].vld <=> (tx[t].vld /\ ~(evict(x) /\ t = rid)) \/ (sends(x) /\ t = newTx)
           /\ ~(sends(x) /\ t = newTx) => tx'[t].ptr = tx[t].ptr /\ tx'[t].be = tx[t].be
           /\ sends(x) /\ t = newTx => tx'[t].ptr = x.dptr /\ tx'[t].be = tx_be(x.dptr)
           /\ tx' \in [Tx -> [vld : BOOLEAN, ptr : Entry, be : SUBSET Byte]]
<1> DEFINE TxRec == [vld : BOOLEAN, ptr : Entry, be : SUBSET Byte]
<1>1. tx \in [Tx -> TxRec] /\ tx' = tx_next(x, evict(x))
  BY CycleQueues DEF Step, IInv, Types
<1> DEFINE c == IF evict(x) THEN [tx EXCEPT ![rid].vld = FALSE] ELSE tx
<1>2. /\ c \in [Tx -> TxRec]
      /\ \A u \in Tx : /\ c[u].vld <=> (tx[u].vld /\ ~(evict(x) /\ u = rid))
                       /\ c[u].ptr = tx[u].ptr /\ c[u].be = tx[u].be
  <2>1. CASE evict(x)
    <3>1. rid \in Tx
      BY <2>1, EvictFacts DEF Step
    <3> QED BY <2>1, <3>1, <1>1
  <2>2. CASE ~evict(x)
    BY <2>2, <1>1
  <2> QED BY <2>1, <2>2
<1>3. tx' = IF sends(x) THEN [c EXCEPT ![newTx] = [vld |-> TRUE, ptr |-> x.dptr, be |-> tx_be(x.dptr)]] ELSE c
  BY <1>1, Zenon DEF tx_next, sends, newTx
<1> HIDE DEF c
<1>4. CASE sends(x)
  <2>1. newTx \in Tx /\ x.dptr \in Entry /\ tx_be(x.dptr) \subseteq Byte
    BY <1>4, SendFacts, TxBytes DEF Step, IInv
  <2>2. tx' = [c EXCEPT ![newTx] = [vld |-> TRUE, ptr |-> x.dptr, be |-> tx_be(x.dptr)]]
    BY <1>3, <1>4
  <2>3. tx' \in [Tx -> TxRec]
    BY <1>2, <2>1, <2>2
  <2>4. CASE t = newTx
    BY <1>2, <1>4, <2>1, <2>2, <2>3, <2>4
  <2>5. CASE t # newTx
    <3>1. tx'[t] = c[t]
      BY <1>2, <2>2, <2>5
    <3>2. tx'[t].vld = c[t].vld /\ tx'[t].ptr = c[t].ptr /\ tx'[t].be = c[t].be
      BY <3>1
    <3>3. c[t].vld <=> (tx[t].vld /\ ~(evict(x) /\ t = rid))
      BY <1>2
    <3>4. c[t].ptr = tx[t].ptr /\ c[t].be = tx[t].be
      BY <1>2
    <3> HIDE DEF TxRec
    <3> QED BY <3>2, <3>3, <3>4, <2>3, <2>5 DEF TxRec
  <2> QED BY <2>4, <2>5
<1>5. CASE ~sends(x)
  <2>1. tx' = c
    BY <1>3, <1>5
  <2>2. tx'[t].vld = c[t].vld /\ tx'[t].ptr = c[t].ptr /\ tx'[t].be = c[t].be
    BY <2>1
  <2>3. c[t].vld <=> (tx[t].vld /\ ~(evict(x) /\ t = rid))
    BY <1>2
  <2>4. c[t].ptr = tx[t].ptr /\ c[t].be = tx[t].be
    BY <1>2
  <2>5. tx' \in [Tx -> TxRec]
    BY <1>2, <2>1
  <2> QED BY <2>2, <2>3, <2>4, <2>5, <1>5
<1> QED BY <1>4, <1>5

\* A FIFO s from which the first element is taken if n = 1, and to which v is
\* added if m = 1.
Moves(s, n, m, v, u) ==
    /\ n = 1 => s # <<>>
    /\ u = (IF n = 1 THEN Tail(s) ELSE s) \o (IF m = 1 THEN <<v>> ELSE <<>>)

Moved(S, s, n, m, v, u) ==
    /\ u \in Seq(S) /\ Len(u) = Len(s) - n + m /\ Len(s) - n \in Nat
    /\ \A k \in 1 .. Len(s) - n : u[k] = s[k + n]
    /\ m = 1 => u[Len(s) - n + 1] = v

LEMMA FifoStep ==
    ASSUME NEW S, NEW s \in Seq(S), NEW n \in 0 .. 1, NEW m \in 0 .. 1, NEW v \in S, NEW u,
           Moves(s, n, m, v, u)
    PROVE  Moved(S, s, n, m, v, u)
<1> USE DEF Moves, Moved
<1> DEFINE r == IF n = 1 THEN Tail(s) ELSE s
<1>1. r \in Seq(S) /\ Len(r) = Len(s) - n /\ \A k \in 1 .. Len(s) - n : r[k] = s[k + n]
  <2>1. CASE n = 1
    BY <2>1
  <2>2. CASE n = 0
    BY <2>2
  <2> QED BY <2>1, <2>2
<1> HIDE DEF r
<1>2. u = r \o (IF m = 1 THEN <<v>> ELSE <<>>)
  BY DEF r
<1>3. CASE m = 1
  <2>1. u = r \o <<v>>
    BY <1>2, <1>3, Zenon
  <2>2. u = Append(r, v)
    BY <1>1, <2>1, AppendIsConcat
  <2>3. u \in Seq(S) /\ Len(u) = Len(r) + 1 /\ (\A k \in 1 .. Len(r) : u[k] = r[k]) /\ u[Len(r) + 1] = v
    <3>1. r \in Seq(S)
      BY <1>1
    <3>2. /\ Append(r, v) \in Seq(S) /\ Len(Append(r, v)) = Len(r) + 1
          /\ \A k \in 1 .. Len(r) : Append(r, v)[k] = r[k]
          /\ Append(r, v)[Len(r) + 1] = v
      BY <3>1, AppendProperties
    <3> QED BY <2>2, <3>2, Zenon
  <2>4. Len(s) - n = Len(r) /\ Len(r) \in Nat
    BY <1>1
  <2> HIDE DEF r
  <2>5. u[Len(s) - n + 1] = v
    BY <2>3, <2>4
  <2>6. \A k \in 1 .. Len(s) - n : u[k] = s[k + n]
    BY <2>3, <2>4, <1>1
  <2> QED BY <1>3, <2>3, <2>4, <2>5, <2>6
<1>4. CASE m = 0
  <2>1. u = r
    BY <1>1, <1>2, <1>4
  <2> QED BY <1>1, <1>4, <2>1
<1>5. m = 0 \/ m = 1
  OBVIOUS
<1> QED BY <1>3, <1>4, <1>5, Zenon

LEMMA WritesNext ==
    ASSUME NEW x, Step(x)
    PROVE  /\ writes' \in Seq(Write) /\ Len(writes) - acks(x) \in Nat
           /\ Len(writes') = Len(writes) - acks(x) + adds(x)
           /\ \A k \in 1 .. Len(writes) - acks(x) : writes'[k] = writes[k + acks(x)]
           /\ sends(x) => writes'[Len(writes) - acks(x) + 1] = newWrite(x)
           /\ store_ack(x) => writes # <<>> /\ writes[1].done
<1>1. writes \in Seq(Write)
  BY DEF Step, IInv, Types
<1>2. store_ack(x) => writes # <<>> /\ writes[1].done
  <2>1. x.resp \in responses
    BY InputFacts DEF Step, IInv
  <2> QED BY <2>1, <1>1 DEF responses, store_ack
<1>3. writes' = (IF acks(x) = 1 THEN Tail(writes) ELSE writes) \o (IF adds(x) = 1 THEN <<newWrite(x)>> ELSE <<>>)
  <2>1. (acks(x) = 1 <=> store_ack(x)) /\ (adds(x) = 1 <=> x.r = "store" /\ x.ack)
    BY DEF acks, adds, sends
  <2> QED BY <2>1, CycleQueues, Zenon DEF Step
<1>4. acks(x) \in 0 .. 1 /\ adds(x) \in 0 .. 1
  BY DEF acks, adds
<1>5. CASE sends(x)
  <2>1. newWrite(x) \in Write
    <3>1. /\ newTx \in Tx /\ x.dptr \in Entry /\ tx_be(x.dptr) \subseteq Byte
      BY <1>5, SendFacts, TxBytes DEF Step, IInv
    <3>2. wbuffer[x.dptr].wtag \in Word /\ wbuffer[x.dptr].data \in Data
      BY <3>1 DEF Step, IInv, Types
    <3> QED BY <3>1, <3>2 DEF newWrite, Write
  <2>2. adds(x) = 1 /\ (acks(x) = 1 => writes # <<>>)
    BY <1>5, <1>2 DEF adds, acks
  <2>3. Moves(writes, acks(x), adds(x), newWrite(x), writes')
    BY <2>2, <1>3, Zenon DEF Moves
  <2>4. Moved(Write, writes, acks(x), adds(x), newWrite(x), writes')
    BY <2>1, <2>3, <1>1, <1>4, FifoStep, Zenon
  <2> QED BY <2>2, <2>4, <1>2 DEF Moved
<1>6. CASE ~sends(x)
  <2>1. adds(x) = 0 /\ (acks(x) = 1 => writes # <<>>)
    BY <1>6, <1>2 DEF adds, acks
  <2>2. writes' = IF acks(x) = 1 THEN Tail(writes) ELSE writes
    BY <2>1, <1>1, <1>3
  <2>3. CASE acks(x) = 1
    BY <2>1, <2>2, <2>3, <1>1, <1>2, <1>6
  <2>4. CASE acks(x) = 0
    BY <2>1, <2>2, <2>4, <1>1, <1>2, <1>6
  <2> QED BY <2>3, <2>4, <1>4
<1> QED BY <1>5, <1>6

LEMMA RtrnNext ==
    ASSUME NEW x, Step(x)
    PROVE  /\ rtrn' \in Seq(Tx) /\ Len(rtrn) - leaves(x) \in Nat
           /\ Len(rtrn') = Len(rtrn) - leaves(x) + acks(x)
           /\ \A k \in 1 .. Len(rtrn) - leaves(x) : rtrn'[k] = rtrn[k + leaves(x)]
           /\ store_ack(x) => rtrn'[Len(rtrn) - leaves(x) + 1] = writes[1].id
<1>1. rtrn \in Seq(Tx) /\ (leaves(x) = 1 => rtrn # <<>>)
  BY EvictFacts DEF Step, IInv, Types, leaves
<1>2. rtrn' = (IF leaves(x) = 1 THEN Tail(rtrn) ELSE rtrn) \o (IF acks(x) = 1 THEN <<Head(writes).id>> ELSE <<>>)
  <2>1. (acks(x) = 1 <=> store_ack(x)) /\ (leaves(x) = 1 <=> evict(x))
    BY DEF acks, leaves
  <2> QED BY <2>1, CycleQueues, Zenon DEF Step
<1>3. acks(x) \in 0 .. 1 /\ leaves(x) \in 0 .. 1
  BY DEF acks, leaves
<1>4. CASE store_ack(x)
  <2>1. writes[1].id \in Tx /\ Head(writes) = writes[1]
    <3>1. writes # <<>> /\ writes \in Seq(Write)
      BY <1>4, WritesNext DEF Step, IInv, Types
    <3>2. Head(writes) = writes[1] /\ writes[1] \in Write
      BY <3>1
    <3> QED BY <3>2 DEF Write
  <2>2. acks(x) = 1
    BY <1>4 DEF acks
  <2>3. rtrn' = (IF leaves(x) = 1 THEN Tail(rtrn) ELSE rtrn) \o (IF acks(x) = 1 THEN <<writes[1].id>> ELSE <<>>)
    BY <1>2, <2>1, Zenon
  <2>4. Moves(rtrn, leaves(x), acks(x), writes[1].id, rtrn')
    BY <2>3, <1>1, Zenon DEF Moves
  <2>5. Moved(Tx, rtrn, leaves(x), acks(x), writes[1].id, rtrn')
    BY <2>1, <2>4, <1>1, <1>3, FifoStep, Zenon
  <2> QED BY <2>2, <2>5 DEF Moved
<1>5. CASE ~store_ack(x)
  <2>1. acks(x) = 0
    BY <1>5 DEF acks
  <2>2. rtrn' = IF leaves(x) = 1 THEN Tail(rtrn) ELSE rtrn
    BY <2>1, <1>1, <1>2
  <2>3. CASE leaves(x) = 1
    BY <2>1, <2>2, <2>3, <1>1, <1>5
  <2>4. CASE leaves(x) = 0
    BY <2>1, <2>2, <2>4, <1>1, <1>5
  <2> QED BY <2>3, <2>4, <1>3
<1> QED BY <1>4, <1>5

-----------------------------------------------------------------------------
(* Facts that the invariants' proofs share.                                *)

\* The entry of a transaction is occupied.
LEMMA TxEntry ==
    ASSUME IInv, NEW t \in Tx, tx[t].vld
    PROVE  /\ tx[t].ptr \in Entry /\ tx[t].be # {}
           /\ tx[t].be \subseteq wbuffer[tx[t].ptr].txblock
           /\ tx[t].be \subseteq wbuffer[tx[t].ptr].valid
           /\ wbuffer[tx[t].ptr].valid # {}
<1>1. tx[t].ptr \in Entry /\ tx[t].be # {}
  BY DEF IInv, Types, Flights
<1>2. tx[t].be \subseteq wbuffer[tx[t].ptr].txblock
  BY <1>1 DEF IInv, TxConsistent
<1>3. wbuffer[tx[t].ptr].txblock \subseteq wbuffer[tx[t].ptr].valid
  BY <1>1 DEF IInv, TxConsistent
<1> QED BY <1>1, <1>2, <1>3

\* A word stays in its entry as long as the entry is occupied.
LEMMA TagStable ==
    ASSUME NEW x, Step(x), NEW e \in Entry, wbuffer[e].valid # {}
    PROVE  wbuffer'[e].wtag = wbuffer[e].wtag
<1>1. wbuffer'[e].wtag = IF target(x, e) THEN stored(x).word ELSE wbuffer[e].wtag
  BY EntryStep
<1>2. target(x, e) => wbuffer[e].wtag = stored(x).word
  BY StoreFacts DEF target
<1> QED BY <1>1, <1>2

\* A store changes the reference value of the bytes it brings into an entry.
LEMMA RefNext ==
    ASSUME NEW x, Step(x)
    PROVE  /\ ref' \in [Word -> Data]
           /\ accepted(x) = {} => ref' = ref
           /\ accepted(x) # {} => \A w \in Word :
                ref'[w] = IF w = stored(x).word THEN Merge(ref[w], stored(x).be, stored(x).data) ELSE ref[w]
<1>1. ref \in [Word -> Data] /\ ref' = ref_next(x)
  BY CycleQueues DEF Step, IInv, Types
<1>2. CASE accepted(x) = {}
  BY <1>1, <1>2 DEF ref_next
<1>3. CASE accepted(x) # {}
  <2>1. stored(x) \in [word : Word, be : SUBSET Byte, data : Data]
    BY <1>3, StoreFacts
  <2>2. ref' = [ref EXCEPT ![stored(x).word] = Merge(@, stored(x).be, stored(x).data)]
    BY <1>1, <1>3 DEF ref_next, stored
  <2>3. \A w \in Word : Merge(ref[w], stored(x).be, stored(x).data) \in Data
    BY <1>1, <2>1 DEF Merge, Data
  <2> QED BY <1>1, <1>3, <2>1, <2>2, <2>3
<1> QED BY <1>2, <1>3

LEMMA RefStable ==
    ASSUME NEW x, Step(x), NEW e \in Entry, wbuffer[e].valid # {}, NEW b, b \notin coming(x, e)
    PROVE  b \in ref'[wbuffer[e].wtag] <=> b \in ref[wbuffer[e].wtag]
<1>0. wbuffer[e].wtag \in Word
  BY DEF Step, IInv, Types
<1>1. CASE accepted(x) = {}
  BY <1>1, RefNext
<1>2. CASE accepted(x) # {} /\ wbuffer[e].wtag # stored(x).word
  BY <1>0, <1>2, RefNext
<1>3. CASE accepted(x) # {} /\ wbuffer[e].wtag = stored(x).word
  <2>1. target(x, e)
    BY <1>3, StoreFacts DEF target
  <2>2. b \notin stored(x).be
    BY <2>1 DEF coming
  <2> QED BY <1>0, <1>3, <2>2, RefNext DEF Merge
<1> QED BY <1>1, <1>2, <1>3

LEMMA GoingDirty ==
    ASSUME NEW x, Step(x), NEW e \in Entry
    PROVE  /\ going(x, e) \subseteq wbuffer[e].dirty
           /\ wbuffer[e].txblock # {} => going(x, e) = {}
BY SendFacts DEF going

-----------------------------------------------------------------------------
(* A cycle preserves the consistency of buffer and transactions.           *)

\* The same, with the blocked bytes one by one.
Blocked(e, b) == \E t \in Tx : tx[t].vld /\ tx[t].ptr = e /\ b \in tx[t].be

LEMMA BlockedBytes ==
    ASSUME IInv, NEW e \in Entry, NEW b
    PROVE  b \in wbuffer[e].txblock <=> Blocked(e, b)
BY DEF IInv, TxConsistent, Blocked

LEMMA TxConsistentStep ==
    ASSUME NEW x, Step(x)
    PROVE  TxConsistent'
<1>1. ASSUME NEW e \in Entry
      PROVE  wbuffer'[e].dirty \union wbuffer'[e].txblock = wbuffer'[e].valid
  <2>1. wbuffer[e].dirty \union wbuffer[e].txblock = wbuffer[e].valid
    BY DEF Step, IInv, TxConsistent
  <2>2. going(x, e) \subseteq wbuffer[e].dirty
    BY GoingDirty
  <2>3. /\ wbuffer'[e].valid = (wbuffer[e].valid \ dropped(x, e)) \union coming(x, e)
        /\ wbuffer'[e].dirty = (wbuffer[e].dirty \ going(x, e)) \union coming(x, e)
        /\ wbuffer'[e].txblock = (wbuffer[e].txblock \ back(x, e)) \union going(x, e)
    BY EntryStep
  <2> QED BY <2>1, <2>2, <2>3 DEF dropped
<1>2. ASSUME NEW e \in Entry, NEW b
      PROVE  b \in wbuffer'[e].txblock <=> Blocked(e, b)'
  <2>1. wbuffer'[e].txblock = (wbuffer[e].txblock \ back(x, e)) \union going(x, e)
    BY EntryStep
  <2>2. ASSUME b \in wbuffer[e].txblock, b \notin back(x, e) PROVE Blocked(e, b)'
    <3>1. PICK t \in Tx : tx[t].vld /\ tx[t].ptr = e /\ b \in tx[t].be
      BY <2>2, BlockedBytes DEF Blocked, Step
    <3>2. ~(evict(x) /\ t = rid)
      BY <2>2, <3>1 DEF back, rptr
    <3>3. ~(sends(x) /\ t = newTx)
      BY <3>1, SendFacts
    <3>4. tx'[t].vld /\ tx'[t].ptr = e /\ b \in tx'[t].be
      BY <3>1, <3>2, <3>3, TxNext
    <3> QED BY <3>4 DEF Blocked
  <2>3. ASSUME b \in going(x, e) PROVE Blocked(e, b)'
    <3>1. sends(x) /\ e = x.dptr /\ b \in tx_be(e)
      BY <2>3 DEF going
    <3>2. newTx \in Tx
      BY <3>1, SendFacts
    <3>3. tx'[newTx].vld /\ tx'[newTx].ptr = e /\ b \in tx'[newTx].be
      BY <3>1, <3>2, TxNext
    <3> QED BY <3>2, <3>3 DEF Blocked
  <2>4. ASSUME Blocked(e, b)' PROVE b \in wbuffer'[e].txblock
    <3>1. PICK t \in Tx : tx'[t].vld /\ tx'[t].ptr = e /\ b \in tx'[t].be
      BY <2>4 DEF Blocked
    <3>2. CASE sends(x) /\ t = newTx
      <4>1. e = x.dptr /\ b \in tx_be(e)
        BY <3>1, <3>2, TxNext
      <4> QED BY <4>1, <3>2, <2>1 DEF going
    <3>3. CASE ~(sends(x) /\ t = newTx)
      <4>1. tx[t].vld /\ tx[t].ptr = e /\ b \in tx[t].be /\ ~(evict(x) /\ t = rid)
        BY <3>1, <3>3, TxNext
      <4>2. b \in wbuffer[e].txblock
        BY <4>1, BlockedBytes DEF Blocked, Step
      <4>3. b \notin back(x, e)
        <5>1. SUFFICES ASSUME evict(x), e = rptr, b \in tx[rid].be PROVE FALSE
          BY DEF back
        <5>2. rid \in Tx /\ tx[rid].vld /\ t # rid /\ tx[rid].ptr = tx[t].ptr
          BY <5>1, <4>1, EvictFacts DEF Step, rptr
        <5> QED BY <5>1, <5>2, <4>1 DEF Step, IInv, TxConsistent
      <4> QED BY <4>2, <4>3, <2>1
    <3> QED BY <3>2, <3>3
  <2> QED BY <2>1, <2>2, <2>3, <2>4
<1>3. ASSUME NEW e \in Entry
      PROVE  wbuffer'[e].txblock = UNION {tx'[t].be : t \in {t \in Tx : tx'[t].vld /\ tx'[t].ptr = e}}
  <2>1. \A b : b \in wbuffer'[e].txblock <=> \E t \in Tx : tx'[t].vld /\ tx'[t].ptr = e /\ b \in tx'[t].be
    BY <1>2 DEF Blocked
  <2> QED BY <2>1
<1>4. ASSUME NEW k \in DOMAIN rtrn' PROVE tx'[rtrn'[k]].vld
  <2>0. /\ rtrn \in Seq(Tx) /\ rtrn' \in Seq(Tx) /\ k \in 1 .. Len(rtrn')
        /\ acks(x) \in 0 .. 1 /\ leaves(x) \in 0 .. 1
    <3>1. rtrn \in Seq(Tx) /\ rtrn' \in Seq(Tx)
      BY RtrnNext DEF Step, IInv, Types
    <3>2. acks(x) \in 0 .. 1 /\ leaves(x) \in 0 .. 1
      BY DEF acks, leaves
    <3> QED BY <3>1, <3>2
  <2>1. CASE k \in 1 .. Len(rtrn) - leaves(x)
    <3>1. /\ rtrn'[k] = rtrn[k + leaves(x)] /\ k + leaves(x) \in DOMAIN rtrn /\ k + leaves(x) \in 1 .. Len(rtrn)
          /\ rtrn[k + leaves(x)] \in Tx
      BY <2>0, <2>1, RtrnNext
    <3>2. tx[rtrn'[k]].vld
      BY <3>1 DEF Step, IInv, TxConsistent
    <3>3. ~(evict(x) /\ rtrn'[k] = rid)
      <4>1. SUFFICES ASSUME evict(x), rtrn'[k] = rid PROVE FALSE
        OBVIOUS
      <4>2. leaves(x) = 1 /\ rid = rtrn[1] /\ 1 \in DOMAIN rtrn /\ k + 1 # 1
        BY <4>1, <2>1, EvictFacts DEF leaves, Step
      <4> QED BY <4>1, <4>2, <3>1 DEF Step, IInv, Flights
    <3> QED BY <3>1, <3>2, <3>3, TxNext
  <2>2. CASE k \notin 1 .. Len(rtrn) - leaves(x)
    <3>1. store_ack(x) /\ k = Len(rtrn) - leaves(x) + 1
      BY <2>0, <2>2, RtrnNext DEF acks
    <3>2. rtrn'[k] = writes[1].id /\ 1 \in DOMAIN writes /\ writes[1].id \in Tx
      <4>1. rtrn'[k] = writes[1].id /\ writes # <<>> /\ writes \in Seq(Write)
        BY <3>1, RtrnNext, WritesNext DEF Step, IInv, Types
      <4>2. writes[1] \in Write /\ 1 \in DOMAIN writes
        BY <4>1
      <4> QED BY <4>1, <4>2 DEF Write
    <3>3. tx[writes[1].id].vld
      BY <3>2 DEF Step, IInv, Flights
    <3>4. ~(evict(x) /\ writes[1].id = rid)
      BY <3>2, EvictFacts DEF Step, IInv, Flights
    <3> QED BY <3>2, <3>3, <3>4, TxNext
  <2> QED BY <2>1, <2>2
<1>5. ASSUME NEW t \in Tx, NEW u \in Tx, t # u, tx'[t].vld, tx'[u].vld, tx'[t].ptr = tx'[u].ptr
      PROVE  tx'[t].be \intersect tx'[u].be = {}
  <2>1. CASE sends(x) /\ t = newTx
    <3>1. tx[u].vld /\ tx[u].ptr = x.dptr
      BY <1>5, <2>1, TxNext
    <3> QED BY <3>1, <2>1, SendFacts
  <2>2. CASE sends(x) /\ u = newTx
    <3>1. tx[t].vld /\ tx[t].ptr = x.dptr
      BY <1>5, <2>2, TxNext
    <3> QED BY <3>1, <2>2, SendFacts
  <2>3. CASE ~(sends(x) /\ t = newTx) /\ ~(sends(x) /\ u = newTx)
    <3>1. /\ tx[t].vld /\ tx[u].vld /\ tx[t].ptr = tx[u].ptr
          /\ tx'[t].be = tx[t].be /\ tx'[u].be = tx[u].be
      BY <1>5, <2>3, TxNext
    <3> QED BY <3>1, <1>5 DEF Step, IInv, TxConsistent
  <2> QED BY <2>1, <2>2, <2>3
<1>6. ASSUME NEW e \in Entry, NEW f \in Entry, e # f, wbuffer'[e].valid # {}, wbuffer'[f].valid # {}
      PROVE  wbuffer'[e].wtag # wbuffer'[f].wtag
  <2>1. ASSUME NEW g \in Entry, wbuffer'[g].valid # {}, ~target(x, g)
        PROVE  wbuffer[g].valid # {} /\ wbuffer'[g].wtag = wbuffer[g].wtag
    BY <2>1, EntryStep DEF coming
  <2>2. CASE target(x, e)
    <3>1. ~target(x, f) /\ wbuffer'[e].wtag = stored(x).word
      BY <1>6, <2>2, EntryStep DEF target
    <3>2. wbuffer[f].valid # {} /\ wbuffer'[f].wtag = wbuffer[f].wtag
      BY <1>6, <2>1, <3>1
    <3> QED BY <1>6, <2>2, <3>1, <3>2, StoreFacts DEF target
  <2>3. CASE target(x, f)
    <3>1. ~target(x, e) /\ wbuffer'[f].wtag = stored(x).word
      BY <1>6, <2>3, EntryStep DEF target
    <3>2. wbuffer[e].valid # {} /\ wbuffer'[e].wtag = wbuffer[e].wtag
      BY <1>6, <2>1, <3>1
    <3> QED BY <1>6, <2>3, <3>1, <3>2, StoreFacts DEF target
  <2>4. CASE ~target(x, e) /\ ~target(x, f)
    <3>1. /\ wbuffer[e].valid # {} /\ wbuffer'[e].wtag = wbuffer[e].wtag
          /\ wbuffer[f].valid # {} /\ wbuffer'[f].wtag = wbuffer[f].wtag
      BY <1>6, <2>1, <2>4
    <3> QED BY <1>6, <3>1 DEF Step, IInv, TxConsistent, validEntries
  <2> QED BY <2>2, <2>3, <2>4
<1> QED BY <1>1, <1>3, <1>4, <1>5, <1>6 DEF TxConsistent, validEntries

LEMMA QueueTypes ==
    ASSUME NEW x, Step(x)
    PROVE  /\ writes \in Seq(Write) /\ writes' \in Seq(Write) /\ rtrn \in Seq(Tx) /\ rtrn' \in Seq(Tx)
           /\ acks(x) \in 0 .. 1 /\ leaves(x) \in 0 .. 1 /\ adds(x) \in 0 .. 1
           /\ \A k \in DOMAIN writes : k \in 1 .. Len(writes) /\ writes[k].id \in Tx
           /\ \A k \in DOMAIN rtrn : k \in 1 .. Len(rtrn) /\ rtrn[k] \in Tx
<1>1. writes \in Seq(Write) /\ rtrn \in Seq(Tx)
  BY DEF Step, IInv, Types
<1>2. writes' \in Seq(Write) /\ rtrn' \in Seq(Tx)
  BY WritesNext, RtrnNext
<1>3. acks(x) \in 0 .. 1 /\ leaves(x) \in 0 .. 1 /\ adds(x) \in 0 .. 1
  BY DEF acks, leaves, adds
<1>4. \A k \in DOMAIN writes : k \in 1 .. Len(writes) /\ writes[k] \in Write
  BY <1>1
<1>5. \A k \in DOMAIN rtrn : k \in 1 .. Len(rtrn) /\ rtrn[k] \in Tx
  BY <1>1
<1> QED BY <1>1, <1>2, <1>3, <1>4, <1>5 DEF Write

\* A write that is on its way after a cycle was so before, or is the one that
\* has just been sent.
oldWrite(x, k) == k \in 1 .. Len(writes) - acks(x)

LEMMA WriteOrigin ==
    ASSUME NEW x, Step(x), NEW k \in DOMAIN writes'
    PROVE  \/ /\ oldWrite(x, k) /\ k + acks(x) \in DOMAIN writes /\ writes'[k] = writes[k + acks(x)]
              /\ writes'[k].id \in Tx /\ tx[writes'[k].id].vld
              /\ tx'[writes'[k].id].vld
              /\ tx'[writes'[k].id].ptr = tx[writes'[k].id].ptr /\ tx'[writes'[k].id].be = tx[writes'[k].id].be
              /\ ~(sends(x) /\ writes'[k].id = newTx)
           \/ ~oldWrite(x, k) /\ sends(x) /\ k = Len(writes) - acks(x) + 1 /\ writes'[k] = newWrite(x)
<1>0. k \in 1 .. Len(writes') /\ acks(x) \in 0 .. 1 /\ Len(writes) \in Nat
  BY QueueTypes
<1>1. CASE oldWrite(x, k)
  <2>1. k + acks(x) \in 1 .. Len(writes) /\ writes'[k] = writes[k + acks(x)] /\ k + acks(x) \in DOMAIN writes
    BY <1>0, <1>1, WritesNext, QueueTypes DEF oldWrite
  <2>2. writes'[k].id \in Tx /\ tx[writes'[k].id].vld
    BY <2>1, QueueTypes DEF Step, IInv, Flights
  <2>3. ~(evict(x) /\ writes'[k].id = rid)
    BY <2>1, EvictFacts DEF Step, IInv, Flights
  <2>4. ~(sends(x) /\ writes'[k].id = newTx)
    BY <2>2, SendFacts
  <2> QED BY <1>1, <2>1, <2>2, <2>3, <2>4, TxNext
<1>2. CASE ~oldWrite(x, k)
  <2>1. sends(x) /\ k = Len(writes) - acks(x) + 1
    BY <1>0, <1>2, WritesNext DEF oldWrite, adds
  <2> QED BY <1>2, <2>1, WritesNext
<1> QED BY <1>1, <1>2

LEMMA RtrnOrigin ==
    ASSUME NEW x, Step(x), NEW k \in DOMAIN rtrn'
    PROVE  \/ /\ k \in 1 .. Len(rtrn) - leaves(x) /\ k + leaves(x) \in DOMAIN rtrn
              /\ rtrn'[k] = rtrn[k + leaves(x)]
           \/ /\ store_ack(x) /\ k = Len(rtrn) - leaves(x) + 1
              /\ 1 \in DOMAIN writes /\ writes[1].done /\ rtrn'[k] = writes[1].id
<1>0. k \in 1 .. Len(rtrn') /\ leaves(x) \in 0 .. 1 /\ Len(rtrn) \in Nat
  BY QueueTypes
<1>1. CASE k \in 1 .. Len(rtrn) - leaves(x)
  <2>1. k + leaves(x) \in 1 .. Len(rtrn) /\ rtrn'[k] = rtrn[k + leaves(x)] /\ k + leaves(x) \in DOMAIN rtrn
    BY <1>0, <1>1, RtrnNext, QueueTypes
  <2> QED BY <1>1, <2>1
<1>2. CASE k \notin 1 .. Len(rtrn) - leaves(x)
  <2>1. store_ack(x) /\ k = Len(rtrn) - leaves(x) + 1
    BY <1>0, <1>2, RtrnNext DEF acks
  <2>2. 1 \in DOMAIN writes /\ writes[1].done /\ rtrn'[k] = writes[1].id
    BY <2>1, WritesNext, RtrnNext, QueueTypes
  <2> QED BY <2>1, <2>2
<1> QED BY <1>1, <1>2

LEMMA FlightsStep ==
    ASSUME NEW x, Step(x)
    PROVE  Flights'
<1>0. /\ writes \in Seq(Write) /\ writes' \in Seq(Write) /\ rtrn \in Seq(Tx) /\ rtrn' \in Seq(Tx)
      /\ acks(x) \in 0 .. 1 /\ leaves(x) \in 0 .. 1 /\ Len(writes) \in Nat /\ Len(rtrn) \in Nat
  BY QueueTypes
<1>1. ASSUME NEW t \in Tx, tx'[t].vld
      PROVE  /\ tx'[t].be # {}
             /\ (\E k \in DOMAIN writes' : writes'[k].id = t) \/ (\E k \in DOMAIN rtrn' : rtrn'[k] = t)
  <2>1. CASE sends(x) /\ t = newTx
    <3>1. tx'[t].be # {}
      BY <2>1, TxNext, SendFacts
    <3> DEFINE k == Len(writes) - acks(x) + 1
    <3>2. k \in DOMAIN writes' /\ writes'[k] = newWrite(x)
      <4>1. k \in 1 .. Len(writes')
        BY <1>0, <2>1, WritesNext DEF adds
      <4> QED BY <4>1, <2>1, <1>0, WritesNext
    <3>3. writes'[k].id = t
      BY <2>1, <3>2 DEF newWrite
    <3> QED BY <3>1, <3>2, <3>3
  <2>2. CASE ~(sends(x) /\ t = newTx)
    <3>1. tx[t].vld /\ ~(evict(x) /\ t = rid) /\ tx'[t].be = tx[t].be
      BY <1>1, <2>2, TxNext
    <3>2. tx[t].be # {} /\ ((\E k \in DOMAIN writes : writes[k].id = t) \/ (\E k \in DOMAIN rtrn : rtrn[k] = t))
      BY <3>1 DEF Step, IInv, Flights
    <3>3. CASE \E k \in DOMAIN writes : writes[k].id = t
      <4>1. PICK k \in DOMAIN writes : writes[k].id = t
        BY <3>3
      <4>2. CASE store_ack(x) /\ k = 1
        <5>1. Len(rtrn) - leaves(x) + 1 \in 1 .. Len(rtrn') /\ rtrn'[Len(rtrn) - leaves(x) + 1] = t
          BY <1>0, <4>1, <4>2, RtrnNext DEF acks
        <5> QED BY <1>0, <3>1, <3>2, <5>1
      <4>3. CASE ~(store_ack(x) /\ k = 1)
        <5>1. k - acks(x) \in 1 .. Len(writes) - acks(x) /\ k - acks(x) \in 1 .. Len(writes') /\ k - acks(x) + acks(x) = k
          BY <1>0, <4>1, <4>3, WritesNext DEF acks, adds
        <5>2. writes'[k - acks(x)].id = t
          BY <5>1, <4>1, WritesNext
        <5> QED BY <1>0, <3>1, <3>2, <5>1, <5>2
      <4> QED BY <4>2, <4>3
    <3>4. CASE \E k \in DOMAIN rtrn : rtrn[k] = t
      <4>1. PICK k \in DOMAIN rtrn : rtrn[k] = t
        BY <3>4
      <4>2. ~(leaves(x) = 1 /\ k = 1)
        BY <3>1, <4>1, EvictFacts DEF leaves, Step
      <4>3. k - leaves(x) \in 1 .. Len(rtrn) - leaves(x) /\ k - leaves(x) \in 1 .. Len(rtrn') /\ k - leaves(x) + leaves(x) = k
        BY <1>0, <4>1, <4>2, RtrnNext
      <4>4. rtrn'[k - leaves(x)] = t
        BY <4>1, <4>3, RtrnNext
      <4> QED BY <1>0, <3>1, <3>2, <4>3, <4>4
    <3> QED BY <3>2, <3>3, <3>4
  <2> QED BY <2>1, <2>2
<1>2. ASSUME NEW k \in DOMAIN writes'
      PROVE  LET t == writes'[k].id
             IN  tx'[t].vld /\ tx'[t].be = writes'[k].be /\ wbuffer'[tx'[t].ptr].wtag = writes'[k].word
  <2>1. CASE oldWrite(x, k)
    <3> DEFINE t == writes'[k].id
    <3>1. /\ k + acks(x) \in DOMAIN writes /\ writes'[k] = writes[k + acks(x)]
          /\ t \in Tx /\ tx[t].vld /\ tx'[t].vld /\ tx'[t].ptr = tx[t].ptr /\ tx'[t].be = tx[t].be
      BY <2>1, WriteOrigin
    <3>2. tx[t].be = writes'[k].be /\ wbuffer[tx[t].ptr].wtag = writes'[k].word
      BY <3>1 DEF Step, IInv, Flights
    <3> HIDE DEF t
    <3>3. wbuffer'[tx[t].ptr].wtag = wbuffer[tx[t].ptr].wtag
      BY <3>1, TxEntry, TagStable DEF Step
    <3> QED BY <3>1, <3>2, <3>3 DEF t
  <2>2. CASE ~oldWrite(x, k)
    <3>1. sends(x) /\ writes'[k] = newWrite(x)
      BY <2>2, WriteOrigin
    <3>2. newTx \in Tx /\ x.dptr \in Entry /\ wbuffer[x.dptr].valid # {}
      BY <3>1, SendFacts DEF dirty, bdirty
    <3>3. tx'[newTx].vld /\ tx'[newTx].be = tx_be(x.dptr) /\ tx'[newTx].ptr = x.dptr
      BY <3>1, <3>2, TxNext
    <3>4. wbuffer'[x.dptr].wtag = wbuffer[x.dptr].wtag
      BY <3>2, TagStable
    <3> QED BY <3>1, <3>3, <3>4 DEF newWrite
  <2> QED BY <2>1, <2>2
<1>3. ASSUME NEW j \in DOMAIN writes', NEW k \in DOMAIN writes', j # k
      PROVE  writes'[j].id # writes'[k].id
  <2>1. CASE oldWrite(x, j) /\ oldWrite(x, k)
    <3>1. /\ j + acks(x) \in DOMAIN writes /\ writes'[j] = writes[j + acks(x)]
          /\ k + acks(x) \in DOMAIN writes /\ writes'[k] = writes[k + acks(x)]
      BY <2>1, WriteOrigin
    <3>2. j + acks(x) # k + acks(x)
      BY <1>0, <1>3
    <3> QED BY <3>1, <3>2 DEF Step, IInv, Flights
  <2>2. CASE oldWrite(x, j) /\ ~oldWrite(x, k)
    BY <2>2, WriteOrigin DEF newWrite
  <2>3. CASE ~oldWrite(x, j) /\ oldWrite(x, k)
    BY <2>3, WriteOrigin DEF newWrite
  <2>4. CASE ~oldWrite(x, j) /\ ~oldWrite(x, k)
    BY <1>3, <2>4, WriteOrigin
  <2> QED BY <2>1, <2>2, <2>3, <2>4
<1>4. ASSUME NEW j \in DOMAIN rtrn', NEW k \in DOMAIN rtrn', j # k
      PROVE  rtrn'[j] # rtrn'[k]
  <2> DEFINE old(i) == i \in 1 .. Len(rtrn) - leaves(x)
  <2>1. CASE old(j) /\ old(k)
    <3>1. /\ j + leaves(x) \in DOMAIN rtrn /\ rtrn'[j] = rtrn[j + leaves(x)]
          /\ k + leaves(x) \in DOMAIN rtrn /\ rtrn'[k] = rtrn[k + leaves(x)]
      BY <1>0, <2>1, RtrnOrigin
    <3>2. j + leaves(x) # k + leaves(x)
      BY <1>0, <1>4
    <3> QED BY <3>1, <3>2 DEF Step, IInv, Flights
  <2>2. ASSUME NEW a \in DOMAIN rtrn', NEW b \in DOMAIN rtrn', old(a), ~old(b) PROVE rtrn'[a] # rtrn'[b]
    <3>1. a + leaves(x) \in DOMAIN rtrn /\ rtrn'[a] = rtrn[a + leaves(x)]
      BY <1>0, <2>2, RtrnOrigin
    <3>2. 1 \in DOMAIN writes /\ rtrn'[b] = writes[1].id
      BY <2>2, RtrnOrigin
    <3> QED BY <3>1, <3>2 DEF Step, IInv, Flights
  <2>3. CASE ~old(j) /\ ~old(k)
    BY <1>4, <2>3, RtrnOrigin
  <2> HIDE DEF old
  <2> QED BY <2>1, <2>2, <2>3
<1>5. ASSUME NEW j \in DOMAIN writes', NEW k \in DOMAIN rtrn'
      PROVE  writes'[j].id # rtrn'[k]
  <2>1. /\ \/ k + leaves(x) \in DOMAIN rtrn /\ rtrn'[k] = rtrn[k + leaves(x)]
           \/ store_ack(x) /\ 1 \in DOMAIN writes /\ rtrn'[k] = writes[1].id
    BY RtrnOrigin
  <2>2. rtrn'[k] \in Tx /\ tx[rtrn'[k]].vld
    BY <2>1, QueueTypes DEF Step, IInv, Flights, TxConsistent
  <2>3. CASE oldWrite(x, j)
    <3>1. j + acks(x) \in DOMAIN writes /\ writes'[j] = writes[j + acks(x)]
      BY <2>3, WriteOrigin
    <3>2. CASE k + leaves(x) \in DOMAIN rtrn /\ rtrn'[k] = rtrn[k + leaves(x)]
      BY <3>1, <3>2 DEF Step, IInv, Flights
    <3>3. CASE store_ack(x) /\ 1 \in DOMAIN writes /\ rtrn'[k] = writes[1].id
      <4>1. j + acks(x) # 1
        BY <1>0, <3>3 DEF acks
      <4> QED BY <3>1, <3>3, <4>1 DEF Step, IInv, Flights
    <3> QED BY <2>1, <3>2, <3>3
  <2>4. CASE ~oldWrite(x, j)
    <3>1. sends(x) /\ writes'[j].id = newTx
      BY <2>4, WriteOrigin DEF newWrite
    <3> QED BY <3>1, <2>2, SendFacts
  <2> QED BY <2>3, <2>4
<1> QED BY <1>1, <1>2, <1>3, <1>4, <1>5 DEF Flights

-----------------------------------------------------------------------------
(* A cycle loses no store.                                                 *)

\* As long as a transaction is on its way its bytes only become fewer.
LEMMA LatestShrinks ==
    ASSUME NEW x, Step(x), NEW t \in Tx, tx[t].vld, tx'[t].ptr = tx[t].ptr, tx'[t].be = tx[t].be
    PROVE  /\ latest(t)' \subseteq latest(t)
           /\ \A b \in latest(t)' : b \notin coming(x, tx[t].ptr)
<1>1. tx[t].ptr \in Entry /\ wbuffer[tx[t].ptr].txblock # {}
  BY TxEntry DEF Step
<1>2. wbuffer'[tx[t].ptr].dirty = wbuffer[tx[t].ptr].dirty \union coming(x, tx[t].ptr)
  BY <1>1, EntryStep, GoingDirty
<1> QED BY <1>2 DEF latest

LEMMA ValuesStep ==
    ASSUME NEW x, Step(x)
    PROVE  Values'
<1>1. ASSUME NEW e \in Entry, NEW b \in wbuffer'[e].valid
      PROVE  b \in wbuffer'[e].data <=> b \in ref'[wbuffer'[e].wtag]
  <2>0. b \in (wbuffer[e].valid \ dropped(x, e)) \union coming(x, e)
    BY EntryStep
  <2>1. CASE target(x, e)
    <3>1. /\ wbuffer'[e].wtag = stored(x).word /\ stored(x).word \in Word
          /\ wbuffer'[e].data = Merge(wbuffer[e].data, stored(x).be, stored(x).data)
          /\ ref'[stored(x).word] = Merge(ref[stored(x).word], stored(x).be, stored(x).data)
          /\ wbuffer[e].valid = {} \/ wbuffer[e].wtag = stored(x).word
      BY <2>1, EntryStep, StoreFacts, RefNext DEF target
    <3>2. CASE b \in stored(x).be
      BY <3>1, <3>2 DEF current, Merge
    <3>3. CASE b \notin stored(x).be
      <4>1. b \in wbuffer[e].valid /\ wbuffer[e].wtag = stored(x).word
        BY <2>0, <2>1, <3>1, <3>3 DEF coming
      <4>2. current(wbuffer[e].data, wbuffer[e].wtag, b)
        BY <4>1 DEF Step, IInv, Values
      <4> QED BY <3>1, <3>3, <4>1, <4>2 DEF current, Merge
    <3> QED BY <3>2, <3>3
  <2>2. CASE ~target(x, e)
    <3>1. /\ b \in wbuffer[e].valid /\ b \notin coming(x, e)
          /\ wbuffer'[e].wtag = wbuffer[e].wtag /\ wbuffer'[e].data = wbuffer[e].data
      BY <2>0, <2>2, EntryStep DEF coming
    <3>2. current(wbuffer[e].data, wbuffer[e].wtag, b)
      BY <3>1 DEF Step, IInv, Values
    <3>3. b \in ref'[wbuffer[e].wtag] <=> b \in ref[wbuffer[e].wtag]
      BY <3>1, RefStable
    <3> QED BY <3>1, <3>2, <3>3 DEF current
  <2> QED BY <2>1, <2>2
<1>2. ASSUME NEW k \in DOMAIN writes', NEW t \in Tx, t = writes'[k].id, NEW b \in latest(t)'
      PROVE  b \in writes'[k].data <=> b \in ref'[writes'[k].word]
  <2>1. CASE oldWrite(x, k)
    <3>1. /\ k + acks(x) \in DOMAIN writes /\ writes'[k] = writes[k + acks(x)]
          /\ tx[t].vld /\ tx'[t].ptr = tx[t].ptr /\ tx'[t].be = tx[t].be
      BY <1>2, <2>1, WriteOrigin
    <3>2. b \in latest(t) /\ b \notin coming(x, tx[t].ptr)
      BY <1>2, <3>1, LatestShrinks
    <3>3. current(writes'[k].data, writes'[k].word, b)
      BY <1>2, <3>1, <3>2 DEF Step, IInv, Values
    <3>4. wbuffer[tx[t].ptr].wtag = writes'[k].word
      BY <1>2, <3>1 DEF Step, IInv, Flights
    <3>5. b \in ref'[wbuffer[tx[t].ptr].wtag] <=> b \in ref[wbuffer[tx[t].ptr].wtag]
      BY <3>1, <3>2, TxEntry, RefStable DEF Step
    <3> QED BY <3>3, <3>4, <3>5 DEF current
  <2>2. CASE ~oldWrite(x, k)
    <3> DEFINE d == x.dptr
    <3>1. sends(x) /\ writes'[k] = newWrite(x)
      BY <2>2, WriteOrigin
    <3>2. /\ newTx \in Tx /\ d \in Entry /\ tx_be(d) \subseteq wbuffer[d].dirty /\ tx_be(d) \subseteq wbuffer[d].valid
          /\ wbuffer[d].valid # {}
      BY <3>1, SendFacts, TxBytes DEF Step, IInv
    <3>3. tx'[newTx].ptr = d /\ tx'[newTx].be = tx_be(d)
      BY <3>1, <3>2, TxNext
    <3>4. writes'[k].id = newTx /\ writes'[k].data = wbuffer[d].data /\ writes'[k].word = wbuffer[d].wtag
      BY <3>1 DEF newWrite
    <3>5. b \in tx_be(d) /\ b \notin wbuffer'[d].dirty
      BY <1>2, <3>3, <3>4 DEF latest
    <3>6. b \in wbuffer[d].valid /\ b \notin coming(x, d)
      BY <3>2, <3>5, EntryStep
    <3>7. current(wbuffer[d].data, wbuffer[d].wtag, b)
      BY <3>2, <3>6 DEF Step, IInv, Values
    <3>8. b \in ref'[wbuffer[d].wtag] <=> b \in ref[wbuffer[d].wtag]
      BY <3>2, <3>6, RefStable
    <3> QED BY <3>4, <3>7, <3>8 DEF current
  <2> QED BY <2>1, <2>2
<1>3. ASSUME NEW t \in Tx, tx'[t].vld, performed(t)',
             NEW b \in latest(t)'
      PROVE  b \in mem'[wbuffer'[tx'[t].ptr].wtag] <=> b \in ref'[wbuffer'[tx'[t].ptr].wtag]
  <2>1. performed(t) /\ ~(sends(x) /\ t = newTx)
    <3>1. CASE \E k \in DOMAIN writes' : writes'[k].id = t /\ writes'[k].done
      <4>1. PICK k \in DOMAIN writes' : writes'[k].id = t /\ writes'[k].done
        BY <3>1
      <4>2. oldWrite(x, k)
        BY <4>1, WriteOrigin DEF newWrite
      <4>3. /\ k + acks(x) \in DOMAIN writes /\ writes'[k] = writes[k + acks(x)]
            /\ ~(sends(x) /\ t = newTx)
        BY <4>1, <4>2, WriteOrigin
      <4> QED BY <4>1, <4>3 DEF performed
    <3>2. CASE \E k \in DOMAIN rtrn' : rtrn'[k] = t
      <4>1. PICK k \in DOMAIN rtrn' : rtrn'[k] = t
        BY <3>2
      <4>2. \/ k + leaves(x) \in DOMAIN rtrn /\ t = rtrn[k + leaves(x)]
            \/ 1 \in DOMAIN writes /\ writes[1].done /\ t = writes[1].id
        BY <4>1, RtrnOrigin
      <4>3. tx[t].vld
        BY <4>2 DEF Step, IInv, Flights, TxConsistent
      <4> QED BY <4>2, <4>3, SendFacts DEF performed
    <3> QED BY <1>3, <3>1, <3>2 DEF performed
  <2>2. tx[t].vld /\ tx'[t].ptr = tx[t].ptr /\ tx'[t].be = tx[t].be
    BY <1>3, <2>1, TxNext
  <2>3. b \in latest(t) /\ b \notin coming(x, tx[t].ptr)
    BY <1>3, <2>2, LatestShrinks
  <2>4. current(mem[wbuffer[tx[t].ptr].wtag], wbuffer[tx[t].ptr].wtag, b)
    BY <2>1, <2>2, <2>3 DEF Step, IInv, Values
  <2>5. /\ wbuffer'[tx[t].ptr].wtag = wbuffer[tx[t].ptr].wtag
        /\ b \in ref'[wbuffer[tx[t].ptr].wtag] <=> b \in ref[wbuffer[tx[t].ptr].wtag]
    BY <2>2, <2>3, TxEntry, TagStable, RefStable DEF Step
  <2>6. mem' = mem
    BY CycleQueues DEF Step
  <2> QED BY <2>2, <2>4, <2>5, <2>6 DEF current
<1>4. ASSUME NEW k \in DOMAIN writes' PROVE writes'[k].id \in Tx
  <2>1. writes'[k] \in Write
    BY QueueTypes
  <2> QED BY <2>1 DEF Write
<1>5. \A k \in DOMAIN writes' : \A b \in tx'[writes'[k].id].be \ wbuffer'[tx'[writes'[k].id].ptr].dirty :
        b \in writes'[k].data <=> b \in ref'[writes'[k].word]
  BY <1>2, <1>4 DEF latest
<1> QED BY <1>1, <1>3, <1>5 DEF Values, current, latest

LEMMA StoreReachesMemoryStep ==
    ASSUME NEW x, Step(x)
    PROVE  StoreReachesMemory'
<1> SUFFICES ASSUME NEW w \in Word, NEW b \in Byte, ~(b \in mem'[w] <=> b \in ref'[w])
             PROVE  \E e \in Entry : wbuffer'[e].valid # {} /\ wbuffer'[e].wtag = w /\ b \in wbuffer'[e].valid
  BY DEF StoreReachesMemory, holding, validEntries
<1>0. mem' = mem
  BY CycleQueues DEF Step
<1>1. CASE b \in ref'[w] <=> b \in ref[w]
  <2>1. PICK e \in Entry : wbuffer[e].valid # {} /\ wbuffer[e].wtag = w /\ b \in wbuffer[e].valid
    BY <1>0, <1>1 DEF Step, IInv, StoreReachesMemory, holding, validEntries
  <2>2. b \notin dropped(x, e)
    <3>1. SUFFICES ASSUME evict(x), e = rptr, b \in tx[rid].be, b \notin wbuffer[e].dirty PROVE FALSE
      BY DEF dropped, back
    <3>2. rid \in Tx /\ tx[rid].vld /\ rid = rtrn[1] /\ 1 \in DOMAIN rtrn
      BY <3>1, EvictFacts DEF Step
    <3>3. performed(rid) /\ b \in latest(rid)
      BY <3>1, <3>2 DEF performed, latest, rptr
    <3>4. current(mem[wbuffer[rptr].wtag], wbuffer[rptr].wtag, b)
      BY <3>2, <3>3 DEF Step, IInv, Values, rptr
    <3> QED BY <3>1, <3>4, <2>1, <1>0, <1>1 DEF current
  <2>3. b \in wbuffer'[e].valid /\ wbuffer'[e].wtag = w
    BY <2>1, <2>2, EntryStep, TagStable
  <2> QED BY <2>3
<1>2. CASE ~(b \in ref'[w] <=> b \in ref[w])
  <2>1. accepted(x) # {}
    BY <1>2, RefNext
  <2>2. w = stored(x).word /\ b \in stored(x).be
    BY <1>2, <2>1, RefNext DEF Merge
  <2>3. wr_ptr(stored(x)) \in Entry /\ target(x, wr_ptr(stored(x)))
    BY <2>1, StoreFacts DEF target
  <2>4. b \in wbuffer'[wr_ptr(stored(x))].valid /\ wbuffer'[wr_ptr(stored(x))].wtag = w
    BY <2>2, <2>3, EntryStep DEF coming
  <2> QED BY <2>3, <2>4
<1> QED BY <1>1, <1>2

-----------------------------------------------------------------------------
(* The miss unit, and atomics.                                             *)

LEMMA CycleMemories ==
    ASSUME NEW x, Cycle(x)
    PROVE  /\ mu' = mu_next(x)
           /\ ways' = ways_next(x, wr_ack(x))
           /\ ni_pending' = ni_pending_next(x, evicted(x, invalidated(x, checked(wbuffer))))
           /\ amo' = CASE x.amo # {}         -> [st |-> "req", word |-> CHOOSE w \in x.amo : TRUE]
                       [] x.r = "amo" /\ x.ack -> [amo EXCEPT !.st = "sent"]
                       [] x.resp = "inv"     -> [amo EXCEPT !.st = "issued"]
                       [] x.resp = "amo"     -> [st |-> "none", word |-> NoWord]
                       [] OTHER              -> amo
           /\ owed' = owed + Cardinality({s \in accepted(x) : is_ni(s)})
BY Zenon DEF Cycle

MuRec == [state : MuState, vld : BOOLEAN, vld1 : BOOLEAN, word : Word, nc : BOOLEAN, way : Way,
          port : 0 .. 2, lock : 0 .. 2, ptr : Entry, coll : SUBSET Port, en : BOOLEAN]

allocates(x) == x.r = "load" /\ x.ack

waits(x) == mu_state(x) \in {"STORE_WAIT", "LOAD_WAIT"}

LEMMA MuNext ==
    ASSUME Types, NEW x, Cycle(x)
    PROVE  /\ mu'.state = mu_state(x)
           /\ mu'.vld <=> allocates(x) \/ (mu.vld /\ ~load_ack(x))
           /\ mu'.vld1 = mu.vld
           /\ mu'.coll = {p \in Port : mshr_rdrd_collision_d(p)}
           /\ mu'.lock = IF waits(x) THEN miss_port_idx ELSE W
           /\ mu'.ptr = IF waits(x) /\ x.r = "store" THEN x.dptr ELSE 0
           /\ mu'.en <=> x.en /\ (mu.en \/ flush_en)
           /\ allocates(x) =>
                /\ mu'.word = port[miss_port_idx].word /\ mu'.way = x.way
                /\ mu'.nc = nc(port[miss_port_idx].word) /\ mu'.port = miss_port_idx
           /\ ~allocates(x) =>
                mu'.word = mu.word /\ mu'.way = mu.way /\ mu'.nc = mu.nc /\ mu'.port = mu.port
           /\ DOMAIN mu' = DOMAIN mu
<1> DEFINE m == IF allocates(x)
                THEN [mu EXCEPT !.word = port[miss_port_idx].word, !.way = x.way,
                                !.nc = nc(port[miss_port_idx].word), !.port = miss_port_idx]
                ELSE mu
<1>1. mu' = [m EXCEPT !.state = mu_state(x),
                  !.vld   = allocates(x) \/ (@ /\ ~load_ack(x)),
                  !.vld1  = mu.vld,
                  !.coll  = {p \in Port : mshr_rdrd_collision_d(p)},
                  !.lock  = IF waits(x) THEN miss_port_idx ELSE W,
                  !.ptr   = IF waits(x) /\ x.r = "store" THEN x.dptr ELSE 0,
                  !.en    = x.en /\ (@ \/ flush_en)]
  BY CycleMemories, Zenon DEF mu_next, allocates, waits
<1>2. /\ DOMAIN m = {"state", "vld", "vld1", "word", "nc", "way", "port", "lock", "ptr", "coll", "en"}
      /\ DOMAIN m = DOMAIN mu
      /\ m.vld = mu.vld /\ m.en = mu.en
      /\ allocates(x) => /\ m.word = port[miss_port_idx].word /\ m.way = x.way
                         /\ m.nc = nc(port[miss_port_idx].word) /\ m.port = miss_port_idx
      /\ ~allocates(x) => m.word = mu.word /\ m.way = mu.way /\ m.nc = mu.nc /\ m.port = mu.port
      /\ m.vld \in BOOLEAN /\ m.en \in BOOLEAN
  <2>1. mu \in MuRec
    BY DEF Types, MuRec
  <2>2. CASE allocates(x)
    BY <2>1, <2>2 DEF MuRec
  <2>3. CASE ~allocates(x)
    BY <2>1, <2>3 DEF MuRec
  <2> QED BY <2>2, <2>3
<1> HIDE DEF m
<1> QED BY <1>1, <1>2

LEMMA StoreWaitsStep ==
    ASSUME NEW x, Step(x)
    PROVE  StoreWaits'
<1> SUFFICES ASSUME mu_state(x) = "STORE_WAIT"
             PROVE  mu'.ptr \in dirty' /\ freeTx' # {}
  BY MuNext DEF StoreWaits, Step, IInv
<1> DEFINE d == x.dptr
<1>1. x.r = "store" /\ ~x.ack
  <2>1. mu.state \in MuState
    BY DEF Step, IInv, Types
  <2>2. x.r = mem_data_req(x)
    BY InputFacts DEF Step, IInv
  <2> QED BY <2>1, <2>2 DEF mu_state, mem_data_req, MuState
<1>2. mu'.ptr = d
  BY <1>1, MuNext DEF waits, Step, IInv
<1>3. d \in dirty /\ freeTx # {}
  BY <1>1, InputFacts DEF Step, IInv
<1>4. d \in Entry /\ wbuffer[d].txblock = {} /\ wbuffer[d].dirty \intersect wbuffer[d].valid # {}
  BY <1>3 DEF dirty, bdirty
<1>5. ~sends(x)
  BY <1>1 DEF sends
<1>6. back(x, d) = {}
  <2>1. SUFFICES ASSUME evict(x), d = rptr PROVE FALSE
    BY DEF back
  <2> QED BY <2>1, <1>4, EvictFacts DEF Step
<1>7. /\ wbuffer'[d].txblock = {} /\ wbuffer[d].valid \subseteq wbuffer'[d].valid
      /\ wbuffer[d].dirty \subseteq wbuffer'[d].dirty
  BY <1>4, <1>5, <1>6, EntryStep DEF going, dropped
<1>8. d \in dirty'
  BY <1>4, <1>7 DEF dirty, bdirty
<1>9. freeTx' # {}
  <2>1. PICK t \in Tx : ~tx[t].vld
    BY <1>3 DEF freeTx
  <2>2. ~tx'[t].vld
    BY <2>1, <1>5, TxNext
  <2> QED BY <2>2 DEF freeTx
<1> QED BY <1>2, <1>8, <1>9

\* While an atomic is requested nothing comes into an empty buffer.
LEMMA StaysEmpty ==
    ASSUME NEW x, Step(x), empty, amo.st # "none"
    PROVE  empty'
<1>1. accepted(x) = {}
  BY StoreFacts
<1>2. ASSUME NEW e \in Entry PROVE wbuffer'[e].valid = {}
  <2>1. wbuffer[e].valid = {}
    BY DEF empty, validEntries
  <2> QED BY <1>1, <2>1, EntryStep DEF coming, target
<1> QED BY <1>2 DEF empty, validEntries

LEMMA WaysNext ==
    ASSUME Types, NEW x, Cycle(x), NEW y \in Way
    PROVE  /\ y \in x.we /\ load_ack(x) =>
                ways'[y] = [vld |-> TRUE, line |-> lineOf(mu.word), data |-> read.data]
           /\ y \in x.we /\ ~load_ack(x) => ~ways'[y].vld /\ ways'[y].line = ways[y].line /\ ways'[y].data = ways[y].data
           /\ y \notin x.we => ways'[y].vld = ways[y].vld /\ ways'[y].line = ways[y].line
<1>1. ways' = ways_next(x, wr_ack(x))
  BY CycleMemories
<1>2. ways[y] \in [vld : BOOLEAN, line : Line, data : [Off -> Data]]
  BY DEF Types
<1>3. CASE y \in x.we
  BY <1>1, <1>2, <1>3 DEF ways_next
<1>4. CASE y \notin x.we
  BY <1>1, <1>2, <1>4 DEF ways_next
<1> QED BY <1>3, <1>4

LEMMA AmoNext ==
    ASSUME NEW x, Step(x)
    PROVE  /\ amo.st # "none" => x.amo = {}
           /\ x.amo # {} => amo'.st = "req"
           /\ x.amo = {} /\ x.r = "amo" /\ x.ack => amo'.st = "sent"
           /\ x.amo = {} /\ ~(x.r = "amo" /\ x.ack) /\ x.resp = "inv" => amo'.st = "issued" /\ amo.st = "sent"
           /\ x.amo = {} /\ ~(x.r = "amo" /\ x.ack) /\ x.resp = "amo" => amo'.st = "none" /\ amo.st = "done"
           /\ x.amo = {} /\ ~(x.r = "amo" /\ x.ack) /\ x.resp \notin {"inv", "amo"} => amo' = amo
<1>1. amo \in [st : {"none", "req", "sent", "issued", "done"}, word : Word]
  BY DEF Step, IInv, Types
<1>2. (amo.st # "none" => x.amo = {}) /\ x.resp \in responses
  BY InputFacts DEF Step, IInv
<1>3. (x.resp = "inv" => amo.st = "sent") /\ (x.resp = "amo" => amo.st = "done")
  BY <1>1, <1>2 DEF responses
<1>4. amo' = CASE x.amo # {}         -> [st |-> "req", word |-> CHOOSE w \in x.amo : TRUE]
               [] x.r = "amo" /\ x.ack -> [amo EXCEPT !.st = "sent"]
               [] x.resp = "inv"     -> [amo EXCEPT !.st = "issued"]
               [] x.resp = "amo"     -> [st |-> "none", word |-> NoWord]
               [] OTHER              -> amo
  BY CycleMemories DEF Step
<1>7. x.r = "amo" => amo.st = "req"
  <2>1. x.r = mem_data_req(x) /\ mu.state \in MuState
    BY InputFacts DEF Step, IInv, Types
  <2>2. x.r = "amo" => mu.state = "AMO"
    BY <2>1 DEF mem_data_req, MuState
  <2> QED BY <1>1, <2>2 DEF Step, IInv, AmoAlone
<1>5. CASE x.amo # {}
  <2>1. amo.st = "none"
    BY <1>5, <1>2, <1>1
  <2>2. ~(x.r = "amo" /\ x.ack) /\ x.resp # "inv" /\ x.resp # "amo"
    BY <2>1, <1>3, <1>7
  <2>3. amo' = [st |-> "req", word |-> CHOOSE w \in x.amo : TRUE]
    BY <1>4, <1>5, <2>2, Zenon
  <2> QED BY <1>5, <1>2, <2>3
<1>6. CASE x.amo = {}
  <2>1. CASE x.r = "amo" /\ x.ack
    <3>1. x.resp # "inv" /\ x.resp # "amo"
      BY <2>1, <1>3, <1>7
    <3>2. amo' = [amo EXCEPT !.st = "sent"]
      BY <1>4, <1>6, <2>1, <3>1, Zenon
    <3> QED BY <1>1, <1>6, <2>1, <3>2
  <2>2. CASE ~(x.r = "amo" /\ x.ack) /\ x.resp = "inv"
    <3>1. amo' = [amo EXCEPT !.st = "issued"]
      BY <1>4, <1>6, <2>2, <1>3
    <3> QED BY <1>1, <1>3, <1>6, <2>2, <3>1
  <2>3. CASE ~(x.r = "amo" /\ x.ack) /\ x.resp = "amo"
    <3>1. amo' = [st |-> "none", word |-> NoWord]
      BY <1>4, <1>6, <2>3, <1>3
    <3> QED BY <1>1, <1>3, <1>6, <2>3, <3>1
  <2>4. CASE ~(x.r = "amo" /\ x.ack) /\ x.resp \notin {"inv", "amo"}
    <3>1. amo' = amo
      BY <1>4, <1>6, <2>4
    <3> QED BY <1>6, <2>4, <3>1
  <2> QED BY <2>1, <2>2, <2>3, <2>4
<1> QED BY <1>5, <1>6

LEMMA AmoAloneStep ==
    ASSUME NEW x, Step(x)
    PROVE  AmoAlone'
<1>0. /\ amo \in [st : {"none", "req", "sent", "issued", "done"}, word : Word]
      /\ mu.state \in MuState /\ mu'.state = mu_state(x) /\ x.r = mem_data_req(x)
      /\ mu'.vld <=> allocates(x) \/ (mu.vld /\ ~load_ack(x))
      /\ x.ack \in BOOLEAN
  BY InputFacts, MuNext DEF Step, IInv, Types
<1>1. /\ mu.state \in {"AMO", "AMO_WAIT"} => amo.st # "none" /\ empty /\ ~mu.vld
      /\ amo.st \in {"sent", "issued", "done"} => mu.state = "AMO_WAIT"
  BY DEF Step, IInv, AmoAlone
<1>2. ASSUME mu_state(x) \in {"AMO", "AMO_WAIT"} PROVE amo'.st # "none" /\ empty' /\ ~mu'.vld
  <2>1. amo.st # "none" /\ empty /\ ~mu.vld
    BY <1>0, <1>1, <1>2 DEF mu_state, MuState, drained
  <2>2. x.r # "load"
    BY <1>0, <1>2, <2>1 DEF mu_state, MuState, mem_data_req
  <2>3. x.resp # "amo"
    BY <1>0, <1>1, <1>2, <2>1, InputFacts DEF responses, mu_state, MuState, Step, IInv
  <2>4. amo'.st # "none"
    BY <2>1, <2>3, AmoNext
  <2>5. empty'
    BY <2>1, StaysEmpty
  <2> QED BY <1>0, <2>1, <2>2, <2>4, <2>5 DEF allocates
<1>3. ASSUME amo'.st \in {"sent", "issued", "done"} PROVE mu_state(x) = "AMO_WAIT"
  <2>1. CASE x.r = "amo" /\ x.ack
    BY <1>0, <2>1 DEF mem_data_req, mu_state, MuState
  <2>2. CASE ~(x.r = "amo" /\ x.ack)
    <3>1. amo.st \in {"sent", "issued", "done"} /\ x.resp # "amo"
      BY <1>0, <1>3, <2>2, AmoNext
    <3> QED BY <1>0, <1>1, <3>1 DEF mu_state
  <2> QED BY <2>1, <2>2
<1>4. ASSUME amo'.st = "issued", NEW y \in Way PROVE ~ways'[y].vld
  <2>1. mu_state(x) = "AMO_WAIT"
    BY <1>3, <1>4
  <2>2. ~(x.r = "amo" /\ x.ack)
    BY <1>0, <1>4, AmoNext
  <2>3. CASE x.resp = "inv"
    <3>1. x.we = Way /\ ~load_ack(x)
      BY <2>3, InputFacts DEF wr_cl_we, load_ack, Step, IInv
    <3> QED BY <3>1, WaysNext DEF Step, IInv
  <2>4. CASE x.resp # "inv"
    <3>1. amo.st = "issued"
      BY <1>0, <1>4, <2>2, <2>4, AmoNext
    <3>2. ~mu.vld /\ ~ways[y].vld
      BY <1>1, <3>1 DEF Step, IInv, AmoAlone
    <3>3. ~load_ack(x)
      BY <3>2 DEF load_ack
    <3> QED BY <3>2, <3>3, WaysNext DEF Step, IInv
  <2> QED BY <2>3, <2>4
<1> QED BY <1>0, <1>2, <1>3, <1>4 DEF AmoAlone

-----------------------------------------------------------------------------
(* Non-idempotent stores.                                                  *)

niStored(x) == accepted(x) # {} /\ is_ni(stored(x))

LEMMA AlignedNonempty ==
    ASSUME NEW B, aligned(B)
    PROVE  B # {}
<1>1. PICK s \in {1, 2, 4, 8}, k \in 0 .. 7 : B = k * s .. k * s + s - 1
  BY DEF aligned
<1>2. k * s \in Int
  BY <1>1
<1>3. k * s \in k * s .. k * s + s - 1
  BY <1>1, <1>2
<1> QED BY <1>1, <1>3

\* A non-idempotent store is accepted when no other is in the buffer, and it
\* goes to a free entry.
LEMMA NiStoreFacts ==
    ASSUME NEW x, Step(x), niStored(x)
    PROVE  LET w == wr_ptr(stored(x))
           IN  /\ ni_pending = {} /\ w \in Entry
               /\ wbuffer[w].valid = {} /\ wbuffer[w].dirty = {} /\ wbuffer[w].txblock = {}
               /\ \A t \in Tx : tx[t].vld => tx[t].ptr # w
               /\ ~(sends(x) /\ x.dptr = w)
<1> DEFINE w == wr_ptr(stored(x))
<1>1. /\ ~ni_conflict(stored(x)) /\ w \in Entry
      /\ wbuffer[w].valid = {} \/ wbuffer[w].wtag = stored(x).word
  BY StoreFacts DEF niStored
<1>2. ni_pending = {}
  BY <1>1 DEF niStored, ni_conflict
<1>3. wbuffer[w].valid = {}
  BY <1>1, <1>2 DEF niStored, is_ni, Step, IInv, NiAlone
<1>4. wbuffer[w].dirty = {} /\ wbuffer[w].txblock = {}
  BY <1>1, <1>3 DEF Step, IInv, TxConsistent
<1>5. \A t \in Tx : tx[t].vld => tx[t].ptr # w
  BY <1>3, TxEntry DEF Step
<1>6. ~(sends(x) /\ x.dptr = w)
  BY <1>4, SendFacts
<1> QED BY <1>1, <1>2, <1>3, <1>4, <1>5, <1>6

LEMMA NiNext ==
    ASSUME NEW x, Step(x), NEW e \in Entry
    PROVE  /\ e \in ni_pending' <=> IF target(x, e) THEN is_ni(stored(x))
                                    ELSE e \in ni_pending /\ wbuffer'[e].valid # {}
           /\ target(x, e) => wbuffer'[e].valid # {}
           /\ ni_pending' \subseteq Entry
<1> DEFINE wb == evicted(x, invalidated(x, checked(wbuffer)))
<1>1. ni_pending' = ni_pending_next(x, wb)
  BY CycleMemories DEF Step
<1>2. wb[e].valid = wbuffer[e].valid \ dropped(x, e)
  BY EntryStep
<1>3. wbuffer'[e].valid = (wbuffer[e].valid \ dropped(x, e)) \union coming(x, e)
  BY EntryStep
<1>4. ni_pending \subseteq Entry
  BY DEF Step, IInv, Types
<1> HIDE DEF wb
<1>5. CASE accepted(x) = {}
  BY <1>1, <1>2, <1>3, <1>4, <1>5 DEF ni_pending_next, target, coming
<1>6. CASE accepted(x) # {}
  <2>1. accepted(x) = {stored(x)} /\ wr_ptr(stored(x)) \in Entry /\ aligned(stored(x).be)
    BY <1>6, StoreFacts
  <2>2. target(x, e) => wbuffer'[e].valid # {}
    BY <1>3, <2>1, AlignedNonempty DEF coming
  <2>3. ni_pending' = ({f \in ni_pending : wb[f].valid # {}} \ {wr_ptr(stored(x))})
                        \union (IF is_ni(stored(x)) THEN {wr_ptr(stored(x))} ELSE {})
    BY <1>1, <2>1 DEF ni_pending_next
  <2>4. target(x, e) <=> e = wr_ptr(stored(x))
    BY <1>6 DEF target
  <2> QED BY <1>2, <1>3, <1>4, <2>1, <2>2, <2>3, <2>4 DEF coming
<1> QED BY <1>5, <1>6

\* An entry that was non-idempotent before is not the one that is written.
LEMMA NiStays ==
    ASSUME NEW x, Step(x), NEW e \in ni_pending
    PROVE  /\ e \in Entry /\ ~target(x, e)
           /\ e \in ni_pending' <=> wbuffer'[e].valid # {}
           /\ wbuffer'[e].dirty = wbuffer[e].dirty \ going(x, e)
           /\ wbuffer'[e].txblock = (wbuffer[e].txblock \ back(x, e)) \union going(x, e)
<1>1. e \in Entry /\ wbuffer[e].valid # {} /\ lineOf(wbuffer[e].wtag) \in NiLine
  BY DEF Step, IInv, Types, NiAlone
<1>2. ~target(x, e)
  <2>1. SUFFICES ASSUME target(x, e) PROVE FALSE
    OBVIOUS
  <2>2. wbuffer[e].wtag = stored(x).word /\ ~ni_conflict(stored(x))
    BY <2>1, <1>1, StoreFacts DEF target
  <2> QED BY <1>1, <2>2 DEF ni_conflict, is_ni
<1>3. coming(x, e) = {}
  BY <1>2 DEF coming
<1> QED BY <1>1, <1>2, <1>3, NiNext, EntryStep

LEMMA NiCount ==
    ASSUME NEW x, Step(x)
    PROVE  owed' = owed + (IF niStored(x) THEN 1 ELSE 0)
<1>1. owed' = owed + Cardinality({s \in accepted(x) : is_ni(s)}) /\ owed \in Int
  BY CycleMemories DEF Step, IInv, Types
<1>2. CASE niStored(x)
  <2>1. {s \in accepted(x) : is_ni(s)} = {stored(x)}
    BY <1>2, StoreFacts DEF niStored
  <2>2. Cardinality({stored(x)}) = 1
    BY FS_Singleton
  <2> QED BY <1>1, <1>2, <2>1, <2>2
<1>3. CASE ~niStored(x)
  <2>1. {s \in accepted(x) : is_ni(s)} = {}
    BY <1>3, StoreFacts DEF niStored
  <2>2. Cardinality({}) = 0
    BY FS_EmptySet
  <2> QED BY <1>1, <1>3, <2>1, <2>2
<1> QED BY <1>2, <1>3

\* A write that is on its way after a cycle belongs to a valid entry.
LEMMA WriteEntry ==
    ASSUME NEW x, Step(x), NEW k \in DOMAIN writes'
    PROVE  /\ tx'[writes'[k].id].ptr \in Entry
           /\ wbuffer'[tx'[writes'[k].id].ptr].valid # {}
<1> DEFINE t == writes'[k].id
<1>1. t \in Tx
  BY WriteOrigin, SendFacts DEF newWrite
<1>2. tx'[t].vld
  BY FlightsStep DEF Flights
<1>3. tx'[t].be # {} /\ tx'[t].ptr \in Entry
  BY <1>1, <1>2, FlightsStep, TxNext DEF Flights
<1>4. tx'[t].be \subseteq wbuffer'[tx'[t].ptr].txblock
  BY <1>1, <1>2, <1>3, TxConsistentStep DEF TxConsistent
<1>5. wbuffer'[tx'[t].ptr].txblock \subseteq wbuffer'[tx'[t].ptr].valid
  BY <1>3, TxConsistentStep DEF TxConsistent
<1> QED BY <1>3, <1>4, <1>5

\* Without a new store, what memory owes to a non-idempotent entry stays.
LEMMA NiOwed ==
    ASSUME NEW x, Step(x), ~niStored(x)
    PROVE  (\E e \in ni_pending' : unperformed(e)') <=> \E e \in ni_pending : unperformed(e)
<1>0. ni_pending \subseteq Entry /\ ni_pending' \subseteq Entry
  <2>1. 0 \in Entry
    BY CacheAssumption DEF Entry
  <2> QED BY <2>1, NiNext DEF Step, IInv, Types
<1>1. ASSUME NEW e \in ni_pending', unperformed(e)' PROVE e \in ni_pending /\ unperformed(e)
  <2>1. e \in Entry /\ e \in ni_pending
    BY <1>0, NiNext DEF niStored, target
  <2>2. CASE wbuffer'[e].dirty # {}
    BY <2>1, <2>2, NiStays DEF unperformed
  <2>3. CASE wbuffer'[e].dirty = {}
    <3>1. PICK k \in DOMAIN writes' : ~writes'[k].done /\ tx'[writes'[k].id].ptr = e
      BY <1>1, <2>3 DEF unperformed
    <3>2. CASE oldWrite(x, k)
      <4>1. k + acks(x) \in DOMAIN writes /\ ~writes[k + acks(x)].done /\ tx[writes[k + acks(x)].id].ptr = e
        BY <3>1, <3>2, WriteOrigin
      <4> QED BY <2>1, <4>1 DEF unperformed
    <3>3. CASE ~oldWrite(x, k)
      <4>1. sends(x) /\ writes'[k].id = newTx
        BY <3>3, WriteOrigin DEF newWrite
      <4>2. tx'[newTx].ptr = x.dptr /\ newTx \in Tx
        BY <4>1, TxNext, SendFacts
      <4>3. e = x.dptr /\ wbuffer[e].dirty # {}
        BY <3>1, <4>1, <4>2, SendFacts
      <4> QED BY <2>1, <4>3 DEF unperformed
    <3> QED BY <3>2, <3>3
  <2> QED BY <2>2, <2>3
<1>2. ASSUME NEW e \in ni_pending, unperformed(e) PROVE e \in ni_pending' /\ unperformed(e)'
  <2>1. e \in Entry /\ (e \in ni_pending' <=> wbuffer'[e].valid # {}) /\ wbuffer'[e].dirty = wbuffer[e].dirty \ going(x, e)
    BY NiStays
  <2>2. SUFFICES \/ wbuffer'[e].dirty # {}
                 \/ \E k \in DOMAIN writes' : ~writes'[k].done /\ tx'[writes'[k].id].ptr = e
    <3>1. wbuffer'[e].dirty \subseteq wbuffer'[e].valid
      BY <2>1, TxConsistentStep DEF TxConsistent
    <3>2. wbuffer'[e].valid # {}
      BY <3>1, <2>2, WriteEntry
    <3> QED BY <2>1, <2>2, <3>2 DEF unperformed
  <2>3. CASE sends(x) /\ e = x.dptr
    <3> DEFINE k == Len(writes) - acks(x) + 1
    <3>1. k \in DOMAIN writes' /\ writes'[k] = newWrite(x)
      <4>0. Len(writes) - acks(x) \in Nat /\ Len(writes') = Len(writes) - acks(x) + 1 /\ writes' \in Seq(Write)
        BY <2>3, WritesNext DEF adds
      <4>1. k \in 1 .. Len(writes')
        BY <4>0
      <4> QED BY <4>0, <4>1, <2>3, WritesNext
    <3>2. ~writes'[k].done /\ writes'[k].id = newTx
      BY <3>1 DEF newWrite
    <3>3. tx'[newTx].ptr = e
      BY <2>3, SendFacts, TxNext
    <3> QED BY <3>1, <3>2, <3>3
  <2>4. CASE ~(sends(x) /\ e = x.dptr) /\ wbuffer[e].dirty # {}
    BY <2>1, <2>4 DEF going
  <2>5. CASE wbuffer[e].dirty = {}
    <3>1. PICK k \in DOMAIN writes : ~writes[k].done /\ tx[writes[k].id].ptr = e
      BY <1>2, <2>5 DEF unperformed
    <3> DEFINE j == k - acks(x)
    <3>2. j \in DOMAIN writes' /\ writes'[j] = writes[k]
      <4>0. k \in 1 .. Len(writes) /\ acks(x) \in 0 .. 1 /\ adds(x) \in 0 .. 1 /\ Len(writes) \in Nat
        BY QueueTypes
      <4>1. k = 1 => acks(x) = 0
        BY <3>1, WritesNext DEF acks
      <4>2. j \in 1 .. Len(writes) - acks(x) /\ j + acks(x) = k
        BY <4>0, <4>1
      <4>3. j \in 1 .. Len(writes')
        BY <4>0, <4>2, WritesNext
      <4> QED BY <4>2, <4>3, WritesNext
    <3>3. tx'[writes[k].id].ptr = tx[writes[k].id].ptr
      <4>1. writes[k].id \in Tx /\ tx[writes[k].id].vld
        BY QueueTypes DEF Step, IInv, Flights
      <4> QED BY <4>1, SendFacts, TxNext
    <3> QED BY <3>1, <3>2, <3>3
  <2> QED BY <2>3, <2>4, <2>5
<1> QED BY <1>1, <1>2

LEMMA NiAloneStep ==
    ASSUME NEW x, Step(x)
    PROVE  NiAlone'
<1>0. ni_pending \subseteq Entry /\ ni_pending' \subseteq Entry /\ NiAlone /\ owed \in Int
  <2>1. 0 \in Entry
    BY CacheAssumption DEF Entry
  <2> QED BY <2>1, NiNext DEF Step, IInv, Types
<1>1. ASSUME NEW e \in Entry
      PROVE  e \in ni_pending' <=> wbuffer'[e].valid # {} /\ lineOf(wbuffer'[e].wtag) \in NiLine
  <2>1. wbuffer'[e].wtag = IF target(x, e) THEN stored(x).word ELSE wbuffer[e].wtag
    BY EntryStep
  <2>2. CASE target(x, e)
    BY <2>1, <2>2, NiNext DEF is_ni
  <2>3. CASE ~target(x, e)
    <3>1. wbuffer'[e].valid \subseteq wbuffer[e].valid
      BY <2>3, EntryStep DEF coming
    <3> QED BY <2>1, <2>3, <3>1, <1>0, NiNext DEF NiAlone
  <2> QED BY <2>2, <2>3
<1>2. ASSUME NEW e \in ni_pending'
      PROVE  (niStored(x) /\ target(x, e)) \/ (~niStored(x) /\ e \in ni_pending)
  <2>1. CASE target(x, e)
    BY <2>1, <1>0, NiNext DEF niStored, target
  <2>2. CASE ~target(x, e)
    <3>1. e \in ni_pending
      BY <1>0, <2>2, NiNext
    <3> QED BY <3>1, NiStoreFacts
  <2> QED BY <2>1, <2>2
<1>3. ASSUME NEW e \in ni_pending', NEW f \in ni_pending' PROVE e = f
  BY <1>2, <1>0 DEF NiAlone, target
<1>4. ASSUME NEW e \in ni_pending', wbuffer'[e].dirty # {}
      PROVE  wbuffer'[e].txblock = {} /\ aligned(wbuffer'[e].dirty)
  <2>0. e \in Entry
    BY <1>0
  <2>1. CASE niStored(x) /\ target(x, e)
    <3>1. wbuffer[e].dirty = {} /\ wbuffer[e].txblock = {} /\ ~(sends(x) /\ x.dptr = e)
      BY <2>1, NiStoreFacts DEF target
    <3>2. wbuffer'[e].txblock = {} /\ wbuffer'[e].dirty = stored(x).be
      <4>1. going(x, e) = {} /\ coming(x, e) = stored(x).be
        BY <2>1, <3>1 DEF coming, going
      <4>2. /\ wbuffer'[e].dirty = (wbuffer[e].dirty \ going(x, e)) \union coming(x, e)
            /\ wbuffer'[e].txblock = (wbuffer[e].txblock \ back(x, e)) \union going(x, e)
        BY <2>0, EntryStep
      <4> QED BY <3>1, <4>1, <4>2
    <3> QED BY <2>1, <3>2, StoreFacts DEF target
  <2>2. CASE e \in ni_pending
    <3>1. /\ wbuffer'[e].dirty = wbuffer[e].dirty \ going(x, e)
          /\ wbuffer'[e].txblock = (wbuffer[e].txblock \ back(x, e)) \union going(x, e)
      BY <2>2, NiStays
    <3>2. wbuffer[e].dirty # {} /\ wbuffer[e].txblock = {} /\ aligned(wbuffer[e].dirty)
      BY <1>0, <1>4, <2>2, <3>1 DEF NiAlone
    <3>3. ~(sends(x) /\ e = x.dptr)
      <4>1. SUFFICES ASSUME sends(x), e = x.dptr PROVE FALSE
        OBVIOUS
      <4>2. wbuffer[e].dirty \intersect wbuffer[e].valid = wbuffer[e].dirty
        BY <2>0 DEF Step, IInv, TxConsistent
      <4>3. tx_be(e) = wbuffer[e].dirty
        BY <3>2, <4>1, <4>2, SendFacts, TxBytes DEF Step, IInv
      <4> QED BY <1>4, <3>1, <4>1, <4>3 DEF going
    <3> QED BY <3>1, <3>2, <3>3 DEF going
  <2> QED BY <1>2, <2>1, <2>2
<1>5. ASSUME NEW t \in Tx, NEW u \in Tx, tx'[t].vld, tx'[u].vld, tx'[t].ptr = tx'[u].ptr, tx'[t].ptr \in ni_pending'
      PROVE  t = u
  <2>1. CASE niStored(x) /\ target(x, tx'[t].ptr)
    <3>1. /\ \A v \in Tx : tx[v].vld => tx[v].ptr # tx'[t].ptr
          /\ ~(sends(x) /\ x.dptr = tx'[t].ptr)
      BY <2>1, NiStoreFacts DEF target
    <3> QED BY <1>5, <3>1, TxNext
  <2>2. CASE tx'[t].ptr \in ni_pending
    <3>1. CASE sends(x) /\ (t = newTx \/ u = newTx)
      BY <1>5, <3>1, TxNext, SendFacts
    <3>2. CASE ~(sends(x) /\ (t = newTx \/ u = newTx))
      <4>1. tx[t].vld /\ tx[u].vld /\ tx[t].ptr = tx'[t].ptr /\ tx[u].ptr = tx'[t].ptr
        BY <1>5, <3>2, TxNext
      <4> QED BY <1>0, <2>2, <4>1 DEF NiAlone
    <3> QED BY <3>1, <3>2
  <2> QED BY <1>5, <1>2, <2>1, <2>2
<1>6. owed' = IF \E e \in ni_pending' : unperformed(e)' THEN 1 ELSE 0
  <2>0. owed = IF \E e \in ni_pending : unperformed(e) THEN 1 ELSE 0
    BY <1>0 DEF NiAlone
  <2>1. CASE niStored(x)
    <3>0. PICK e \in Entry : e = wr_ptr(stored(x))
      BY <2>1, NiStoreFacts
    <3>1. ni_pending = {}
      BY <2>1, NiStoreFacts
    <3>2. owed' = 1
      BY <2>0, <2>1, <3>1, NiCount
    <3>3. target(x, e)
      BY <2>1, <3>0 DEF niStored, target
    <3>4. e \in ni_pending'
      BY <2>1, <3>1, <3>3, NiNext DEF niStored
    <3>5. stored(x).be # {} /\ stored(x).be \subseteq wbuffer'[e].dirty
      BY <2>1, <3>1, <3>3, StoreFacts, AlignedNonempty, EntryStep DEF coming, niStored
    <3>6. unperformed(e)'
      BY <3>5 DEF unperformed
    <3> QED BY <3>2, <3>4, <3>6
  <2>2. CASE ~niStored(x)
    <3>1. owed' = owed
      BY <2>2, <1>0, NiCount
    <3> QED BY <2>0, <2>2, <3>1, NiOwed
  <2> QED BY <2>1, <2>2
<1> QED BY <1>1, <1>3, <1>4, <1>5, <1>6 DEF NiAlone

-----------------------------------------------------------------------------
(* The registers keep their types.                                         *)

LEMMA Constants ==
    /\ 0 \in Entry /\ NoWord \in Word /\ NoData \in Data /\ W \in 0 .. 2
    /\ Port \subseteq 0 .. 2 /\ Port \union {W} \subseteq Nat /\ W \notin Port
    /\ \A w \in Word : lineOf(w) \in Line /\ bankOf(w) \in Off
<1>1. 0 \in Entry
  BY CacheAssumption DEF Entry
<1>2. Word # {}
  <2>1. PICK l \in Line, o \in Off : TRUE
    BY CacheAssumption
  <2>2. <<l, o>> \in Line \X Off
    OBVIOUS
  <2> QED BY <2>2 DEF Word
<1>3. NoWord \in Word
  BY <1>2 DEF NoWord
<1>4. \A w \in Word : lineOf(w) \in Line /\ bankOf(w) \in Off
  BY DEF Word, lineOf, bankOf
<1> QED BY <1>1, <1>3, <1>4, CacheAssumption DEF W, NoData, Data

\* The inputs of a cycle are words, ways and entries.
LEMMA InputTypes ==
    ASSUME NEW x, Step(x)
    PROVE  /\ \A p \in Port : x.req[p] \subseteq Word
           /\ x.amo \subseteq Word
           /\ x.sel \in Port \union {W} => x.sel \in 0 .. 2
           /\ x.sel = W => x.ptr \in tocheck /\ x.ptr \in Entry
           /\ x.way \in Way
<1>1. PICK i \in Env : \E c \in choices(i) : x = signals(i, c)
  BY DEF Step, CycleIn
<1>2. PICK c \in choices(i) : x = signals(i, c)
  BY <1>1
<1>3. x.req = i.req /\ x.sel = c.sel /\ x.ptr = c.ptr /\ x.way = c.way
  BY <1>2 DEF signals
<1>4. work \in Workload /\ mu.way \in Way
  BY DEF Step, IInv, Types
<1>5. ASSUME NEW p \in Port PROVE x.req[p] \subseteq Word
  <2>1. i.req[p] \in wants(p)
    BY DEF Env, requests
  <2>2. work.loads[p] \subseteq Word
    BY <1>4, WorkloadAssumption
  <2> QED BY <1>3, <2>1, <2>2 DEF wants
<1>6. x.amo \subseteq Word
  <2>1. work.amos \subseteq Word
    BY <1>4, WorkloadAssumption
  <2> QED BY <2>1, InputFacts DEF Step, IInv
<1>7. c.sel \in arbiter(i) /\ c.way \in Way /\ (arbiter(i) = {W} => c.ptr \in tocheck)
  BY <1>4 DEF choices
<1>8. x.sel = W => x.ptr \in tocheck /\ x.ptr \in Entry
  <2>1. SUFFICES ASSUME W \in arbiter(i) PROVE arbiter(i) = {W}
    BY <1>3, <1>7 DEF tocheck, validEntries
  <2> QED BY <2>1, Constants DEF arbiter, W
<1> QED BY <1>3, <1>5, <1>6, <1>7, <1>8, Constants

\* The word that a port presents to the memories.
LEMMA RdWordType ==
    ASSUME NEW x, Step(x), NEW p \in Port
    PROVE  /\ gnt(x, p) => requested(x, p) \in Word
           /\ (IF gnt(x, p) THEN requested(x, p) ELSE port[p].word) \in Word
           /\ rd_word(x, p) \in Word
<1>1. gnt(x, p) => requested(x, p) \in Word
  <2>1. gnt(x, p) => x.req[p] # {}
    BY DEF gnt, ctrl_gnt
  <2>2. x.req[p] \subseteq Word
    BY InputTypes
  <2> QED BY <2>1, <2>2 DEF requested
<1>2. port[p].word \in Word /\ p # W
  BY Constants DEF Step, IInv, Types
<1> QED BY <1>1, <1>2 DEF rd_word

LEMMA MissPort ==
    ASSUME NEW x, Step(x)
    PROVE  /\ waits(x) => miss_port_idx \in 0 .. 2
           /\ x.r = "load" => miss_port_idx \in Port
<1>0. mu.state \in MuState /\ mu.lock \in 0 .. 2 /\ x.r = mem_data_req(x) /\ x.ack \in BOOLEAN
  BY InputFacts DEF Step, IInv, Types
<1>1. CASE lock_reqs
  <2>1. miss_req_masked = {mu.lock}
    BY <1>1 DEF miss_req_masked
  <2>2. {mu.lock} \subseteq Nat
    BY <1>0
  <2>3. miss_port_idx = mu.lock
    BY <2>1, <2>2, MinMember DEF miss_port_idx
  <2>4. x.r = "load" => mu.state = "LOAD_WAIT"
    BY <1>0, <1>1 DEF lock_reqs, mem_data_req
  <2> QED BY <1>0, <2>3, <2>4 DEF Step, IInv, LoadWaits
<1>2. CASE ~lock_reqs
  <2>1. waits(x) \/ x.r = "load" => mu.state = "IDLE" /\ x.r \in {"store", "load"}
    BY <1>0, <1>2 DEF lock_reqs, waits, mu_state, MuState, mem_data_req
  <2>2. SUFFICES ASSUME mu.state = "IDLE", x.r \in {"store", "load"}
                 PROVE  miss_port_idx \in 0 .. 2 /\ (x.r = "load" => miss_port_idx \in Port)
    BY <2>1
  <2>3. miss_req_masked # {} /\ (x.r = "load" => miss_port_idx # W)
    BY <1>0, <2>2 DEF mem_data_req
  <2>4. miss_req_masked \subseteq Port \union {W}
    BY <1>2 DEF miss_req_masked, miss_req
  <2>5. miss_port_idx \in Port \union {W}
    BY <2>3, <2>4, MinMember, Constants DEF miss_port_idx
  <2> QED BY <2>3, <2>5, Constants
<1> QED BY <1>1, <1>2

LEMMA LoadWaitsStep ==
    ASSUME NEW x, Step(x)
    PROVE  LoadWaits'
<1> SUFFICES ASSUME mu_state(x) = "LOAD_WAIT" PROVE mu'.lock \in Port
  BY MuNext DEF LoadWaits, Step, IInv
<1>1. mu.state \in MuState /\ x.r = mem_data_req(x) /\ x.ack \in BOOLEAN
  BY InputFacts DEF Step, IInv, Types
<1>2. x.r = "load"
  BY <1>1 DEF mu_state, MuState, mem_data_req
<1>3. mu'.lock = miss_port_idx
  BY MuNext DEF waits, Step, IInv
<1> QED BY <1>2, <1>3, MissPort

LEMMA CycleRegisters ==
    ASSUME NEW x, Cycle(x)
    PROVE  /\ lookup' = lookup_next(x)
           /\ check' = IF lookup.vld /\ lookup.who = W
                       THEN [en |-> TRUE, ptr |-> lookup.ptr, hit |-> lookup.hit]
                       ELSE [en |-> FALSE, ptr |-> 0, hit |-> {}]
           /\ wr_cl_q' = x.cl
           /\ port' = [p \in Port |-> port_next(x, p, ref_next(x))]
           /\ stale' = (stale \/ \E p \in Port : answers(x, p) /\ ~IsLegal(rdata(p), port[p].legal))
           /\ read' = IF load_ack(x) THEN [read EXCEPT !.st = "none"]
                      ELSE IF x.r = "load" /\ x.ack THEN [read EXCEPT !.st = "sent"] ELSE read
BY Zenon DEF Cycle

LEMMA CtrlNextType ==
    ASSUME NEW c \in CtrlState, NEW req, NEW kill, NEW ev
    PROVE  ctrl_next(c, req, kill, TRUE, ev) \in CtrlState
BY DEF ctrl_next, CtrlState

LookupRec == [vld : BOOLEAN, who : 0 .. 2, ptr : Entry, hit : SUBSET Way, data : Data]

WayRec == [vld : BOOLEAN, line : Line, data : [Off -> Data]]

\* What a look-up finds are ways, and data of one of them.
LEMMA FoundType ==
    ASSUME Types, NEW w \in Word
    PROVE  found(w).hit \subseteq Way /\ found(w).data \in Data
<1> DEFINE h == {y \in Way : ways[y].vld /\ ways[y].line = lineOf(w)}
<1>1. found(w) = [hit |-> h, data |-> IF h = {} THEN NoData ELSE ways[CHOOSE y \in h : TRUE].data[bankOf(w)]]
  BY DEF found
<1>2. h # {} => (CHOOSE y \in h : TRUE) \in Way
  <2>1. h # {} => (CHOOSE y \in h : TRUE) \in h
    <3> HIDE DEF h
    <3> QED OBVIOUS
  <2> QED BY <2>1
<1>3. \A y \in Way : ways[y].data[bankOf(w)] \in Data
  BY Constants DEF Types
<1>4. h \subseteq Way
  OBVIOUS
<1> HIDE DEF h
<1> QED BY <1>1, <1>2, <1>3, <1>4, Constants

LEMMA LookupType ==
    ASSUME NEW x, Step(x)
    PROVE  /\ lookup' \in [vld : BOOLEAN, who : 0 .. 2, ptr : Entry, hit : SUBSET Way, data : Data]
           /\ check' \in [en : BOOLEAN, ptr : Entry, hit : SUBSET Way]
<1>1. lookup' = lookup_next(x)
  BY CycleRegisters DEF Step
<1>2. lookup' \in LookupRec
  <2>1. CASE x.sel \notin Port \union {W} \/ x.cl
    BY <1>1, <2>1, Constants DEF lookup_next, NoLookup, LookupRec
  <2>2. CASE ~(x.sel \notin Port \union {W} \/ x.cl)
    <3> DEFINE f == found(rd_word(x, x.sel))
    <3>1. lookup' = [vld |-> TRUE, who |-> x.sel, ptr |-> IF x.sel = W THEN x.ptr ELSE 0,
                     hit |-> f.hit, data |-> IF x.sel = W THEN NoData ELSE f.data]
      BY <1>1, <2>2, Zenon DEF lookup_next
    <3>2. rd_word(x, x.sel) \in Word
      <4>1. CASE x.sel = W
        BY <4>1, InputTypes DEF rd_word, Step, IInv, Types
      <4>2. CASE x.sel # W
        BY <2>2, <4>2, RdWordType
      <4> QED BY <4>1, <4>2
    <3>3. f.hit \subseteq Way /\ f.data \in Data
      BY <3>2, FoundType DEF Step, IInv
    <3> HIDE DEF f
    <3> QED BY <2>2, <3>1, <3>3, Constants, InputTypes DEF LookupRec
  <2> QED BY <2>1, <2>2
<1>3. check' \in [en : BOOLEAN, ptr : Entry, hit : SUBSET Way]
  <2>1. lookup.ptr \in Entry /\ lookup.hit \subseteq Way
    BY DEF Step, IInv, Types
  <2>2. check' = IF lookup.vld /\ lookup.who = W
                 THEN [en |-> TRUE, ptr |-> lookup.ptr, hit |-> lookup.hit]
                 ELSE [en |-> FALSE, ptr |-> 0, hit |-> {}]
    BY CycleRegisters DEF Step
  <2> QED BY <2>1, <2>2, Constants
<1> QED BY <1>2, <1>3 DEF LookupRec

LEMMA WaysType ==
    ASSUME NEW x, Step(x)
    PROVE  ways' \in [Way -> [vld : BOOLEAN, line : Line, data : [Off -> Data]]]
<1>1. ways' = ways_next(x, wr_ack(x)) /\ ways \in [Way -> WayRec]
  BY CycleMemories DEF Step, IInv, Types, WayRec
<1>2. mu.word \in Word /\ read.data \in [Off -> Data]
  BY DEF Step, IInv, Types
<1> DEFINE q == IF wr_ack(x) THEN wbuffer[rptr] ELSE NoEntry
           n(y) == IF y \in x.we
                   THEN IF load_ack(x) THEN [vld |-> TRUE, line |-> lineOf(mu.word), data |-> read.data]
                                       ELSE [ways[y] EXCEPT !.vld = FALSE]
                   ELSE IF wr_ack(x) /\ y \in q.hit
                   THEN [ways[y] EXCEPT !.data[bankOf(q.wtag)] = Merge(@, wr_data_be, q.data)]
                   ELSE ways[y]
<1>3. ways' = [y \in Way |-> n(y)]
  BY <1>1 DEF ways_next
<1>4. wr_ack(x) => bankOf(q.wtag) \in Off /\ q.data \in Data
  <2>1. SUFFICES ASSUME wr_ack(x) PROVE rptr \in Entry
    BY Constants DEF Step, IInv, Types
  <2>2. evict(x)
    BY <2>1 DEF evict, wr_ack, wr_req
  <2> QED BY <2>2, EvictFacts DEF Step
<1> HIDE DEF q
<1>5. ASSUME NEW y \in Way PROVE n(y) \in WayRec
  <2>1. ways[y] \in WayRec
    BY <1>1
  <2>2. CASE y \in x.we
    BY <1>2, <2>1, <2>2, Constants DEF WayRec
  <2>3. CASE y \notin x.we /\ wr_ack(x) /\ y \in q.hit
    <3>1. \A o \in Off : Merge(ways[y].data[o], wr_data_be, q.data) \in Data
      BY <1>4, <2>1, <2>3 DEF WayRec, Merge, Data
    <3> DEFINE d == [ways[y].data EXCEPT ![bankOf(q.wtag)] = Merge(@, wr_data_be, q.data)]
    <3>2. d \in [Off -> Data]
      BY <1>4, <2>1, <2>3, <3>1 DEF WayRec
    <3>3. n(y) = [ways[y] EXCEPT !.data = d]
      BY <2>3
    <3> HIDE DEF d, n
    <3> QED BY <2>1, <3>2, <3>3 DEF WayRec
  <2>4. CASE y \notin x.we /\ ~(wr_ack(x) /\ y \in q.hit)
    BY <2>1, <2>4
  <2> QED BY <2>2, <2>3, <2>4
<1> HIDE DEF n
<1> QED BY <1>3, <1>5 DEF WayRec

LEMMA MuType ==
    ASSUME NEW x, Step(x)
    PROVE  mu' \in MuRec
<1>0. mu \in MuRec /\ x.ack \in BOOLEAN
  BY InputFacts DEF Step, IInv, Types, MuRec
<1> DEFINE m == IF allocates(x)
                THEN [mu EXCEPT !.word = port[miss_port_idx].word, !.way = x.way,
                                !.nc = nc(port[miss_port_idx].word), !.port = miss_port_idx]
                ELSE mu
           state == mu_state(x)
           vld   == allocates(x) \/ (m.vld /\ ~load_ack(x))
           coll  == {p \in Port : mshr_rdrd_collision_d(p)}
           lock  == IF waits(x) THEN miss_port_idx ELSE W
           ptr   == IF waits(x) /\ x.r = "store" THEN x.dptr ELSE 0
           en    == x.en /\ (m.en \/ flush_en)
<1>1. mu' = [m EXCEPT !.state = state, !.vld = vld, !.vld1 = mu.vld, !.coll = coll, !.lock = lock,
                      !.ptr = ptr, !.en = en]
  BY CycleMemories, Zenon DEF mu_next, allocates, waits, Step
<1>2. m \in MuRec
  <2>1. CASE allocates(x)
    <3>1. miss_port_idx \in Port /\ x.way \in Way
      BY <2>1, MissPort, InputTypes DEF allocates
    <3>2. miss_port_idx \in 0 .. 2 /\ port[miss_port_idx].word \in Word
      BY <3>1, Constants DEF Step, IInv, Types
    <3>3. nc(port[miss_port_idx].word) \in BOOLEAN
      BY DEF nc
    <3>4. m = [mu EXCEPT !.word = port[miss_port_idx].word, !.way = x.way,
                         !.nc = nc(port[miss_port_idx].word), !.port = miss_port_idx]
      BY <2>1
    <3> HIDE DEF m
    <3> QED BY <1>0, <3>1, <3>2, <3>3, <3>4 DEF MuRec
  <2>2. CASE ~allocates(x)
    BY <1>0, <2>2
  <2> QED BY <2>1, <2>2
<1>3. state \in MuState
  <2>1. mu.state \in MuState
    BY <1>0 DEF MuRec
  <2> QED BY <2>1 DEF mu_state, MuState
<1>4. vld \in BOOLEAN /\ en \in BOOLEAN /\ mu.vld \in BOOLEAN /\ coll \subseteq Port
  BY <1>0 DEF MuRec
<1>5. lock \in 0 .. 2
  BY MissPort, Constants
<1>6. ptr \in Entry
  <2>1. x.r = "store" => x.dptr \in Entry
    BY InputFacts DEF Step, IInv, dirty
  <2> QED BY <2>1, Constants
<1> HIDE DEF m, state, vld, coll, lock, ptr, en
<1> QED BY <1>1, <1>2, <1>3, <1>4, <1>5, <1>6 DEF MuRec

PortRec == [st : CtrlState, word : Word, legal : SUBSET Data]

LEMMA PortType ==
    ASSUME NEW x, Step(x)
    PROVE  port' \in [Port -> PortRec]
<1>1. port' = [p \in Port |-> port_next(x, p, ref')]
  BY CycleRegisters, CycleQueues DEF Step
<1>2. ASSUME NEW p \in Port PROVE port_next(x, p, ref') \in PortRec
  <2> DEFINE st1 == ctrl_next(port[p].st, x.req[p] # {}, x.kill[p], TRUE, event(x, p))
             w   == IF gnt(x, p) THEN requested(x, p) ELSE port[p].word
             l   == IF st1 \in {"IDLE", "KILL_MISS", "KILL_MISS_ACK"} THEN {}
                    ELSE {ref[w], ref'[w]} \union (IF gnt(x, p) THEN {} ELSE port[p].legal)
  <2>1. port_next(x, p, ref') = [st |-> st1, word |-> IF st1 = "IDLE" THEN NoWord ELSE w, legal |-> l]
    BY DEF port_next
  <2>2. w \in Word
    BY RdWordType
  <2>3. port[p].st \in CtrlState /\ port[p].legal \subseteq Data
    BY DEF Step, IInv, Types
  <2>4. st1 \in CtrlState
    BY <2>3, CtrlNextType
  <2>5. ref[w] \in Data /\ ref'[w] \in Data
    BY <2>2, RefNext DEF Step, IInv, Types
  <2> HIDE DEF st1, w
  <2>6. l \subseteq Data
    BY <2>3, <2>5
  <2> HIDE DEF l
  <2> QED BY <2>1, <2>2, <2>4, <2>6, Constants DEF PortRec
<1> QED BY <1>1, <1>2

LEMMA AmoReadType ==
    ASSUME NEW x, Step(x)
    PROVE  /\ amo' \in [st : {"none", "req", "sent", "issued", "done"}, word : Word]
           /\ read' \in [st : {"none", "sent", "done"}, data : [Off -> Data]]
<1>1. amo \in [st : {"none", "req", "sent", "issued", "done"}, word : Word]
  BY DEF Step, IInv, Types
<1>2. amo' = CASE x.amo # {}         -> [st |-> "req", word |-> CHOOSE w \in x.amo : TRUE]
               [] x.r = "amo" /\ x.ack -> [amo EXCEPT !.st = "sent"]
               [] x.resp = "inv"     -> [amo EXCEPT !.st = "issued"]
               [] x.resp = "amo"     -> [st |-> "none", word |-> NoWord]
               [] OTHER              -> amo
  BY CycleMemories DEF Step
<1>3. x.amo # {} => (CHOOSE w \in x.amo : TRUE) \in Word
  <2>1. x.amo \subseteq Word
    BY InputTypes
  <2> QED BY <2>1
<1>4. amo' \in [st : {"none", "req", "sent", "issued", "done"}, word : Word]
  BY <1>1, <1>2, <1>3, Constants
<1>5. read \in [st : {"none", "sent", "done"}, data : [Off -> Data]]
  BY DEF Step, IInv, Types
<1>6. read' = IF load_ack(x) THEN [read EXCEPT !.st = "none"]
              ELSE IF x.r = "load" /\ x.ack THEN [read EXCEPT !.st = "sent"] ELSE read
  BY CycleRegisters DEF Step
<1>7. read' \in [st : {"none", "sent", "done"}, data : [Off -> Data]]
  BY <1>5, <1>6
<1> QED BY <1>4, <1>7

LEMMA TypesStep ==
    ASSUME NEW x, Step(x)
    PROVE  Types'
<1>1. 0 \in Entry /\ 0 \in Tx
  BY Constants, CacheAssumption DEF Tx
<1>2. work' \in Workload /\ mem' \in [Word -> Data]
  BY CycleQueues DEF Step, IInv, Types
<1>3. wbuffer' \in [Entry -> EntryRec] /\ ni_pending' \subseteq Entry
  BY <1>1, EntryStep, NiNext
<1>4. tx' \in [Tx -> [vld : BOOLEAN, ptr : Entry, be : SUBSET Byte]]
  BY <1>1, TxNext
<1>5. rtrn' \in Seq(Tx) /\ writes' \in Seq(Write)
  BY QueueTypes
<1>6. owed' \in Int
  <2>1. owed \in Int
    BY DEF Step, IInv, Types
  <2> QED BY <2>1, NiCount
<1>7. ref' \in [Word -> Data]
  BY RefNext
<1> QED BY <1>2, <1>3, <1>4, <1>5, <1>6, <1>7, LookupType, WaysType, MuType, PortType, AmoReadType
        DEF Types, EntryRec, MuRec, PortRec

\* A cycle preserves the invariant.
LEMMA CycleStep ==
    ASSUME NEW x, Step(x)
    PROVE  IInv'
BY TypesStep, TxConsistentStep, FlightsStep, ValuesStep, StoreReachesMemoryStep, StoreWaitsStep,
   LoadWaitsStep, AmoAloneStep, NiAloneStep DEF IInv

-----------------------------------------------------------------------------
(* The steps of the memory.                                                *)

\* The registers of the write buffer and the miss unit's state, which the
\* memory leaves alone.
buffers == <<wbuffer, ni_pending, tx, rtrn, mu>>

LEMMA BuffersKept ==
    ASSUME IInv, UNCHANGED buffers
    PROVE  TxConsistent' /\ StoreWaits' /\ LoadWaits'
<1>1. TxConsistent'
  BY DEF IInv, TxConsistent, buffers, validEntries
<1>2. StoreWaits' /\ LoadWaits'
  BY DEF IInv, StoreWaits, LoadWaits, buffers, dirty, bdirty, freeTx
<1> QED BY <1>1, <1>2

\* An entry whose word is on the way to memory.
LEMMA WriteFacts ==
    ASSUME IInv, NEW k \in DOMAIN writes
    PROVE  LET t == writes[k].id
           IN  /\ t \in Tx /\ tx[t].vld /\ tx[t].be = writes[k].be /\ tx[t].ptr \in Entry
               /\ wbuffer[tx[t].ptr].wtag = writes[k].word
               /\ tx[t].be \subseteq wbuffer[tx[t].ptr].valid /\ tx[t].be # {}
               /\ wbuffer[tx[t].ptr].txblock # {} /\ wbuffer[tx[t].ptr].valid # {}
               /\ writes[k] \in Write
<1>1. writes[k] \in Write
  BY DEF IInv, Types
<1>2. writes[k].id \in Tx
  BY <1>1 DEF Write
<1>3. /\ tx[writes[k].id].vld /\ tx[writes[k].id].be = writes[k].be
      /\ wbuffer[tx[writes[k].id].ptr].wtag = writes[k].word
  BY DEF IInv, Flights
<1> QED BY <1>1, <1>2, <1>3, TxEntry

LEMMA PerformWriteNext ==
    ASSUME IInv, NEW k \in DOMAIN writes, PerformWrite(k)
    PROVE  /\ UNCHANGED buffers /\ UNCHANGED <<work, lookup, check, ways, port, read, amo, ref>>
           /\ writes' \in Seq(Write) /\ DOMAIN writes' = DOMAIN writes
           /\ \A j \in DOMAIN writes :
                /\ writes'[j].id = writes[j].id /\ writes'[j].word = writes[j].word
                /\ writes'[j].be = writes[j].be /\ writes'[j].data = writes[j].data
                /\ writes'[j].done <=> writes[j].done \/ j = k
           /\ mem' \in [Word -> Data]
           /\ \A w \in Word : mem'[w] = IF w = writes[k].word
                                        THEN Merge(mem[w], writes[k].be, writes[k].data) ELSE mem[w]
           /\ owed' = IF is_ni(writes[k]) THEN owed - 1 ELSE owed
           /\ ~writes[k].done
<1>1. writes \in Seq(Write) /\ mem \in [Word -> Data] /\ writes[k] \in Write
  BY DEF IInv, Types
<1>2. writes' = [writes EXCEPT ![k].done = TRUE]
  BY DEF PerformWrite
<1>3. \A j \in DOMAIN writes : writes[j] \in Write
  BY <1>1
<1> DEFINE r == [writes[k] EXCEPT !.done = TRUE]
<1>4. /\ r \in Write /\ r.id = writes[k].id /\ r.word = writes[k].word /\ r.be = writes[k].be
      /\ r.data = writes[k].data /\ r.done = TRUE
  BY <1>1 DEF Write
<1>5. writes' = [writes EXCEPT ![k] = r]
  BY <1>2
<1> HIDE DEF r
<1>6. writes' \in Seq(Write) /\ DOMAIN writes' = DOMAIN writes
  BY <1>1, <1>4, <1>5
<1>7. \A j \in DOMAIN writes : writes'[j] = IF j = k THEN r ELSE writes[j]
  BY <1>1, <1>5
<1>8. mem' = [mem EXCEPT ![writes[k].word] = Merge(@, writes[k].be, writes[k].data)]
  BY DEF PerformWrite
<1>9. writes[k].word \in Word /\ \A w \in Word : Merge(mem[w], writes[k].be, writes[k].data) \in Data
  BY <1>1 DEF Write, Merge, Data
<1>10. /\ mem' \in [Word -> Data]
       /\ \A w \in Word : mem'[w] = IF w = writes[k].word
                                    THEN Merge(mem[w], writes[k].be, writes[k].data) ELSE mem[w]
  BY <1>1, <1>8, <1>9
<1> QED BY <1>3, <1>4, <1>6, <1>7, <1>10 DEF PerformWrite, buffers

LEMMA PerformWriteStep ==
    ASSUME IInv, NEW k \in DOMAIN writes, PerformWrite(k)
    PROVE  IInv'
<1> DEFINE id == writes[k].id
           en == tx[id].ptr
<1>0. /\ UNCHANGED buffers /\ UNCHANGED <<work, lookup, check, ways, port, read, amo, ref>>
      /\ writes' \in Seq(Write) /\ DOMAIN writes' = DOMAIN writes /\ mem' \in [Word -> Data]
      /\ owed' = IF is_ni(writes[k]) THEN owed - 1 ELSE owed
  BY PerformWriteNext
<1>1. \A j \in DOMAIN writes :
         /\ writes'[j].id = writes[j].id /\ writes'[j].word = writes[j].word
         /\ writes'[j].be = writes[j].be /\ writes'[j].data = writes[j].data
         /\ writes'[j].done <=> writes[j].done \/ j = k
  BY PerformWriteNext
<1>2. \A w \in Word : mem'[w] = IF w = writes[k].word
                                THEN Merge(mem[w], writes[k].be, writes[k].data) ELSE mem[w]
  BY PerformWriteNext
<1>3. /\ id \in Tx /\ tx[id].vld /\ tx[id].be = writes[k].be /\ en \in Entry
      /\ wbuffer[en].wtag = writes[k].word /\ tx[id].be \subseteq wbuffer[en].valid
      /\ wbuffer[en].valid # {} /\ wbuffer[en].txblock # {} /\ writes[k].word \in Word
  BY WriteFacts DEF Write
<1>4. Types'
  <2>1. owed' \in Int
    BY <1>0 DEF IInv, Types
  <2>2. /\ wbuffer' = wbuffer /\ ni_pending' = ni_pending /\ tx' = tx /\ rtrn' = rtrn /\ mu' = mu
        /\ work' = work /\ lookup' = lookup /\ check' = check /\ ways' = ways /\ port' = port
        /\ read' = read /\ amo' = amo /\ ref' = ref
    BY <1>0 DEF buffers
  <2>3. Types
    BY DEF IInv
  <2> QED BY <1>0, <2>1, <2>2, <2>3, ZenonT(40) DEF Types
<1>5. Flights'
  <2>0. tx' = tx /\ wbuffer' = wbuffer /\ rtrn' = rtrn /\ Flights
    BY <1>0 DEF buffers, IInv
  <2>1. \A t \in Tx : tx[t].vld =>
           /\ tx[t].be # {}
           /\ (\E j \in DOMAIN writes' : writes'[j].id = t) \/ (\E j \in DOMAIN rtrn : rtrn[j] = t)
    BY <1>0, <1>1, <2>0 DEF Flights
  <2>2. \A j \in DOMAIN writes' :
           /\ tx[writes'[j].id].vld /\ tx[writes'[j].id].be = writes'[j].be
           /\ wbuffer[tx[writes'[j].id].ptr].wtag = writes'[j].word
    BY <1>0, <1>1, <2>0 DEF Flights
  <2>3. \A i, j \in DOMAIN writes' : i # j => writes'[i].id # writes'[j].id
    BY <1>0, <1>1, <2>0 DEF Flights
  <2>4. \A i, j \in DOMAIN rtrn : i # j => rtrn[i] # rtrn[j]
    BY <2>0 DEF Flights
  <2>5. \A i \in DOMAIN writes', j \in DOMAIN rtrn : writes'[i].id # rtrn[j]
    BY <1>0, <1>1, <2>0 DEF Flights
  <2> QED BY <2>0, <2>1, <2>2, <2>3, <2>4, <2>5 DEF Flights
<1>6. Values'
  <2>2. ASSUME NEW e \in Entry, NEW b \in wbuffer'[e].valid
        PROVE  b \in wbuffer'[e].data <=> b \in ref'[wbuffer'[e].wtag]
    BY <1>0 DEF IInv, Values, buffers, current
  <2>3. ASSUME NEW j \in DOMAIN writes', NEW b \in latest(writes[j].id)
        PROVE  b \in writes'[j].data <=> b \in ref'[writes'[j].word]
    BY <1>0, <1>1 DEF IInv, Values, current
  <2>4. ASSUME NEW t \in Tx, tx[t].vld, performed(t)', NEW b \in latest(t)
        PROVE  LET w == wbuffer[tx[t].ptr].wtag IN b \in mem'[w] <=> b \in ref[w]
    <3> DEFINE w == wbuffer[tx[t].ptr].wtag
    <3>0. tx[t].ptr \in Entry /\ wbuffer[tx[t].ptr].valid # {} /\ w \in Word
      BY <2>4, TxEntry DEF IInv, Types
    <3>1. CASE t = id
      <4>1. b \in writes[k].be
        BY <1>3, <3>1 DEF latest
      <4>2. current(writes[k].data, writes[k].word, b)
        BY <3>1 DEF IInv, Values
      <4> QED BY <1>2, <1>3, <3>1, <4>1, <4>2 DEF current, Merge
    <3>2. CASE t # id
      <4>1. performed(t)
        BY <1>0, <1>1, <2>4, <3>2 DEF performed, buffers
      <4>2. current(mem[w], w, b)
        BY <2>4, <4>1 DEF IInv, Values
      <4>3. CASE w # writes[k].word
        BY <1>2, <3>0, <4>2, <4>3 DEF current
      <4>4. CASE w = writes[k].word
        <5>1. tx[t].ptr = en
          BY <1>3, <3>0, <4>4 DEF IInv, TxConsistent, validEntries
        <5>2. tx[t].be \intersect tx[id].be = {}
          BY <1>3, <2>4, <3>2, <5>1 DEF IInv, TxConsistent
        <5>3. b \notin writes[k].be
          BY <1>3, <5>2 DEF latest
        <5> QED BY <1>2, <3>0, <4>2, <4>4, <5>3 DEF current, Merge
      <4> QED BY <4>3, <4>4
    <3> QED BY <3>1, <3>2
  <2>5. \A j \in DOMAIN writes : writes[j].id \in Tx
    BY WriteFacts
  <2>6. \A j \in DOMAIN writes' : \A b \in tx'[writes'[j].id].be \ wbuffer'[tx'[writes'[j].id].ptr].dirty :
           b \in writes'[j].data <=> b \in ref'[writes'[j].word]
    BY <1>0, <1>1, <2>3 DEF latest, buffers
  <2>7. \A t \in Tx : tx'[t].vld /\ performed(t)' =>
           \A b \in tx'[t].be \ wbuffer'[tx'[t].ptr].dirty :
              b \in mem'[wbuffer'[tx'[t].ptr].wtag] <=> b \in ref'[wbuffer'[tx'[t].ptr].wtag]
    BY <1>0, <2>4 DEF latest, buffers
  <2> QED BY <2>2, <2>6, <2>7 DEF Values, current, latest
<1>7. StoreReachesMemory'
  <2> SUFFICES ASSUME NEW w \in Word, NEW b \in Byte, ~(b \in mem'[w] <=> b \in ref[w])
               PROVE  \E e \in Entry : wbuffer[e].valid # {} /\ wbuffer[e].wtag = w /\ b \in wbuffer[e].valid
    BY <1>0 DEF StoreReachesMemory, holding, validEntries, buffers
  <2>1. CASE b \in mem'[w] <=> b \in mem[w]
    BY <2>1 DEF IInv, StoreReachesMemory, holding, validEntries
  <2>2. CASE ~(b \in mem'[w] <=> b \in mem[w])
    <3>1. w = writes[k].word /\ b \in writes[k].be
      BY <1>2, <2>2 DEF Merge
    <3> QED BY <1>3, <3>1
  <2> QED BY <2>1, <2>2
<1>8. AmoAlone'
  BY <1>0 DEF IInv, AmoAlone, buffers, empty, validEntries
<1>9. NiAlone'
  <2>0. NiAlone /\ ni_pending \subseteq Entry
    BY DEF IInv, Types
  <2>1. is_ni(writes[k]) <=> en \in ni_pending
    BY <1>3, <2>0 DEF NiAlone, is_ni
  <2>2. owed' = IF \E e \in ni_pending : unperformed(e)' THEN 1 ELSE 0
    <3>0. owed = IF \E e \in ni_pending : unperformed(e) THEN 1 ELSE 0
      BY <2>0 DEF NiAlone
    <3>1. CASE en \in ni_pending
      <4>1. unperformed(en)
        BY PerformWriteNext DEF unperformed
      <4>2. owed' = 0
        BY <1>0, <2>1, <3>0, <3>1, <4>1
      <4>3. ASSUME NEW e \in ni_pending, unperformed(e)' PROVE FALSE
        <5>1. e = en /\ wbuffer[e].dirty = {}
          BY <1>3, <2>0, <3>1 DEF NiAlone
        <5>2. PICK j \in DOMAIN writes : ~writes'[j].done /\ tx[writes'[j].id].ptr = e
          BY <1>0, <4>3, <5>1 DEF unperformed, buffers
        <5>3. j # k /\ writes[j].id # id /\ tx[writes[j].id].ptr = en
          BY <1>1, <5>1, <5>2 DEF IInv, Flights
        <5>4. writes[j].id \in Tx /\ tx[writes[j].id].vld
          BY WriteFacts
        <5> QED BY <1>3, <2>0, <3>1, <5>3, <5>4 DEF NiAlone
      <4> QED BY <4>2, <4>3
    <3>2. CASE en \notin ni_pending
      <4>1. owed' = owed
        BY <1>0, <2>1, <3>2
      <4>2. \A e \in ni_pending : unperformed(e)' <=> unperformed(e)
        BY <1>0, <1>1, <3>2 DEF unperformed, buffers
      <4> QED BY <3>0, <4>1, <4>2
    <3> QED BY <3>1, <3>2
  <2> QED BY <1>0, <2>0, <2>2 DEF NiAlone, buffers
<1> QED BY <1>0, <1>4, <1>5, <1>6, <1>7, <1>8, <1>9, BuffersKept DEF IInv

LEMMA PerformReadStep ==
    ASSUME IInv, PerformRead
    PROVE  IInv'
<1>1. /\ UNCHANGED buffers
      /\ UNCHANGED <<work, lookup, check, ways, port, amo, ref, mem, writes, owed>>
  BY DEF PerformRead, buffers
<1>2. read' \in [st : {"none", "sent", "done"}, data : [Off -> Data]]
  <2>1. \A o \in Off : mem[<<lineOf(mu.word), o>>] \in Data
    BY Constants DEF IInv, Types, Word
  <2> QED BY <2>1 DEF PerformRead
<1>3. Types'
  BY <1>1, <1>2 DEF IInv, Types, buffers
<1>4. Flights' /\ AmoAlone'
  BY <1>1 DEF IInv, Flights, AmoAlone, buffers, empty, validEntries
<1>5. Values'
  BY <1>1 DEF IInv, Values, buffers, latest, current, performed
<1>6. StoreReachesMemory'
  BY <1>1 DEF IInv, StoreReachesMemory, buffers, holding, validEntries
<1>7. NiAlone'
  BY <1>1 DEF IInv, NiAlone, buffers, unperformed
<1> QED BY <1>1, <1>3, <1>4, <1>5, <1>6, <1>7, BuffersKept DEF IInv

\* Nothing is in the buffers, on its way or different from the reference while
\* an atomic is at the memory.
LEMMA AmoFacts ==
    ASSUME IInv, amo.st \in {"sent", "issued", "done"}
    PROVE  /\ \A e \in Entry : wbuffer[e].valid = {}
           /\ \A t \in Tx : ~tx[t].vld
           /\ DOMAIN writes = {} /\ writes = <<>> /\ rtrn = <<>>
           /\ mem = ref
<1>1. empty
  BY DEF IInv, AmoAlone
<1>2. \A e \in Entry : wbuffer[e].valid = {}
  BY <1>1 DEF empty, validEntries
<1>3. \A t \in Tx : ~tx[t].vld
  BY <1>2, TxEntry
<1>4. writes \in Seq(Write) /\ rtrn \in Seq(Tx)
  BY DEF IInv, Types
<1>5. DOMAIN writes = {}
  BY <1>3, WriteFacts
<1>6. DOMAIN rtrn = {}
  <2>1. \A k \in DOMAIN rtrn : rtrn[k] \in Tx /\ tx[rtrn[k]].vld
    BY <1>4 DEF IInv, TxConsistent
  <2> QED BY <1>3, <2>1
<1>7. writes = <<>> /\ rtrn = <<>>
  BY <1>4, <1>5, <1>6
<1>8. mem \in [Word -> Data] /\ ref \in [Word -> Data]
  BY DEF IInv, Types
<1>9. ASSUME NEW w \in Word PROVE mem[w] = ref[w]
  <2>1. mem[w] \subseteq Byte /\ ref[w] \subseteq Byte
    BY <1>8 DEF Data
  <2>2. \A b \in Byte : b \in mem[w] <=> b \in ref[w]
    BY <1>2 DEF IInv, StoreReachesMemory, holding, validEntries
  <2> QED BY <2>1, <2>2
<1>10. mem = ref
  BY <1>8, <1>9
<1> QED BY <1>2, <1>3, <1>5, <1>7, <1>10

LEMMA PerformAmoStep ==
    ASSUME IInv, PerformAmo
    PROVE  IInv'
<1>1. /\ UNCHANGED buffers /\ UNCHANGED <<work, lookup, check, ways, read, writes, owed>>
      /\ amo.st = "issued" /\ amo' = [amo EXCEPT !.st = "done"]
      /\ mem' = [mem EXCEPT ![amo.word] = Byte \ @]
      /\ ref' = [ref EXCEPT ![amo.word] = mem'[amo.word]]
  BY DEF PerformAmo, buffers
<1>2. /\ \A e \in Entry : wbuffer[e].valid = {}
      /\ \A t \in Tx : ~tx[t].vld
      /\ DOMAIN writes = {} /\ mem = ref
  BY <1>1, AmoFacts
<1>3. amo \in [st : {"none", "req", "sent", "issued", "done"}, word : Word] /\ mem \in [Word -> Data] /\ ref \in [Word -> Data]
  BY DEF IInv, Types
<1>4. mem' \in [Word -> Data] /\ ref' \in [Word -> Data] /\ mem' = ref'
  BY <1>1, <1>2, <1>3 DEF Data
<1>5. amo' \in [st : {"none", "req", "sent", "issued", "done"}, word : Word] /\ amo'.st = "done"
  BY <1>1, <1>3
<1>6. port' \in [Port -> PortRec]
  <2> DEFINE n(p) == IF port[p].legal = {} \/ port[p].word # amo.word THEN port[p]
                     ELSE [port[p] EXCEPT !.legal = @ \union {mem'[amo.word]}]
  <2>1. port' = [p \in Port |-> n(p)]
    BY DEF PerformAmo
  <2>2. mem'[amo.word] \in Data
    BY <1>3, <1>4
  <2>3. ASSUME NEW p \in Port PROVE n(p) \in PortRec
    <3>1. port[p] \in PortRec
      BY DEF IInv, Types, PortRec
    <3>2. port[p].legal \union {mem'[amo.word]} \subseteq Data
      BY <2>2, <3>1 DEF PortRec
    <3> QED BY <3>1, <3>2 DEF PortRec
  <2> HIDE DEF n
  <2> QED BY <2>1, <2>3
<1>7. Types'
  BY <1>1, <1>4, <1>5, <1>6 DEF IInv, Types, buffers, PortRec
<1>8. Flights'
  BY <1>1 DEF IInv, Flights, buffers
<1>9. AmoAlone'
  BY <1>1, <1>5 DEF IInv, AmoAlone, buffers, empty, validEntries
<1>10. Values'
  BY <1>1, <1>2 DEF Values, buffers
<1>11. StoreReachesMemory'
  BY <1>4 DEF StoreReachesMemory
<1>12. NiAlone'
  BY <1>1 DEF IInv, NiAlone, buffers, unperformed
<1> QED BY <1>1, <1>7, <1>8, <1>9, <1>10, <1>11, <1>12, BuffersKept DEF IInv

LEMMA StutterStep ==
    ASSUME IInv, UNCHANGED vars
    PROVE  IInv'
<1>1. UNCHANGED buffers
  BY DEF vars, buffers
<1>6. Types'
  BY DEF IInv, Types, vars
<1>2. Flights' /\ AmoAlone'
  BY DEF IInv, Flights, AmoAlone, vars, empty, validEntries
<1>3. Values'
  BY DEF IInv, Values, vars, latest, current, performed
<1>4. StoreReachesMemory'
  BY DEF IInv, StoreReachesMemory, vars, holding, validEntries
<1>5. NiAlone'
  BY DEF IInv, NiAlone, vars, unperformed
<1> QED BY <1>1, <1>2, <1>3, <1>4, <1>5, <1>6, BuffersKept DEF IInv

-----------------------------------------------------------------------------
(* The invariant, and what follows from it.                                *)

LEMMA InitIInv ==
    ASSUME Init
    PROVE  IInv
<1> DEFINE wy == CHOOSE w \in Way : TRUE
<1>1. wy \in Way
  BY CacheAssumption
<1>2. NoEntry \in EntryRec
  BY Constants DEF NoEntry, EntryRec, Data, NoData
<1>3. NoWord \in Word /\ NoData \in Data /\ 0 \in Entry /\ W \in 0 .. 2 /\ lineOf(NoWord) \in Line
  BY Constants
<1>4. wbuffer \in [Entry -> EntryRec]
  BY <1>2 DEF Init
<1>5. mu \in MuRec
  BY <1>1, <1>3 DEF Init, MuRec, MuState
<1>6. lookup \in LookupRec /\ check \in [en : BOOLEAN, ptr : Entry, hit : SUBSET Way]
  BY <1>3 DEF Init, NoLookup, LookupRec
<1>7. ways \in [Way -> WayRec]
  <2>1. [o \in Off |-> NoData] \in [Off -> Data]
    BY <1>3
  <2>2. [vld : BOOLEAN, line : {lineOf(NoWord)}, data : {[o \in Off |-> NoData]}] \subseteq WayRec
    BY <1>3, <2>1 DEF WayRec
  <2> QED BY <2>2 DEF Init
<1>8. port \in [Port -> PortRec]
  <2>1. [st |-> "IDLE", word |-> NoWord, legal |-> {}] \in PortRec
    BY <1>3 DEF PortRec, CtrlState
  <2> QED BY <2>1 DEF Init
<1>9. tx \in [Tx -> [vld : BOOLEAN, ptr : Entry, be : SUBSET Byte]]
  <2>1. [vld |-> FALSE, ptr |-> 0, be |-> {}] \in [vld : BOOLEAN, ptr : Entry, be : SUBSET Byte]
    BY <1>3
  <2> QED BY <2>1 DEF Init
<1>10. writes \in Seq(Write) /\ rtrn \in Seq(Tx) /\ DOMAIN writes = {} /\ DOMAIN rtrn = {}
  BY DEF Init
<1>11. mem \in [Word -> Data] /\ ref = mem
  BY <1>3 DEF Init
<1>12. /\ read \in [st : {"none", "sent", "done"}, data : [Off -> Data]]
       /\ amo \in [st : {"none", "req", "sent", "issued", "done"}, word : Word] /\ amo.st = "none"
  BY <1>3 DEF Init
<1>13. Types
  BY <1>4, <1>5, <1>6, <1>7, <1>8, <1>9, <1>10, <1>11, <1>12
     DEF Init, Types, EntryRec, MuRec, LookupRec, WayRec, PortRec
<1>14. \A e \in Entry : wbuffer[e].valid = {} /\ wbuffer[e].dirty = {} /\ wbuffer[e].txblock = {}
  BY DEF Init, NoEntry
<1>15. \A t \in Tx : ~tx[t].vld
  BY DEF Init
<1>16. TxConsistent
  BY <1>10, <1>14, <1>15 DEF TxConsistent, validEntries
<1>17. Flights /\ Values
  BY <1>10, <1>14, <1>15 DEF Flights, Values
<1>18. StoreReachesMemory
  BY <1>11 DEF StoreReachesMemory
<1>19. mu.state = "FLUSH" /\ ni_pending = {} /\ owed = 0
  BY DEF Init
<1>20. StoreWaits /\ LoadWaits /\ AmoAlone
  BY <1>12, <1>19 DEF StoreWaits, LoadWaits, AmoAlone
<1>21. NiAlone
  BY <1>14, <1>19 DEF NiAlone
<1> QED BY <1>13, <1>16, <1>17, <1>18, <1>20, <1>21 DEF IInv

\* The conjunction of the invariants is inductive.
THEOREM Invariant == Spec => []IInv
<1>1. Init => IInv
  BY InitIInv
<1>2. IInv /\ [Next]_vars => IInv'
  <2> SUFFICES ASSUME IInv, [Next]_vars PROVE IInv'
    OBVIOUS
  <2>1. ASSUME NEW i \in Env, NEW c \in choices(i), NEW x \in {signals(i, c)}, Cycle(x) PROVE IInv'
    <3>1. Step(x)
      BY <2>1 DEF Step, CycleIn
    <3> QED BY <3>1, CycleStep
  <2>2. ASSUME NEW k \in DOMAIN writes, PerformWrite(k) PROVE IInv'
    BY <2>2, PerformWriteStep
  <2>3. CASE PerformRead
    BY <2>3, PerformReadStep
  <2>4. CASE PerformAmo
    BY <2>4, PerformAmoStep
  <2>5. CASE UNCHANGED vars
    BY <2>5, StutterStep
  <2> QED BY <2>1, <2>2, <2>3, <2>4, <2>5 DEF Next
<1> QED BY <1>1, <1>2, PTL DEF Spec

\* The assertions byteStates, tx_valid0, tx_valid1 and wbuffer_hit_hot1 of
\* wt_dcache_wbuffer.sv never fail, whatever the depth of the buffer and the
\* number of transactions.
THEOREM TransactionsConsistent == Spec => []TxConsistent
BY Invariant, PTL DEF IInv

\* No store is lost between the write port and memory.
THEOREM NoStoreLost == Spec => []StoreReachesMemory
BY Invariant, PTL DEF IInv

\* An atomic that is with the memory works on the value of the last store, with
\* an empty buffer, no write on its way and no copy of its line in the cache.
THEOREM AtomicsInOrder == Spec => []AmoAfterStores
<1>1. IInv => AmoAfterStores
  <2> SUFFICES ASSUME IInv, amo.st = "issued"
               PROVE  mem = ref /\ empty /\ writes = <<>> /\ \A y \in Way : ~ways[y].vld
    BY DEF AmoAfterStores
  <2>1. mem = ref /\ writes = <<>>
    BY AmoFacts
  <2>2. empty /\ \A y \in Way : ~ways[y].vld
    BY DEF IInv, AmoAlone
  <2> QED BY <2>1, <2>2
<1> QED BY <1>1, Invariant, PTL

\* A non-idempotent store is performed once, before not_ni_o is raised again.
THEOREM NonIdempotentOnce == Spec => []NiStoresOnce
<1>1. IInv => NiStoresOnce
  BY DEF IInv, NiAlone, NiStoresOnce
<1> QED BY <1>1, Invariant, PTL

\* A sequence without repetitions over the transactions is at most MAX_TX long.
LEMMA TxBound ==
    ASSUME NEW n \in Nat, NEW f \in [1 .. n -> Tx], \A j, k \in 1 .. n : j # k => f[j] # f[k]
    PROVE  n <= MAX_TX
<1>1. f \in Injection(1 .. n, Tx)
  BY DEF Injection, IsInjective
<1>2. IsFiniteSet(Tx) /\ Cardinality(Tx) = MAX_TX
  BY CacheAssumption, FS_Interval DEF Tx
<1>3. Cardinality(1 .. n) = n
  BY FS_Interval
<1>4. Cardinality(1 .. n) <= Cardinality(Tx)
  BY <1>1, <1>2, FS_Injection
<1> QED BY <1>2, <1>3, <1>4

\* Every register holds values of its type, and the queues between write buffer
\* and memory never hold more than MAX_TX transactions.
THEOREM TypeCorrect == Spec => []TypeOK
<1>1. ASSUME IInv PROVE Len(rtrn) <= MAX_TX
  <2>1. rtrn \in Seq(Tx) /\ \A j, k \in DOMAIN rtrn : j # k => rtrn[j] # rtrn[k]
    BY <1>1 DEF IInv, Types, Flights
  <2>2. Len(rtrn) \in Nat /\ rtrn \in [1 .. Len(rtrn) -> Tx] /\ DOMAIN rtrn = 1 .. Len(rtrn)
    BY <2>1
  <2> QED BY <2>1, <2>2, TxBound
<1>2. ASSUME IInv PROVE Len(writes) <= MAX_TX
  <2>1. writes \in Seq(Write) /\ \A j, k \in DOMAIN writes : j # k => writes[j].id # writes[k].id
    BY <1>2 DEF IInv, Types, Flights
  <2>2. Len(writes) \in Nat /\ DOMAIN writes = 1 .. Len(writes)
    BY <2>1
  <2> DEFINE f == [k \in 1 .. Len(writes) |-> writes[k].id]
  <2>3. \A k \in 1 .. Len(writes) : writes[k].id \in Tx
    BY <1>2, <2>2, WriteFacts
  <2>4. f \in [1 .. Len(writes) -> Tx] /\ \A j, k \in 1 .. Len(writes) : j # k => f[j] # f[k]
    BY <2>1, <2>2, <2>3
  <2> HIDE DEF f
  <2> QED BY <2>2, <2>4, TxBound
<1>3. IInv => TypeOK
  BY <1>1, <1>2 DEF IInv, Types, TypeOK
<1> QED BY <1>3, Invariant, PTL
=============================================================================
