------------------------- MODULE StoreBuffer_proofs -------------------------
(***************************************************************************)
(* Proofs about the store buffer, for every depth of its two queues and    *)
(* every set of stores.                                                    *)
(***************************************************************************)
EXTENDS StoreBuffer, SequenceTheorems, TLAPS

\* A cleared entry is an entry.
LEMMA NullEntryType == NullEntry \in Entry
<1>1. \E s \in Store : TRUE
  <2>1. PICK p \in Page, d \in Dword, v \in Data : TRUE
    BY StoreAssumption
  <2>2. [page |-> p, dword |-> d, data |-> v] \in Store
    BY DEF Store
  <2> QED BY <2>2
<1>2. (CHOOSE s \in Store : TRUE) \in Store
  BY <1>1
<1> QED BY <1>2 DEF NullEntry, Entry

\* A reset ring buffer is a ring buffer.
LEMMA ResetRingType ==
  ASSUME NEW depth \in Nat \ {0}
  PROVE  ResetRing(depth) \in Ring(depth)
BY NullEntryType DEF ResetRing, Ring

\* Pointers and counters stay within their widths when they wrap around.
LEMMA WrapType ==
  ASSUME NEW depth \in Nat \ {0}
  PROVE  /\ \A p \in 0 .. depth - 1 : IncPtr(p, depth) \in 0 .. depth - 1
         /\ \A c \in 0 .. 2 * depth - 1 :
               /\ IncCnt(c, depth) \in 0 .. 2 * depth - 1
               /\ DecCnt(c, depth) \in 0 .. 2 * depth - 1
BY DEF IncPtr, IncCnt, DecCnt

\* The next speculative queue is a ring buffer, whatever the inputs.
LEMMA CoreIfType ==
  ASSUME NEW s \in Ring(DEPTH_SPEC), NEW in \in Input
  PROVE  core_if(s, in) \in Ring(DEPTH_SPEC)
<1> DEFINE D == DEPTH_SPEC
           pushed  == IF in.valid
                      THEN [s.queue EXCEPT ![s.wr] = [st |-> in.st, valid |-> TRUE]]
                      ELSE s.queue
           evicted == IF in.commit
                      THEN [pushed EXCEPT ![s.rd] = [st |-> pushed[s.rd].st, valid |-> FALSE]]
                      ELSE pushed
           cleared == [i \in 0 .. D - 1 |-> [st |-> evicted[i].st, valid |-> FALSE]]
           cntPush == IF in.valid THEN IncCnt(s.cnt, D) ELSE s.cnt
           cnt     == IF in.commit THEN DecCnt(cntPush, D) ELSE cntPush
<1> D \in Nat \ {0} BY DepthAssumption
<1>1. pushed \in [0 .. D - 1 -> Entry]
  BY DEF Ring, Input, Entry
<1>2. evicted \in [0 .. D - 1 -> Entry]
  <2> HIDE DEF pushed
  <2> QED BY <1>1 DEF Entry, Ring
<1>3. cleared \in [0 .. D - 1 -> Entry]
  <2> HIDE DEF evicted
  <2> QED BY <1>2 DEF Entry
<1>4. cnt \in 0 .. 2 * D - 1
  <2>1. cntPush \in 0 .. 2 * D - 1
    BY WrapType DEF Ring
  <2> HIDE DEF cntPush
  <2> QED BY <2>1, WrapType
<1>5. /\ s.rd \in 0 .. D - 1
      /\ s.wr \in 0 .. D - 1
      /\ IncPtr(s.rd, D) \in 0 .. D - 1
      /\ IncPtr(s.wr, D) \in 0 .. D - 1
      /\ 0 \in 0 .. 2 * D - 1
  <2>1. s.rd \in 0 .. D - 1 /\ s.wr \in 0 .. D - 1
    BY DEF Ring
  <2> QED BY <2>1, WrapType
<1>6. core_if(s, in) =
        [queue |-> IF in.flush THEN cleared ELSE evicted,
         rd    |-> IF in.commit THEN IncPtr(s.rd, D) ELSE s.rd,
         wr    |-> IF in.flush THEN s.rd
                   ELSE IF in.valid THEN IncPtr(s.wr, D) ELSE s.wr,
         cnt   |-> IF in.flush THEN 0 ELSE cnt]
  BY DEF core_if, FlushPtr
<1> HIDE DEF cleared, evicted, cnt, D
<1> QED BY <1>2, <1>3, <1>4, <1>5, <1>6 DEF Ring, D

\* The next commit queue is a ring buffer, whatever the inputs.
LEMMA StoreIfType ==
  ASSUME NEW s \in Ring(DEPTH_SPEC), NEW c \in Ring(DEPTH_COMMIT), NEW in \in Input
  PROVE  store_if(s, c, in) \in Ring(DEPTH_COMMIT)
<1> DEFINE D == DEPTH_COMMIT
           grant   == data_req(c) /\ in.gnt
           drained == IF grant
                      THEN [c.queue EXCEPT ![c.rd] = [st |-> c.queue[c.rd].st, valid |-> FALSE]]
                      ELSE c.queue
           filled  == IF in.commit THEN [drained EXCEPT ![c.wr] = s.queue[s.rd]] ELSE drained
           cntPop  == IF grant THEN DecCnt(c.cnt, D) ELSE c.cnt
           cnt     == IF in.commit THEN IncCnt(cntPop, D) ELSE cntPop
<1> D \in Nat \ {0} BY DepthAssumption
<1>1. drained \in [0 .. D - 1 -> Entry]
  <2> HIDE DEF grant
  <2> QED BY DEF Ring, Entry
<1>2. filled \in [0 .. D - 1 -> Entry]
  <2> HIDE DEF drained
  <2>1. s.queue[s.rd] \in Entry
    BY DepthAssumption DEF Ring
  <2> QED BY <1>1, <2>1 DEF Ring
<1>3. cnt \in 0 .. 2 * D - 1
  <2>1. cntPop \in 0 .. 2 * D - 1
    BY WrapType DEF Ring
  <2> HIDE DEF cntPop
  <2> QED BY <2>1, WrapType
<1>4. /\ c.rd \in 0 .. D - 1
      /\ c.wr \in 0 .. D - 1
      /\ IncPtr(c.rd, D) \in 0 .. D - 1
      /\ IncPtr(c.wr, D) \in 0 .. D - 1
  BY WrapType DEF Ring
<1>5. store_if(s, c, in) =
        [queue |-> filled,
         rd    |-> IF grant THEN IncPtr(c.rd, D) ELSE c.rd,
         wr    |-> IF in.commit THEN IncPtr(c.wr, D) ELSE c.wr,
         cnt   |-> cnt]
  BY DEF store_if, Oldest
<1> HIDE DEF filled, cnt, grant, D
<1> QED BY <1>2, <1>3, <1>4, <1>5 DEF Ring, D

\* Type correctness of the store buffer's registers.
THEOREM TypeCorrect == Spec => []TypeOK
<1>1. Init => TypeOK
  BY ResetRingType, DepthAssumption DEF Init, TypeOK
<1>2. TypeOK /\ [Next]_vars => TypeOK'
  <2> SUFFICES ASSUME TypeOK, [Next]_vars
               PROVE  TypeOK'
    OBVIOUS
  <2>1. CASE Next
    <3>1. PICK in \in Input : Cycle(in)
      BY <2>1 DEF Next
    <3> QED BY <3>1, CoreIfType, StoreIfType DEF Cycle, TypeOK
  <2>2. CASE UNCHANGED vars
    BY <2>2 DEF vars, TypeOK
  <2> QED BY <2>1, <2>2
<1> QED BY <1>1, <1>2, PTL DEF Spec

-----------------------------------------------------------------------------
(* Consistency.  It is inductive together with the types: a store can be   *)
(* retired without a look at its valid flag because the counters say that  *)
(* it is there, and the commit queue's request, which looks at the flag    *)
(* only, never underflows the counter.                                     *)

\* How far index j lies behind the read pointer.
Dist(rd, j, depth) == IF j >= rd THEN j - rd ELSE j - rd + depth

\* The places of a ring buffer and their distances correspond to one another.
LEMMA AtDist ==
  ASSUME NEW depth \in Nat \ {0}, NEW rd \in 0 .. depth - 1
  PROVE  /\ \A j \in 0 .. depth - 1 : /\ Dist(rd, j, depth) \in 0 .. depth - 1
                                     /\ At(rd, Dist(rd, j, depth), depth) = j
         /\ \A i \in 0 .. depth - 1 : /\ At(rd, i, depth) \in 0 .. depth - 1
                                     /\ Dist(rd, At(rd, i, depth), depth) = i
BY DEF At, Dist

\* The flags of a consistent ring, index by index.
LEMMA FlagsByIndex ==
  ASSUME NEW depth \in Nat \ {0}, NEW r \in Ring(depth)
  PROVE  (\A i \in 0 .. depth - 1 : r.queue[At(r.rd, i, depth)].valid <=> i < r.cnt)
         <=> (\A j \in 0 .. depth - 1 : r.queue[j].valid <=> Dist(r.rd, j, depth) < r.cnt)
<1>1. r.rd \in 0 .. depth - 1
  BY DEF Ring
<1>2. ASSUME \A i \in 0 .. depth - 1 : r.queue[At(r.rd, i, depth)].valid <=> i < r.cnt,
             NEW j \in 0 .. depth - 1
      PROVE  r.queue[j].valid <=> Dist(r.rd, j, depth) < r.cnt
  <2>1. /\ Dist(r.rd, j, depth) \in 0 .. depth - 1
        /\ At(r.rd, Dist(r.rd, j, depth), depth) = j
    BY <1>1, AtDist
  <2> QED BY <1>2, <2>1
<1>3. ASSUME \A j \in 0 .. depth - 1 : r.queue[j].valid <=> Dist(r.rd, j, depth) < r.cnt,
             NEW i \in 0 .. depth - 1
      PROVE  r.queue[At(r.rd, i, depth)].valid <=> i < r.cnt
  <2>1. /\ At(r.rd, i, depth) \in 0 .. depth - 1
        /\ Dist(r.rd, At(r.rd, i, depth), depth) = i
    BY <1>1, AtDist
  <2> QED BY <1>3, <2>1
<1> QED BY <1>2, <1>3

\* One step of a consistent ring buffer: at most one entry is pushed and at
\* most one popped, neither into a full nor from an empty one.
LEMMA RingStep ==
  ASSUME NEW depth \in Nat \ {0}, NEW r \in Ring(depth), NEW q \in Ring(depth),
         NEW push \in BOOLEAN, NEW pop \in BOOLEAN,
         RingConsistent(r, depth),
         push => r.cnt # depth, pop => r.cnt # 0,
         q.rd = IF pop THEN IncPtr(r.rd, depth) ELSE r.rd,
         q.wr = IF push THEN IncPtr(r.wr, depth) ELSE r.wr,
         q.cnt = r.cnt + (IF push THEN 1 ELSE 0) - (IF pop THEN 1 ELSE 0),
         \A j \in 0 .. depth - 1 :
            q.queue[j].valid <=> \/ push /\ j = r.wr
                                 \/ r.queue[j].valid /\ ~(pop /\ j = r.rd)
  PROVE  RingConsistent(q, depth)
<1>1. /\ r.rd \in 0 .. depth - 1 /\ r.wr \in 0 .. depth - 1 /\ r.cnt \in 0 .. depth
      /\ r.wr = At(r.rd, r.cnt, depth)
  BY DEF Ring, RingConsistent
<1>2. \A j \in 0 .. depth - 1 : r.queue[j].valid <=> Dist(r.rd, j, depth) < r.cnt
  BY FlagsByIndex DEF RingConsistent
<1>3. q.cnt <= depth
  BY <1>1
<1>4. q.wr = At(q.rd, q.cnt, depth)
  BY <1>1 DEF At, IncPtr
<1>5. ASSUME NEW j \in 0 .. depth - 1
      PROVE  q.queue[j].valid <=> Dist(q.rd, j, depth) < q.cnt
  <2>1. Dist(q.rd, j, depth) < q.cnt
        <=> \/ push /\ j = r.wr
            \/ Dist(r.rd, j, depth) < r.cnt /\ ~(pop /\ j = r.rd)
    BY <1>1 DEF At, IncPtr, Dist
  <2> QED BY <1>2, <2>1
<1> QED BY <1>3, <1>4, <1>5, FlagsByIndex DEF RingConsistent

\* The speculative queue stays consistent under the contract on its inputs.
LEMMA SpecConsistent ==
  ASSUME NEW s \in Ring(DEPTH_SPEC), NEW in \in Input,
         RingConsistent(s, DEPTH_SPEC),
         in.flush => ~in.commit,
         s.cnt = DEPTH_SPEC => ~in.valid,
         s.cnt = 0 => ~in.commit
  PROVE  RingConsistent(core_if(s, in), DEPTH_SPEC)
<1> DEFINE D == DEPTH_SPEC
           q == core_if(s, in)
<1>1. D \in Nat \ {0}
  BY DepthAssumption
<1>2. q \in Ring(D)
  BY CoreIfType
<1>3. /\ s.rd \in 0 .. D - 1 /\ s.wr \in 0 .. D - 1 /\ s.cnt \in 0 .. D
      /\ s.queue \in [0 .. D - 1 -> Entry]
      /\ s.wr = At(s.rd, s.cnt, D)
  BY <1>1 DEF Ring, RingConsistent
<1>4. in.valid \in BOOLEAN /\ in.commit \in BOOLEAN
  BY DEF Input
<1>5. CASE in.flush
  <2>1. q.cnt = 0 /\ q.rd = s.rd /\ q.wr = s.rd
    BY <1>5 DEF core_if, FlushPtr
  <2>2. \A j \in 0 .. D - 1 : ~q.queue[j].valid
    BY <1>5 DEF core_if
  <2>3. \A i \in 0 .. D - 1 : At(s.rd, i, D) \in 0 .. D - 1
    BY <1>1, <1>3, AtDist
  <2>4. s.rd = At(s.rd, 0, D)
    BY <1>1, <1>3 DEF At
  <2> HIDE DEF q, D
  <2>5. RingConsistent(q, D)
    BY <1>1, <2>1, <2>2, <2>3, <2>4 DEF RingConsistent
  <2> QED BY <2>5 DEF q, D
<1>6. CASE ~in.flush
  <2>1. q.rd = IF in.commit THEN IncPtr(s.rd, D) ELSE s.rd
    BY DEF core_if
  <2>2. q.wr = IF in.valid THEN IncPtr(s.wr, D) ELSE s.wr
    BY <1>6 DEF core_if
  <2>3. q.cnt = s.cnt + (IF in.valid THEN 1 ELSE 0) - (IF in.commit THEN 1 ELSE 0)
    BY <1>1, <1>3, <1>6 DEF core_if, IncCnt, DecCnt
  <2>4. ASSUME NEW j \in 0 .. D - 1
        PROVE  q.queue[j].valid <=> \/ in.valid /\ j = s.wr
                                    \/ s.queue[j].valid /\ ~(in.commit /\ j = s.rd)
    <3>1. in.valid /\ in.commit => s.wr # s.rd
      BY <1>1, <1>3 DEF At
    <3> DEFINE pushed == IF in.valid
                         THEN [s.queue EXCEPT ![s.wr] = [st |-> in.st, valid |-> TRUE]]
                         ELSE s.queue
    <3>2. q.queue = IF in.commit
                    THEN [pushed EXCEPT ![s.rd] = [st |-> pushed[s.rd].st, valid |-> FALSE]]
                    ELSE pushed
      BY <1>6 DEF core_if
    <3>3. /\ pushed \in [0 .. D - 1 -> Entry]
          /\ in.valid => pushed[s.wr].valid = TRUE
          /\ ~(in.valid /\ j = s.wr) => pushed[j] = s.queue[j]
      BY <1>3 DEF Input, Entry
    <3>4. s.queue[j].valid \in BOOLEAN /\ pushed[j].valid \in BOOLEAN
      BY <1>3, <3>3 DEF Entry
    <3> HIDE DEF q, pushed
    <3>5. CASE in.commit /\ j = s.rd
      <4>1. q.queue[j].valid = FALSE
        BY <1>3, <3>2, <3>3, <3>5
      <4> QED BY <3>1, <3>5, <4>1
    <3>6. CASE ~(in.commit /\ j = s.rd)
      <4>1. q.queue[j] = pushed[j]
        BY <1>3, <3>2, <3>3, <3>6
      <4> QED BY <3>3, <3>4, <3>6, <4>1
    <3> QED BY <3>5, <3>6
  <2> HIDE DEF q, D
  <2>5. RingConsistent(q, D)
    BY <1>1, <1>2, <1>4, <2>1, <2>2, <2>3, <2>4, RingStep DEF D
  <2> QED BY <2>5 DEF q, D
<1> QED BY <1>5, <1>6

\* The oldest entry of a consistent ring that is not empty is valid.
LEMMA HeadValid ==
  ASSUME NEW depth \in Nat \ {0}, NEW r \in Ring(depth), RingConsistent(r, depth)
  PROVE  r.queue[r.rd].valid <=> r.cnt # 0
<1>1. r.rd \in 0 .. depth - 1 /\ r.cnt \in 0 .. depth
  BY DEF Ring, RingConsistent
<1>2. At(r.rd, 0, depth) = r.rd
  BY <1>1 DEF At
<1>3. r.queue[At(r.rd, 0, depth)].valid <=> 0 < r.cnt
  BY DEF RingConsistent
<1> QED BY <1>1, <1>2, <1>3

\* The commit queue stays consistent: what it takes over is valid.
LEMMA CommConsistent ==
  ASSUME NEW s \in Ring(DEPTH_SPEC), NEW c \in Ring(DEPTH_COMMIT), NEW in \in Input,
         RingConsistent(s, DEPTH_SPEC), RingConsistent(c, DEPTH_COMMIT),
         s.cnt = 0 => ~in.commit,
         c.cnt = DEPTH_COMMIT => ~in.commit
  PROVE  RingConsistent(store_if(s, c, in), DEPTH_COMMIT)
<1> DEFINE D == DEPTH_COMMIT
           q == store_if(s, c, in)
           grant == data_req(c) /\ in.gnt
<1>1. D \in Nat \ {0} /\ DEPTH_SPEC \in Nat \ {0}
  BY DepthAssumption
<1>2. q \in Ring(D)
  BY StoreIfType
<1>3. /\ c.rd \in 0 .. D - 1 /\ c.wr \in 0 .. D - 1 /\ c.cnt \in 0 .. D
      /\ c.queue \in [0 .. D - 1 -> Entry]
      /\ c.wr = At(c.rd, c.cnt, D)
  BY <1>1 DEF Ring, RingConsistent
<1>4. in.commit \in BOOLEAN /\ grant \in BOOLEAN
  BY DEF Input
<1>5. grant => c.cnt # 0
  BY <1>1, HeadValid DEF data_req
<1>6. in.commit => Oldest(s).valid
  BY <1>1, HeadValid DEF Oldest
<1>7. q.rd = IF grant THEN IncPtr(c.rd, D) ELSE c.rd
  BY DEF store_if
<1>8. q.wr = IF in.commit THEN IncPtr(c.wr, D) ELSE c.wr
  BY DEF store_if
<1>9. q.cnt = c.cnt + (IF in.commit THEN 1 ELSE 0) - (IF grant THEN 1 ELSE 0)
  <2>1. q.cnt = LET cntPop == IF grant THEN DecCnt(c.cnt, D) ELSE c.cnt
                IN  IF in.commit THEN IncCnt(cntPop, D) ELSE cntPop
    BY DEF store_if
  <2> HIDE DEF q, grant
  <2> QED BY <1>1, <1>3, <1>5, <2>1 DEF IncCnt, DecCnt
<1>10. ASSUME NEW j \in 0 .. D - 1
       PROVE  q.queue[j].valid <=> \/ in.commit /\ j = c.wr
                                   \/ c.queue[j].valid /\ ~(grant /\ j = c.rd)
  <2> DEFINE drained == IF grant
                        THEN [c.queue EXCEPT ![c.rd] = [st |-> c.queue[c.rd].st, valid |-> FALSE]]
                        ELSE c.queue
  <2>1. q.queue = IF in.commit THEN [drained EXCEPT ![c.wr] = Oldest(s)] ELSE drained
    BY DEF store_if
  <2> HIDE DEF q, grant
  <2>2. /\ drained \in [0 .. D - 1 -> Entry]
        /\ grant => drained[c.rd].valid = FALSE
        /\ ~(grant /\ j = c.rd) => drained[j] = c.queue[j]
    BY <1>3 DEF Entry
  <2>3. c.queue[j].valid \in BOOLEAN /\ drained[j].valid \in BOOLEAN
    BY <1>3, <2>2 DEF Entry
  <2> HIDE DEF drained
  <2>4. CASE in.commit /\ j = c.wr
    <3>1. q.queue[j] = Oldest(s)
      BY <1>3, <2>1, <2>2, <2>4
    <3> QED BY <1>6, <2>4, <3>1
  <2>5. CASE ~(in.commit /\ j = c.wr)
    <3>1. q.queue[j] = drained[j]
      BY <1>3, <2>1, <2>2, <2>5
    <3> QED BY <2>2, <2>3, <2>5, <3>1
  <2> QED BY <2>4, <2>5
<1> HIDE DEF q, grant, D
<1>11. RingConsistent(q, D)
  BY <1>1, <1>2, <1>4, <1>5, <1>7, <1>8, <1>9, <1>10, RingStep DEF D
<1> QED BY <1>11 DEF q, D

\* Reset rings are consistent.
LEMMA ResetConsistent ==
  ASSUME NEW depth \in Nat \ {0}
  PROVE  RingConsistent(ResetRing(depth), depth)
<1>1. \A i \in 0 .. depth - 1 : At(0, i, depth) \in 0 .. depth - 1
  BY AtDist
<1> QED BY <1>1 DEF RingConsistent, ResetRing, NullEntry, At

\* Pointers, counters and valid flags of both queues never drift apart, for
\* every depth of the queues, as long as the contract of the assertions at
\* the end of store_buffer.sv is kept.
THEOREM RingsConsistent == Spec => []Consistent
<1>1. Init => Consistent
  BY ResetConsistent, DepthAssumption DEF Init, Consistent
<1>2. TypeOK /\ Consistent /\ [Next]_vars => Consistent'
  <2> SUFFICES ASSUME TypeOK, Consistent, [Next]_vars
               PROVE  Consistent'
    OBVIOUS
  <2>1. CASE Next
    <3>1. PICK in \in Input : Cycle(in)
      BY <2>1 DEF Next
    <3>2. RingConsistent(core_if(spec, in), DEPTH_SPEC)
      BY <3>1, SpecConsistent DEF Cycle, InputContract, TypeOK, Consistent
    <3>3. RingConsistent(store_if(spec, comm, in), DEPTH_COMMIT)
      BY <3>1, CommConsistent DEF Cycle, InputContract, TypeOK, Consistent
    <3> QED BY <3>1, <3>2, <3>3 DEF Cycle, Consistent
  <2>2. CASE UNCHANGED vars
    BY <2>2 DEF vars, Consistent
  <2> QED BY <2>1, <2>2
<1> QED BY <1>1, <1>2, TypeCorrect, PTL DEF Spec

\* The valid places of a consistent ring hold exactly its contents.
LEMMA ContentsByFlags ==
  ASSUME NEW depth \in Nat \ {0}, NEW r \in Ring(depth), RingConsistent(r, depth), NEW dword
  PROVE  (\E i \in 0 .. depth - 1 : r.queue[i].valid /\ r.queue[i].st.dword = dword)
         <=> (\E k \in DOMAIN Contents(r, depth) : Contents(r, depth)[k].dword = dword)
<1>1. /\ r.rd \in 0 .. depth - 1 /\ r.cnt \in 0 .. depth
      /\ \A i \in 0 .. depth - 1 : r.queue[At(r.rd, i, depth)].valid <=> i < r.cnt
  BY DEF Ring, RingConsistent
<1>2. /\ DOMAIN Contents(r, depth) = 1 .. r.cnt
      /\ \A k \in 1 .. r.cnt : Contents(r, depth)[k] = r.queue[At(r.rd, k - 1, depth)].st
  BY DEF Contents
<1>3. ASSUME NEW i \in 0 .. depth - 1, r.queue[i].valid, r.queue[i].st.dword = dword
      PROVE  \E k \in 1 .. r.cnt : Contents(r, depth)[k].dword = dword
  <2> DEFINE k == Dist(r.rd, i, depth) + 1
  <2>1. /\ Dist(r.rd, i, depth) \in 0 .. depth - 1
        /\ At(r.rd, Dist(r.rd, i, depth), depth) = i
    BY <1>1, AtDist
  <2>2. k \in 1 .. r.cnt /\ k - 1 = Dist(r.rd, i, depth)
    BY <1>1, <1>3, <2>1
  <2> HIDE DEF k
  <2> QED BY <1>2, <1>3, <2>1, <2>2
<1>4. ASSUME NEW k \in 1 .. r.cnt, Contents(r, depth)[k].dword = dword
      PROVE  \E i \in 0 .. depth - 1 : r.queue[i].valid /\ r.queue[i].st.dword = dword
  <2>1. k - 1 \in 0 .. depth - 1 /\ k - 1 < r.cnt
    BY <1>1
  <2>2. At(r.rd, k - 1, depth) \in 0 .. depth - 1
    BY <1>1, <2>1, AtDist
  <2> QED BY <1>1, <1>2, <1>4, <2>1, <2>2
<1> QED BY <1>2, <1>3, <1>4

\* The address checker of store_buffer.sv finds every queued store and no
\* other, for every depth of the queues.
THEOREM CheckerCorrect == Spec => []CheckerComplete
<1>1. TypeOK /\ Consistent => CheckerComplete
  <2> SUFFICES ASSUME TypeOK, Consistent, NEW dword \in Dword
               PROVE  page_offset_matches_o(spec, comm, {}, dword)
                      <=> \E st \in Pending : st.dword = dword
    BY DEF CheckerComplete
  <2>1. (\E st \in Pending : st.dword = dword)
        <=> \/ \E k \in DOMAIN commq : commq[k].dword = dword
            \/ \E k \in DOMAIN specq : specq[k].dword = dword
    BY DEF Pending
  <2>2. (\E i \in 0 .. DEPTH_COMMIT - 1 : comm.queue[i].valid /\ comm.queue[i].st.dword = dword)
        <=> \E k \in DOMAIN commq : commq[k].dword = dword
    BY ContentsByFlags, DepthAssumption DEF TypeOK, Consistent, commq
  <2>3. (\E i \in 0 .. DEPTH_SPEC - 1 : spec.queue[i].valid /\ spec.queue[i].st.dword = dword)
        <=> \E k \in DOMAIN specq : specq[k].dword = dword
    BY ContentsByFlags, DepthAssumption DEF TypeOK, Consistent, specq
  <2> QED BY <2>1, <2>2, <2>3 DEF page_offset_matches_o
<1> QED BY <1>1, TypeCorrect, RingsConsistent, PTL
-----------------------------------------------------------------------------
(* Refinement.  The contents of a consistent ring are a sequence; a push   *)
(* appends to it and a pop takes its head, whatever the pointers do.       *)

\* The contents of a ring are stores, one for each that the counter counts.
LEMMA ContentsType ==
  ASSUME NEW depth \in Nat \ {0}, NEW r \in Ring(depth), RingConsistent(r, depth)
  PROVE  /\ Contents(r, depth) \in Seq(Store)
         /\ Len(Contents(r, depth)) = r.cnt
         /\ \A k \in 1 .. r.cnt : Contents(r, depth)[k] = r.queue[At(r.rd, k - 1, depth)].st
<1>1. r.rd \in 0 .. depth - 1 /\ r.cnt \in 0 .. depth /\ r.cnt \in Nat
  BY DEF Ring, RingConsistent
<1>2. ASSUME NEW k \in 1 .. r.cnt
      PROVE  r.queue[At(r.rd, k - 1, depth)].st \in Store
  <2>1. k - 1 \in 0 .. depth - 1
    BY <1>1
  <2>2. At(r.rd, k - 1, depth) \in 0 .. depth - 1
    BY <1>1, <2>1, AtDist
  <2> QED BY <2>2 DEF Ring, Entry
<1>3. Contents(r, depth) \in [1 .. r.cnt -> Store]
  BY <1>2 DEF Contents
<1>4. Contents(r, depth) \in Seq(Store)
  BY <1>1, <1>3, SeqDef
<1>5. DOMAIN Contents(r, depth) = 1 .. Len(Contents(r, depth)) /\ Len(Contents(r, depth)) \in Nat
  BY <1>4, LenProperties
<1>6. DOMAIN Contents(r, depth) = 1 .. r.cnt
  BY DEF Contents
<1>7. Len(Contents(r, depth)) = r.cnt
  BY <1>1, <1>5, <1>6
<1> QED BY <1>4, <1>7 DEF Contents

\* A sequence without its head, if it is taken, and with a store at its end, if
\* one is pushed.
Moved(q, pop, pushed) == (IF pop THEN Tail(q) ELSE q) \o pushed

\* Counting from the next place is counting one further.
LEMMA AtNext ==
  ASSUME NEW depth \in Nat \ {0}, NEW rd \in 0 .. depth - 1, NEW i \in 0 .. depth - 1
  PROVE  At(IncPtr(rd, depth), i, depth) = At(rd, i + 1, depth)
BY DEF At, IncPtr

\* What a step of a consistent ring does to its contents.
LEMMA ContentsStep ==
  ASSUME NEW depth \in Nat \ {0}, NEW r \in Ring(depth), NEW q \in Ring(depth),
         NEW push \in BOOLEAN, NEW pop \in BOOLEAN, NEW st \in Store,
         RingConsistent(r, depth), RingConsistent(q, depth),
         push => r.cnt # depth, pop => r.cnt # 0,
         q.rd = IF pop THEN IncPtr(r.rd, depth) ELSE r.rd,
         q.cnt = r.cnt + (IF push THEN 1 ELSE 0) - (IF pop THEN 1 ELSE 0),
         \A j \in 0 .. depth - 1 : ~(push /\ j = r.wr) => q.queue[j].st = r.queue[j].st,
         push => q.queue[r.wr].st = st
  PROVE  Contents(q, depth) = Moved(Contents(r, depth), pop, IF push THEN <<st>> ELSE <<>>)
<1> DEFINE R == Contents(r, depth)
           Q == Contents(q, depth)
           T == IF pop THEN Tail(R) ELSE R
           P == IF push THEN <<st>> ELSE <<>>
           d == IF pop THEN 1 ELSE 0
<1>1. /\ r.rd \in 0 .. depth - 1 /\ r.wr \in 0 .. depth - 1 /\ r.cnt \in 0 .. depth
      /\ r.wr = At(r.rd, r.cnt, depth)
      /\ q.cnt \in 0 .. depth
  BY DEF Ring, RingConsistent
<1>2. /\ R \in Seq(Store) /\ Len(R) = r.cnt
      /\ \A k \in 1 .. r.cnt : R[k] = r.queue[At(r.rd, k - 1, depth)].st
  BY ContentsType
<1>3. /\ Q \in Seq(Store) /\ Len(Q) = q.cnt
      /\ \A k \in 1 .. q.cnt : Q[k] = q.queue[At(q.rd, k - 1, depth)].st
  BY ContentsType
<1> HIDE DEF R, Q
<1>4. /\ T \in Seq(Store) /\ Len(T) = r.cnt - d
      /\ \A k \in 1 .. Len(T) : T[k] = R[k + d]
  <2>1. CASE pop
    <3>1. R # <<>>
      BY <1>2, <2>1, EmptySeq
    <3> QED BY <1>2, <2>1, <3>1, HeadTailProperties
  <2>2. CASE ~pop
    BY <1>1, <1>2, <2>2
  <2> QED BY <2>1, <2>2
<1>5. P \in Seq(Store) /\ Len(P) = IF push THEN 1 ELSE 0
  BY EmptySeq
<1>6. push => P[1] = st
  OBVIOUS
<1> HIDE DEF T, P
<1>7. /\ T \o P \in Seq(Store) /\ Len(T \o P) = Len(T) + Len(P)
      /\ \A k \in 1 .. Len(T) + Len(P) : (T \o P)[k] = IF k <= Len(T) THEN T[k] ELSE P[k - Len(T)]
  BY <1>4, <1>5, ConcatProperties
<1>8. Len(T \o P) = q.cnt
  BY <1>1, <1>4, <1>5, <1>7, SMTT(30)
<1>9. ASSUME NEW k \in 1 .. q.cnt
      PROVE  Q[k] = (T \o P)[k]
  <2>1. CASE k <= Len(T)
    <3>1. k + d \in 1 .. r.cnt /\ k + d - 1 \in 0 .. depth - 1 /\ k - 1 \in 0 .. depth - 1
      BY <1>1, <1>4, <2>1
    <3>2. At(q.rd, k - 1, depth) = At(r.rd, k + d - 1, depth)
      BY <1>1, <3>1, AtNext
    <3>3. /\ At(r.rd, k + d - 1, depth) \in 0 .. depth - 1
          /\ push => At(r.rd, k + d - 1, depth) # r.wr
      BY <1>1, <3>1 DEF At
    <3>4. q.queue[At(r.rd, k + d - 1, depth)].st = r.queue[At(r.rd, k + d - 1, depth)].st
      BY <3>3
    <3>5. (T \o P)[k] = R[k + d]
      BY <1>1, <1>4, <1>5, <1>7, <1>8, <2>1, SMTT(30)
    <3>6. Q[k] = q.queue[At(q.rd, k - 1, depth)].st
      BY <1>3
    <3>7. R[k + d] = r.queue[At(r.rd, k + d - 1, depth)].st
      BY <1>2, <3>1, SMTT(30)
    <3> QED BY <3>2, <3>4, <3>5, <3>6, <3>7
  <2>2. CASE ~(k <= Len(T))
    <3>1. push /\ k = Len(T) + 1 /\ k = r.cnt - d + 1
      BY <1>1, <1>4, <1>5, <1>7, <1>8, <2>2
    <3>2. At(q.rd, k - 1, depth) = r.wr
      <4>1. CASE pop
        <5>1. k - 1 \in 0 .. depth - 1 /\ k - 1 + 1 = r.cnt
          BY <1>1, <3>1, <4>1
        <5> QED BY <1>1, <4>1, <5>1, AtNext
      <4>2. CASE ~pop
        BY <1>1, <3>1, <4>2
      <4> QED BY <4>1, <4>2
    <3>3. (T \o P)[k] = P[k - Len(T)] /\ k - Len(T) = 1
      BY <1>1, <1>4, <1>5, <1>7, <1>8, <2>2, <3>1, SMTT(30)
    <3> QED BY <1>3, <1>6, <3>1, <3>2, <3>3
  <2> QED BY <2>1, <2>2
<1>10. Q = T \o P
  BY <1>3, <1>7, <1>8, <1>9, SeqEqual
<1> QED BY <1>10 DEF Q, R, T, P, Moved

\* A cycle without a flush pops the store that retires and pushes the one that
\* was executed.
LEMMA SpecContents ==
  ASSUME NEW s \in Ring(DEPTH_SPEC), NEW in \in Input,
         RingConsistent(s, DEPTH_SPEC), ~in.flush,
         s.cnt = DEPTH_SPEC => ~in.valid,
         s.cnt = 0 => ~in.commit
  PROVE  Contents(core_if(s, in), DEPTH_SPEC)
           = Moved(Contents(s, DEPTH_SPEC), in.commit, IF in.valid THEN <<in.st>> ELSE <<>>)
<1> DEFINE D == DEPTH_SPEC
           q == core_if(s, in)
           pushed == IF in.valid
                     THEN [s.queue EXCEPT ![s.wr] = [st |-> in.st, valid |-> TRUE]]
                     ELSE s.queue
<1>1. D \in Nat \ {0}
  BY DepthAssumption
<1>2. q \in Ring(D) /\ RingConsistent(q, D)
  BY CoreIfType, SpecConsistent
<1>3. /\ s.rd \in 0 .. D - 1 /\ s.wr \in 0 .. D - 1 /\ s.cnt \in 0 .. D
      /\ s.queue \in [0 .. D - 1 -> Entry]
  BY <1>1 DEF Ring, RingConsistent
<1>4. in.valid \in BOOLEAN /\ in.commit \in BOOLEAN /\ in.st \in Store
  BY DEF Input
<1>5. q.rd = IF in.commit THEN IncPtr(s.rd, D) ELSE s.rd
  BY DEF core_if
<1>6. q.cnt = s.cnt + (IF in.valid THEN 1 ELSE 0) - (IF in.commit THEN 1 ELSE 0)
  BY <1>1, <1>3 DEF core_if, IncCnt, DecCnt
<1>7. q.queue = IF in.commit
                THEN [pushed EXCEPT ![s.rd] = [st |-> pushed[s.rd].st, valid |-> FALSE]]
                ELSE pushed
  BY DEF core_if
<1>8. /\ pushed \in [0 .. D - 1 -> Entry]
      /\ in.valid => pushed[s.wr].st = in.st
      /\ \A j \in 0 .. D - 1 : ~(in.valid /\ j = s.wr) => pushed[j].st = s.queue[j].st
  BY <1>3, <1>4 DEF Entry
<1> HIDE DEF q, pushed, D
<1>9. \A j \in 0 .. D - 1 : q.queue[j].st = pushed[j].st
  BY <1>3, <1>7, <1>8
<1>10. /\ \A j \in 0 .. D - 1 : ~(in.valid /\ j = s.wr) => q.queue[j].st = s.queue[j].st
       /\ in.valid => q.queue[s.wr].st = in.st
  BY <1>3, <1>8, <1>9
<1>11. Contents(q, D) = Moved(Contents(s, D), in.commit, IF in.valid THEN <<in.st>> ELSE <<>>)
  BY <1>1, <1>2, <1>4, <1>5, <1>6, <1>10, ContentsStep DEF D
<1> QED BY <1>11 DEF q, D

\* A cycle pops the store that the cache grants and pushes the one that retires.
LEMMA CommContents ==
  ASSUME NEW s \in Ring(DEPTH_SPEC), NEW c \in Ring(DEPTH_COMMIT), NEW in \in Input,
         RingConsistent(s, DEPTH_SPEC), RingConsistent(c, DEPTH_COMMIT),
         s.cnt = 0 => ~in.commit,
         c.cnt = DEPTH_COMMIT => ~in.commit
  PROVE  Contents(store_if(s, c, in), DEPTH_COMMIT)
           = Moved(Contents(c, DEPTH_COMMIT), data_req(c) /\ in.gnt,
                   IF in.commit THEN <<Oldest(s).st>> ELSE <<>>)
<1> DEFINE D == DEPTH_COMMIT
           q == store_if(s, c, in)
           grant == data_req(c) /\ in.gnt
           drained == IF grant
                      THEN [c.queue EXCEPT ![c.rd] = [st |-> c.queue[c.rd].st, valid |-> FALSE]]
                      ELSE c.queue
<1>1. D \in Nat \ {0} /\ DEPTH_SPEC \in Nat \ {0}
  BY DepthAssumption
<1>2. q \in Ring(D) /\ RingConsistent(q, D)
  BY StoreIfType, CommConsistent
<1>3. /\ c.rd \in 0 .. D - 1 /\ c.wr \in 0 .. D - 1 /\ c.cnt \in 0 .. D
      /\ c.queue \in [0 .. D - 1 -> Entry]
  BY <1>1 DEF Ring, RingConsistent
<1>4. in.commit \in BOOLEAN /\ grant \in BOOLEAN /\ Oldest(s).st \in Store
  BY <1>1 DEF Input, Ring, Entry, Oldest
<1>5. grant => c.cnt # 0
  BY <1>1, HeadValid DEF data_req
<1>6. q.rd = IF grant THEN IncPtr(c.rd, D) ELSE c.rd
  BY DEF store_if
<1>7. q.cnt = c.cnt + (IF in.commit THEN 1 ELSE 0) - (IF grant THEN 1 ELSE 0)
  <2>1. q.cnt = LET cntPop == IF grant THEN DecCnt(c.cnt, D) ELSE c.cnt
                IN  IF in.commit THEN IncCnt(cntPop, D) ELSE cntPop
    BY DEF store_if
  <2> HIDE DEF q, grant
  <2> QED BY <1>1, <1>3, <1>5, <2>1 DEF IncCnt, DecCnt
<1>8. q.queue = IF in.commit THEN [drained EXCEPT ![c.wr] = Oldest(s)] ELSE drained
  BY DEF store_if
<1> HIDE DEF q, grant
<1>9. /\ DOMAIN drained = 0 .. D - 1
      /\ \A j \in 0 .. D - 1 : drained[j].st = c.queue[j].st
  BY <1>3
<1> HIDE DEF drained, D
<1>10. /\ \A j \in 0 .. D - 1 : ~(in.commit /\ j = c.wr) => q.queue[j].st = c.queue[j].st
       /\ in.commit => q.queue[c.wr].st = Oldest(s).st
  BY <1>3, <1>8, <1>9
<1>11. Contents(q, D) = Moved(Contents(c, D), grant, IF in.commit THEN <<Oldest(s).st>> ELSE <<>>)
  BY <1>1, <1>2, <1>3, <1>4, <1>5, <1>6, <1>7, <1>10, ContentsStep, SMTT(30) DEF D
<1> QED BY <1>11 DEF q, D, grant

\* The head of the contents is the oldest entry.
LEMMA OldestIsHead ==
  ASSUME NEW depth \in Nat \ {0}, NEW r \in Ring(depth), RingConsistent(r, depth), r.cnt # 0
  PROVE  Contents(r, depth) # <<>> /\ Head(Contents(r, depth)) = r.queue[r.rd].st
<1>1. r.rd \in 0 .. depth - 1 /\ r.cnt \in 1 .. depth
  BY DEF Ring, RingConsistent
<1>2. /\ Contents(r, depth) \in Seq(Store) /\ Len(Contents(r, depth)) = r.cnt
      /\ \A k \in 1 .. r.cnt : Contents(r, depth)[k] = r.queue[At(r.rd, k - 1, depth)].st
  BY ContentsType
<1>3. Contents(r, depth)[1] = r.queue[At(r.rd, 0, depth)].st
  BY <1>1, <1>2
<1>4. At(r.rd, 0, depth) = r.rd
  BY <1>1 DEF At
<1>5. Contents(r, depth) # <<>>
  BY <1>1, <1>2, EmptySeq
<1> QED BY <1>2, <1>3, <1>4, <1>5

\* A ring with counter zero has no contents.
LEMMA NoContents ==
  ASSUME NEW r, NEW depth, r.cnt = 0
  PROVE  Contents(r, depth) = <<>>
BY DEF Contents

\* The store buffer of store_buffer.sv, with pointers, counters and flags in two
\* rings of any depth, implements the pair of queues that StoreQueue promises.
THEOREM ImplementsStoreQueue == Spec => Refinement
<1>1. Init => Queue!Init
  BY NoContents DEF Init, Queue!Init, specq, commq, ResetRing
<1>2. TypeOK /\ Consistent /\ [Next]_vars => [Queue!Next]_(Queue!vars)
  <2> SUFFICES ASSUME TypeOK, Consistent, [Next]_vars
               PROVE  [Queue!Next]_(Queue!vars)
    OBVIOUS
  <2>1. CASE Next
    <3>1. PICK in \in Input : Cycle(in)
      BY <2>1 DEF Next
    <3> DEFINE grant == data_req(comm) /\ in.gnt
               pushed == IF in.valid THEN <<in.st>> ELSE <<>>
               retired == IF in.commit THEN <<Oldest(spec).st>> ELSE <<>>
    <3>2. /\ spec \in Ring(DEPTH_SPEC) /\ RingConsistent(spec, DEPTH_SPEC)
          /\ comm \in Ring(DEPTH_COMMIT) /\ RingConsistent(comm, DEPTH_COMMIT)
          /\ DEPTH_SPEC \in Nat \ {0} /\ DEPTH_COMMIT \in Nat \ {0}
      BY DepthAssumption DEF TypeOK, Consistent
    <3>3. InputContract(in) /\ spec' = core_if(spec, in) /\ comm' = store_if(spec, comm, in)
      BY <3>1 DEF Cycle
    <3>4. grant \in BOOLEAN /\ in.commit \in BOOLEAN /\ in.st \in Store
      BY DEF Input
    <3>5. grant => commq # <<>>
      BY <3>2, HeadValid, OldestIsHead DEF data_req, commq
    <3>6. in.commit => specq # <<>> /\ Head(specq) = Oldest(spec).st
      BY <3>2, <3>3, OldestIsHead DEF InputContract, specq, Oldest
    <3>7. commq' = Moved(commq, grant, retired)
      BY <3>2, <3>3, CommContents DEF InputContract, commq
    <3>8. commq \in Seq(Store) /\ (commq # <<>> => Tail(commq) \in Seq(Store))
      BY <3>2, ContentsType, HeadTailProperties DEF commq
    <3>9. Queue!Drained(grant) \in Seq(Store)
      BY <3>5, <3>8 DEF Queue!Drained
    <3>10. commq' = IF in.commit THEN Append(Queue!Drained(grant), Head(specq)) ELSE Queue!Drained(grant)
      <4>1. commq' = Queue!Drained(grant) \o retired
        BY <3>7 DEF Moved, Queue!Drained
      <4>2. CASE in.commit
        <5>1. Oldest(spec).st \in Store
          BY <3>2 DEF Oldest, Ring, Entry
        <5> HIDE DEF grant
        <5> QED BY <3>6, <3>9, <4>1, <4>2, <5>1, AppendIsConcat
      <4>3. CASE ~in.commit
        <5> HIDE DEF grant
        <5> QED BY <3>9, <4>1, <4>3, ConcatEmptySeq
      <4> QED BY <4>2, <4>3
    <3> HIDE DEF grant
    <3>11. CASE in.flush
      <4>1. ~in.commit
        BY <3>3, <3>11 DEF InputContract
      <4>2. specq' = <<>>
        BY <3>3, <3>11, NoContents DEF specq, core_if
      <4>3. Queue!Flush(grant)
        BY <3>5, <3>10, <4>1, <4>2 DEF Queue!Flush
      <4> QED BY <3>4, <4>3 DEF Queue!Next
    <3>12. CASE ~in.flush
      <4>1. specq' = Moved(specq, in.commit, pushed)
        BY <3>2, <3>3, <3>12, SpecContents DEF InputContract, specq
      <4>2. Queue!Advance(pushed, in.commit, grant)
        BY <3>5, <3>6, <3>10, <4>1 DEF Queue!Advance, Moved
      <4>3. pushed \in {<<>>} \union {<<st>> : st \in Store}
        BY <3>4
      <4> HIDE DEF pushed
      <4> QED BY <3>4, <4>2, <4>3 DEF Queue!Next
    <3> QED BY <3>11, <3>12
  <2>2. CASE UNCHANGED vars
    BY <2>2 DEF vars, Queue!vars, specq, commq
  <2> QED BY <2>1, <2>2
<1> QED BY <1>1, <1>2, TypeCorrect, RingsConsistent, PTL DEF Spec, Refinement, Queue!Spec
=============================================================================
