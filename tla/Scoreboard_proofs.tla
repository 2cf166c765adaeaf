------------------------- MODULE Scoreboard_proofs --------------------------
(***************************************************************************)
(* Proofs about the scoreboard, for every number of entries, every set of  *)
(* instructions and every number of write-backs per cycle.                 *)
(***************************************************************************)
EXTENDS Scoreboard, SequenceTheorems, TLAPS

\* A free entry is an entry.
LEMMA NullEntryType == NullEntry \in Entry
BY InstrAssumption DEF NullEntry, Entry

\* The index arithmetic stays within the ring.
LEMMA PointerType ==
  ASSUME NEW p \in TransId, NEW k \in 0 .. 2
  PROVE  Plus(p, k) \in TransId /\ Minus(p, k) \in TransId
BY EntriesAssumption DEF Plus, Minus, TransId

\* The next value of an entry is an entry.
LEMMA NextEntryType ==
  ASSUME NEW s \in SB, NEW in \in Input, NEW t \in TransId
  PROVE  NextEntry(s, in, t) \in Entry
<1> DEFINE e0 == s.mem[t]
           issued == IF issue_en(s, in) /\ t = s.ip
                     THEN LET i == CHOOSE i \in in.issue : TRUE
                          IN  [issued |-> TRUE, valid |-> i.ex, ex |-> i.ex, instr |-> i]
                     ELSE e0
           none   == IF e0.issued /\ fu(e0.instr) = "NONE"
                     THEN [issued EXCEPT !.valid = TRUE] ELSE issued
           ports  == {w \in in.wb : w.tid = t}
           wrote  == IF ports # {} /\ accepted(e0)
                     THEN [none EXCEPT !.valid = TRUE, !.ex = exAfter(none, ports)]
                     ELSE none
           popped == IF (in.ack > 0 /\ t = s.cp0) \/ (in.ack > 1 /\ t = s.cp1)
                     THEN [wrote EXCEPT !.issued = FALSE, !.valid = FALSE] ELSE wrote
<1>1. e0 \in Entry
  BY DEF SB
<1>2. issued \in Entry
  <2>1. CASE issue_en(s, in)
    <3>1. PICK i \in Instr : in.issue = {i}
      BY <2>1 DEF issue_en, Input
    <3>2. (CHOOSE j \in in.issue : TRUE) = i
      BY <3>1
    <3> QED BY <1>1, <3>2, InstrAssumption DEF Entry
  <2> QED BY <1>1, <2>1
<1> HIDE DEF issued, e0, ports
<1>3. none \in Entry
  BY <1>2 DEF Entry
<1> HIDE DEF none
<1>4. wrote \in Entry
  <2>1. exAfter(none, ports) \in BOOLEAN
    BY DEF exAfter
  <2> QED BY <1>3, <2>1 DEF Entry
<1> HIDE DEF wrote
<1>5. popped \in Entry
  BY <1>4 DEF Entry
<1>6. NextEntry(s, in, t) = IF in.flush THEN Flushed(popped) ELSE popped
  BY DEF NextEntry, e0, issued, none, ports, wrote
<1> HIDE DEF popped
<1> QED BY <1>5, <1>6 DEF Flushed, Entry

\* A cycle leaves values of their types in the registers.
LEMMA CycleType ==
  ASSUME sb \in SB, NEW in \in Input, Cycle(in)
  PROVE  sb' \in SB
<1>2. [t \in TransId |-> NextEntry(sb, in, t)] \in [TransId -> Entry]
  BY NextEntryType
<1> DEFINE en  == IF issue_en(sb, in) THEN 1 ELSE 0
           cp0 == IF in.flush THEN 0 ELSE Plus(sb.cp0, in.ack)
<1>3. 0 \in TransId /\ en \in 0 .. 2 /\ in.ack \in 0 .. 2
  BY EntriesAssumption DEF TransId, Input
<1>4. /\ sb.cnt \in TransId /\ sb.ip \in TransId /\ sb.cp0 \in TransId
  BY DEF SB
<1> HIDE DEF en
<1>5. /\ Plus(sb.cnt, en) \in TransId /\ Plus(sb.ip, en) \in TransId /\ cp0 \in TransId
  BY <1>3, <1>4, PointerType
<1> HIDE DEF cp0
<1>6. /\ Minus(Plus(sb.cnt, en), in.ack) \in TransId /\ Plus(cp0, 1) \in TransId
  BY <1>3, <1>5, PointerType
<1>7. sb' = [mem |-> [t \in TransId |-> NextEntry(sb, in, t)],
             cnt |-> IF in.flush THEN 0 ELSE Minus(Plus(sb.cnt, en), in.ack),
             ip  |-> IF in.flush THEN 0 ELSE Plus(sb.ip, en),
             cp0 |-> cp0,
             cp1 |-> IF in.flush THEN 0 ELSE Plus(cp0, 1)]
  BY DEF Cycle, sb_next, commit_pointer_1, en, cp0
<1> QED BY <1>2, <1>3, <1>5, <1>6, <1>7 DEF SB

\* Type correctness of the scoreboard's registers.
THEOREM TypeCorrect == Spec => []TypeOK
<1>1. Init => TypeOK
  BY NullEntryType, EntriesAssumption DEF Init, TypeOK, sb_reset, SB, TransId
<1>2. TypeOK /\ [Next]_sb => TypeOK'
  <2> SUFFICES ASSUME TypeOK, Next
               PROVE  TypeOK'
    BY DEF TypeOK
  <2>1. PICK in \in Input : Cycle(in)
    BY DEF Next
  <2> QED BY <2>1, CycleType DEF TypeOK
<1> QED BY <1>1, <1>2, PTL DEF Spec

-----------------------------------------------------------------------------
(* Consistency of pointers, counter and flags.                             *)

\* How far entry t lies behind the first commit pointer.
Dist(cp0, t) == IF t >= cp0 THEN t - cp0 ELSE t - cp0 + NR_ENTRIES

\* Indices and distances correspond to one another.
LEMMA AtDist ==
  ASSUME NEW p \in TransId
  PROVE  \A t \in TransId : /\ Dist(p, t) \in TransId /\ At(p, Dist(p, t)) = t
                            /\ At(p, t) \in TransId /\ Dist(p, At(p, t)) = t
BY EntriesAssumption DEF At, Dist, TransId

\* Consistent, stated entry by entry.
ByIndex(s) ==
    /\ s.ip = At(s.cp0, s.cnt)
    /\ \A t \in TransId : /\ s.mem[t].issued <=> Dist(s.cp0, t) < s.cnt
                          /\ s.mem[t].valid => s.mem[t].issued

\* Both statements say the same.
LEMMA ConsistentByIndex ==
  ASSUME sb \in SB
  PROVE  Consistent <=> ByIndex(sb)
<1>1. sb.cp0 \in TransId
  BY DEF SB
<1>2. ASSUME Consistent, NEW t \in TransId
      PROVE  /\ sb.mem[t].issued <=> Dist(sb.cp0, t) < sb.cnt
             /\ sb.mem[t].valid => sb.mem[t].issued
  <2>1. Dist(sb.cp0, t) \in TransId /\ At(sb.cp0, Dist(sb.cp0, t)) = t
    BY <1>1, AtDist
  <2> QED BY <1>2, <2>1 DEF Consistent
<1>3. ASSUME ByIndex(sb), NEW k \in TransId
      PROVE  LET e == sb.mem[At(sb.cp0, k)]
             IN  (e.issued <=> k < sb.cnt) /\ (e.valid => e.issued)
  <2>1. At(sb.cp0, k) \in TransId /\ Dist(sb.cp0, At(sb.cp0, k)) = k
    BY <1>1, AtDist
  <2> QED BY <1>3, <2>1 DEF ByIndex
<1> QED BY <1>2, <1>3 DEF Consistent, ByIndex

\* Entry t leaves the scoreboard through one of the commit ports.
Retires(s, in, t) == (in.ack > 0 /\ t = s.cp0) \/ (in.ack > 1 /\ t = s.cp1)

\* Entry t is filled.
Enters(s, in, t) == issue_en(s, in) /\ t = s.ip

\* The flags of an entry after a cycle.
LEMMA NextEntryFlags ==
  ASSUME NEW s \in SB, NEW in \in Input, NEW t \in TransId,
         s.mem[t].valid => s.mem[t].issued
  PROVE  /\ NextEntry(s, in, t).issued
               <=> (Enters(s, in, t) \/ s.mem[t].issued) /\ ~Retires(s, in, t) /\ ~in.flush
         /\ NextEntry(s, in, t).valid => NextEntry(s, in, t).issued
<1> DEFINE e0 == s.mem[t]
           issued == IF issue_en(s, in) /\ t = s.ip
                     THEN LET i == CHOOSE i \in in.issue : TRUE
                          IN  [issued |-> TRUE, valid |-> i.ex, ex |-> i.ex, instr |-> i]
                     ELSE e0
           none   == IF e0.issued /\ fu(e0.instr) = "NONE"
                     THEN [issued EXCEPT !.valid = TRUE] ELSE issued
           ports  == {w \in in.wb : w.tid = t}
           wrote  == IF ports # {} /\ accepted(e0)
                     THEN [none EXCEPT !.valid = TRUE, !.ex = exAfter(none, ports)]
                     ELSE none
           popped == IF (in.ack > 0 /\ t = s.cp0) \/ (in.ack > 1 /\ t = s.cp1)
                     THEN [wrote EXCEPT !.issued = FALSE, !.valid = FALSE] ELSE wrote
<1>1. e0 \in Entry
  BY DEF SB
<1>2. /\ DOMAIN issued = {"issued", "valid", "ex", "instr"}
      /\ issued = [f \in DOMAIN issued |-> issued[f]]
      /\ issued.issued <=> Enters(s, in, t) \/ e0.issued
      /\ issued.valid => issued.issued
  BY <1>1 DEF Entry, Enters
<1> HIDE DEF issued, ports
<1>3. /\ DOMAIN none = {"issued", "valid", "ex", "instr"}
      /\ none = [f \in DOMAIN none |-> none[f]]
      /\ none.issued <=> Enters(s, in, t) \/ e0.issued
      /\ none.valid => none.issued
  BY <1>2
<1> HIDE DEF none
<1>4. /\ DOMAIN wrote = {"issued", "valid", "ex", "instr"}
      /\ wrote = [f \in DOMAIN wrote |-> wrote[f]]
      /\ wrote.issued <=> Enters(s, in, t) \/ e0.issued
      /\ wrote.valid => wrote.issued
  BY <1>3 DEF accepted
<1> HIDE DEF wrote
<1>5. /\ DOMAIN popped = {"issued", "valid", "ex", "instr"}
      /\ popped = [f \in DOMAIN popped |-> popped[f]]
      /\ popped.issued <=> (Enters(s, in, t) \/ e0.issued) /\ ~Retires(s, in, t)
      /\ popped.valid => popped.issued
  BY <1>4 DEF Retires
<1>6. NextEntry(s, in, t) = IF in.flush THEN Flushed(popped) ELSE popped
  BY DEF NextEntry, e0, issued, none, ports, wrote
<1> HIDE DEF popped
<1> QED BY <1>5, <1>6 DEF Flushed

\* Both commit pointers are adjacent, or the scoreboard is empty.
PortsReady(s) == s.cp1 = At(s.cp0, 1) \/ s.cnt = 0

\* The index arithmetic of a cycle in which e instructions enter and n retire,
\* with c instructions from index p on.
Moves(p, c, e, n) ==
    /\ Plus(At(p, c), e) = At(Plus(p, n), c + e - n)
    /\ \A t \in TransId :
          Dist(Plus(p, n), t) < c + e - n
          <=> /\ (e = 1 /\ t = At(p, c)) \/ Dist(p, t) < c
              /\ ~((n > 0 /\ t = p) \/ (n > 1 /\ t = At(p, 1)))

\* It is right as long as the ring neither overflows nor underflows.
LEMMA PointerStep ==
  ASSUME NEW p \in TransId, NEW c \in TransId, NEW e \in 0 .. 1, NEW n \in 0 .. 2,
         n <= c, e = 1 => c # NR_ENTRIES - 1
  PROVE  Moves(p, c, e, n)
<1>1. NR_ENTRIES \in Nat /\ p \in Nat /\ c \in Nat /\ p < NR_ENTRIES /\ c < NR_ENTRIES
  BY EntriesAssumption DEF TransId
<1>2. Plus(At(p, c), e) = At(Plus(p, n), c + e - n)
  BY <1>1 DEF Plus, At
<1>3. ASSUME NEW t \in TransId
      PROVE  Dist(Plus(p, n), t) < c + e - n
               <=> /\ (e = 1 /\ t = At(p, c)) \/ Dist(p, t) < c
                   /\ ~((n > 0 /\ t = p) \/ (n > 1 /\ t = At(p, 1)))
  <2>1. t \in Nat /\ t < NR_ENTRIES /\ NR_ENTRIES > 1
    BY EntriesAssumption DEF TransId
  <2>2. CASE n = 0
    BY <1>1, <2>1, <2>2 DEF Plus, At, Dist
  <2>3. CASE n = 1
    BY <1>1, <2>1, <2>3 DEF Plus, At, Dist
  <2>4. CASE n = 2
    BY <1>1, <2>1, <2>4 DEF Plus, At, Dist
  <2> QED BY <2>2, <2>3, <2>4
<1> QED BY <1>2, <1>3 DEF Moves

\* Whether an instruction enters in a cycle, as a number.
Entering(in) == IF issue_en(sb, in) THEN 1 ELSE 0

\* What a cycle without flush does to counter and pointers: nothing retires that
\* is not in flight, and nothing enters when the ring is full.
LEMMA CycleMoves ==
  ASSUME sb \in SB, ByIndex(sb), PortsReady(sb), NEW in \in Input, Cycle(in), ~in.flush
  PROVE  /\ sb'.cnt = sb.cnt + Entering(in) - in.ack
         /\ sb'.ip = Plus(sb.ip, Entering(in)) /\ sb'.cp0 = Plus(sb.cp0, in.ack)
         /\ in.ack <= sb.cnt
         /\ Entering(in) = 1 => sb.cnt # NR_ENTRIES - 1
         /\ in.ack > 1 => sb.cp1 = At(sb.cp0, 1)
<1>1. /\ sb.cnt \in TransId /\ sb.ip \in TransId /\ sb.cp0 \in TransId /\ sb.cp1 \in TransId
      /\ in.ack \in 0 .. 2
  BY DEF SB, Input
<1>2. /\ sb'.cp0 = Plus(sb.cp0, in.ack)
      /\ sb'.ip = Plus(sb.ip, Entering(in))
      /\ sb'.cnt = Minus(Plus(sb.cnt, Entering(in)), in.ack)
  BY DEF Cycle, sb_next, Entering
<1>3. issue_en(sb, in) => sb.cnt # NR_ENTRIES - 1
  BY DEF issue_en, issue_full
<1>4. in.ack > 0 => sb.cnt > 0
  <2>1. in.ack > 0 => sb.mem[sb.cp0].issued
    BY <1>1 DEF Cycle, InputContract, commit_instr_o, ByIndex
  <2>2. Dist(sb.cp0, sb.cp0) = 0
    BY <1>1, EntriesAssumption DEF Dist, TransId
  <2> QED BY <1>1, <2>1, <2>2 DEF ByIndex
<1>5. in.ack > 1 => sb.cnt > 1 /\ sb.cp1 = At(sb.cp0, 1)
  <2>1. in.ack > 1 => sb.mem[sb.cp1].issued
    BY <1>1 DEF Cycle, InputContract, commit_instr_o, ByIndex
  <2>2. in.ack > 1 => sb.cp1 = At(sb.cp0, 1)
    BY <1>1, <1>4 DEF PortsReady, TransId
  <2>3. Dist(sb.cp0, At(sb.cp0, 1)) = 1
    BY <1>1, EntriesAssumption DEF Dist, At, TransId
  <2> QED BY <1>1, <2>1, <2>2, <2>3 DEF ByIndex, TransId
<1>6. sb'.cnt = sb.cnt + Entering(in) - in.ack
  BY <1>1, <1>2, <1>3, <1>4, <1>5, EntriesAssumption DEF Plus, Minus, TransId, Entering
<1> QED BY <1>1, <1>2, <1>3, <1>4, <1>5, <1>6 DEF TransId, Entering

\* The inductive step.
LEMMA ConsistentStep ==
  ASSUME sb \in SB, ByIndex(sb), PortsReady(sb), NEW in \in Input, Cycle(in)
  PROVE  ByIndex(sb') /\ PortsReady(sb')
<1>1. sb.cnt \in TransId /\ sb.cp0 \in TransId /\ in.ack \in 0 .. 2
  BY DEF SB, Input
<1>2. /\ sb'.mem = [t \in TransId |-> NextEntry(sb, in, t)]
      /\ in.flush => sb'.cnt = 0 /\ sb'.cp0 = 0 /\ sb'.ip = 0
      /\ ~in.flush => sb'.cp1 = Plus(sb'.cp0, 1)
  BY DEF Cycle, sb_next, commit_pointer_1
<1>3. \A t \in TransId :
         /\ sb'.mem[t].issued <=> /\ Enters(sb, in, t) \/ Dist(sb.cp0, t) < sb.cnt
                                  /\ ~Retires(sb, in, t) /\ ~in.flush
         /\ sb'.mem[t].valid => sb'.mem[t].issued
  BY <1>2, NextEntryFlags DEF ByIndex
<1>4. CASE in.flush
  <2>1. \A t \in TransId : ~sb'.mem[t].issued /\ ~(Dist(0, t) < 0)
    BY <1>3, <1>4, EntriesAssumption DEF Dist, TransId
  <2>2. At(0, 0) = 0
    BY EntriesAssumption DEF At
  <2> QED BY <1>2, <1>3, <1>4, <2>1, <2>2 DEF ByIndex, PortsReady
<1>5. CASE ~in.flush
  <2> DEFINE en == Entering(in)
  <2>1. en \in 0 .. 1 /\ (en = 1 <=> issue_en(sb, in))
    BY DEF Entering
  <2>2. /\ sb'.cnt = sb.cnt + en - in.ack
        /\ sb'.ip = Plus(sb.ip, en) /\ sb'.cp0 = Plus(sb.cp0, in.ack)
        /\ in.ack <= sb.cnt
        /\ en = 1 => sb.cnt # NR_ENTRIES - 1
        /\ in.ack > 1 => sb.cp1 = At(sb.cp0, 1)
    BY <1>5, CycleMoves
  <2>3. sb.ip = At(sb.cp0, sb.cnt)
    BY DEF ByIndex
  <2> HIDE DEF en
  <2>4. Moves(sb.cp0, sb.cnt, en, in.ack)
    BY <1>1, <2>1, <2>2, PointerStep
  <2>5. sb'.ip = At(sb'.cp0, sb'.cnt)
    BY <2>2, <2>3, <2>4 DEF Moves
  <2>6. ASSUME NEW t \in TransId
        PROVE  (Enters(sb, in, t) \/ Dist(sb.cp0, t) < sb.cnt) /\ ~Retires(sb, in, t)
               <=> Dist(sb'.cp0, t) < sb'.cnt
    BY <2>1, <2>2, <2>3, <2>4 DEF Enters, Retires, Moves
  <2>7. sb'.cp1 = At(sb'.cp0, 1)
    BY <1>2, <1>5 DEF Plus, At
  <2> QED BY <1>3, <1>5, <2>5, <2>6, <2>7 DEF ByIndex, PortsReady
<1> QED BY <1>4, <1>5

\* The invariant that is inductive: PortsReady bridges the cycle after a flush
\* or a reset, in which both commit pointers are zero.
IInv == TypeOK /\ ByIndex(sb) /\ PortsReady(sb)

\* The invariant holds in every reachable state.
LEMMA Inductive == Spec => []IInv
<1>1. Init => IInv
  <2> SUFFICES ASSUME Init PROVE ByIndex(sb) /\ PortsReady(sb) /\ TypeOK
    BY DEF IInv
  <2>1. TypeOK
    BY NullEntryType, EntriesAssumption DEF Init, TypeOK, sb_reset, SB, TransId
  <2> QED BY <2>1, EntriesAssumption
          DEF Init, sb_reset, ByIndex, PortsReady, At, Dist, TransId, NullEntry
<1>2. IInv /\ TypeOK' /\ [Next]_sb => IInv'
  <2> SUFFICES ASSUME IInv, TypeOK', [Next]_sb PROVE IInv'
    OBVIOUS
  <2>1. CASE Next
    <3>1. PICK in \in Input : Cycle(in)
      BY <2>1 DEF Next
    <3>2. ByIndex(sb') /\ PortsReady(sb')
      BY <3>1, ConsistentStep DEF IInv, TypeOK
    <3> QED BY <3>2 DEF IInv
  <2>2. CASE UNCHANGED sb
    BY <2>2 DEF IInv, TypeOK
  <2> QED BY <2>1, <2>2
<1> QED BY <1>1, <1>2, TypeCorrect, PTL DEF Spec

\* Issue pointer, commit pointer, counter and flags agree for every number of
\* entries: a write-back that comes after a flush never revives an entry.
THEOREM PointersConsistent == Spec => []Consistent
<1>1. IInv => Consistent
  BY ConsistentByIndex DEF IInv, TypeOK
<1> QED BY <1>1, Inductive, PTL

\* The two commit ports never offer the same instruction for retirement.
THEOREM CommitPortsDistinct == Spec => []PortsDistinct
<1>1. IInv => PortsDistinct
  <2> SUFFICES ASSUME IInv, commit_instr_o(sb, 1).valid
               PROVE  sb.cp1 = At(sb.cp0, 1)
    BY DEF PortsDistinct
  <2>1. sb.cp0 \in TransId /\ sb.cp1 \in TransId /\ sb.cnt \in TransId
    BY DEF IInv, TypeOK, SB
  <2>2. Dist(sb.cp0, sb.cp1) < sb.cnt
    BY <2>1 DEF IInv, ByIndex, commit_instr_o
  <2>3. Dist(sb.cp0, sb.cp1) \in TransId
    BY <2>1, AtDist
  <2> QED BY <2>1, <2>2, <2>3, EntriesAssumption DEF IInv, PortsReady, TransId
<1> QED BY <1>1, Inductive, PTL
-----------------------------------------------------------------------------
(* The scoreboard implements the reorder buffer.                           *)

\* An entry that neither enters nor leaves keeps its instruction, stays complete
\* once it is, and keeps its exception.
LEMMA EntryStays ==
  ASSUME NEW s \in SB, NEW in \in Input, NEW t \in TransId,
         ~Enters(s, in, t), ~Retires(s, in, t), ~in.flush
  PROVE  Abstract!Completed(s.mem[t], NextEntry(s, in, t))
<1> DEFINE e0 == s.mem[t]
           none   == IF e0.issued /\ fu(e0.instr) = "NONE"
                     THEN [e0 EXCEPT !.valid = TRUE] ELSE e0
           ports  == {w \in in.wb : w.tid = t}
           wrote  == IF ports # {} /\ accepted(e0)
                     THEN [none EXCEPT !.valid = TRUE, !.ex = exAfter(none, ports)]
                     ELSE none
<1>1. e0 \in Entry
  BY DEF SB
<1>2. NextEntry(s, in, t) = wrote
  BY DEF NextEntry, Enters, Retires
<1> HIDE DEF e0, ports
<1>3. /\ none \in Entry /\ none.instr = e0.instr /\ none.ex = e0.ex
      /\ e0.valid => none.valid
  BY <1>1 DEF Entry
<1> HIDE DEF none
<1>4. exAfter(none, ports) \in BOOLEAN /\ (none.ex => exAfter(none, ports))
  BY DEF exAfter
<1>5. /\ wrote.instr = e0.instr
      /\ e0.valid => wrote.valid
      /\ e0.ex => wrote.ex
      /\ (wrote.ex /\ ~e0.ex) => wrote.valid
  BY <1>1, <1>3, <1>4 DEF Entry
<1> QED BY <1>2, <1>5 DEF Abstract!Completed, e0

\* The queue in a scoreboard s.
SlotAt(s, t) == [instr |-> s.mem[t].instr, valid |-> s.mem[t].valid, ex |-> s.mem[t].ex]

RobOf(s) == [k \in 1 .. s.cnt |-> SlotAt(s, At(s.cp0, k - 1))]

\* It is what the refinement maps the ring to.
LEMMA RobIsRobOf == rob = RobOf(sb) /\ rob' = RobOf(sb')
BY DEF rob, RobOf, SlotAt

\* The contents of the ring, as a sequence.
LEMMA RobType ==
  ASSUME NEW s \in SB
  PROVE  /\ RobOf(s) \in Seq(Abstract!Slot) /\ Len(RobOf(s)) = s.cnt
         /\ \A k \in 1 .. s.cnt : RobOf(s)[k] = SlotAt(s, At(s.cp0, k - 1))
<1>1. s.cnt \in Nat /\ s.cnt < NR_ENTRIES /\ s.cp0 \in TransId
  BY EntriesAssumption DEF SB, TransId
<1>2. ASSUME NEW k \in 1 .. s.cnt
      PROVE  SlotAt(s, At(s.cp0, k - 1)) \in Abstract!Slot
  <2>1. k - 1 \in TransId
    BY <1>1, EntriesAssumption DEF TransId
  <2>2. At(s.cp0, k - 1) \in TransId
    BY <1>1, <2>1, AtDist
  <2>3. s.mem[At(s.cp0, k - 1)] \in Entry
    BY <2>2 DEF SB
  <2> QED BY <2>3 DEF Entry, Abstract!Slot, SlotAt
<1>3. RobOf(s) \in [1 .. s.cnt -> Abstract!Slot]
  BY <1>2 DEF RobOf
<1>4. RobOf(s) \in Seq(Abstract!Slot)
  BY <1>1, <1>3, SeqDef
<1>5. DOMAIN RobOf(s) = 1 .. s.cnt
  BY DEF RobOf
<1>6. Len(RobOf(s)) = s.cnt
  BY <1>1, <1>4, <1>5, LenProperties
<1> QED BY <1>4, <1>6 DEF RobOf

\* The instructions that a cycle retires are the oldest ones and complete.
LEMMA RetiredComplete ==
  ASSUME sb \in SB, ByIndex(sb), PortsReady(sb), NEW in \in Input, Cycle(in), ~in.flush
  PROVE  \A i \in 1 .. in.ack : rob[i].valid
<1>1. in.ack \in 0 .. 2 /\ sb.cp0 \in TransId /\ sb.cnt \in Nat
  BY DEF SB, Input, TransId
<1>2. in.ack <= sb.cnt /\ (in.ack > 1 => sb.cp1 = At(sb.cp0, 1))
  BY CycleMoves
<1>3. in.ack > 0 => sb.mem[At(sb.cp0, 0)].valid
  BY <1>1, EntriesAssumption DEF Cycle, InputContract, commit_instr_o, At, TransId
<1>4. in.ack > 1 => sb.mem[At(sb.cp0, 1)].valid
  BY <1>1, <1>2 DEF Cycle, InputContract, commit_instr_o
<1> SUFFICES ASSUME NEW i \in 1 .. in.ack
             PROVE  rob[i].valid
  OBVIOUS
<1>5. rob[i].valid = sb.mem[At(sb.cp0, i - 1)].valid
  <2>1. i \in 1 .. sb.cnt
    BY <1>1, <1>2
  <2>2. RobOf(sb)[i] = SlotAt(sb, At(sb.cp0, i - 1))
    BY <2>1, RobType
  <2> QED BY <2>2, RobIsRobOf DEF SlotAt
<1>6. i = 1 \/ (i = 2 /\ in.ack > 1)
  BY <1>1
<1> QED BY <1>1, <1>3, <1>4, <1>5, <1>6

\* The others move up and make progress.
LEMMA KeptCompleted ==
  ASSUME sb \in SB, sb' \in SB, ByIndex(sb), PortsReady(sb), NEW in \in Input, Cycle(in), ~in.flush,
         NEW i \in 1 .. sb.cnt - in.ack
  PROVE  i <= sb'.cnt /\ Abstract!Completed(rob[i + in.ack], rob'[i])
<1> DEFINE n == in.ack
           t == At(sb.cp0, (i + n) - 1)
<1>1. /\ n \in 0 .. 2 /\ sb.cp0 \in TransId /\ sb.cnt \in TransId
      /\ NR_ENTRIES \in Nat /\ NR_ENTRIES > 1 /\ i \in Nat /\ i > 0
  BY EntriesAssumption DEF SB, Input, TransId
<1>2. /\ sb'.cnt = sb.cnt + Entering(in) - n
      /\ sb'.cp0 = Plus(sb.cp0, n)
      /\ n <= sb.cnt
      /\ n > 1 => sb.cp1 = At(sb.cp0, 1)
  BY CycleMoves
<1>3. Entering(in) \in 0 .. 1
  BY DEF Entering
<1> HIDE DEF n
<1>4. /\ i + n - 1 \in TransId /\ i + n - 1 < sb.cnt /\ i + n - 1 >= n
      /\ i <= sb.cnt - n
  BY <1>1, <1>2 DEF TransId, n
<1>5. At(sb'.cp0, i - 1) = t
  BY <1>1, <1>2, <1>4 DEF At, Plus, TransId
<1>6. t \in TransId /\ Dist(sb.cp0, t) = i + n - 1
  BY <1>1, <1>4, AtDist
<1>7. ~Enters(sb, in, t)
  <2>1. Dist(sb.cp0, At(sb.cp0, sb.cnt)) = sb.cnt
    BY <1>1, AtDist
  <2> QED BY <1>1, <1>4, <1>6, <2>1 DEF Enters, ByIndex, TransId
<1>8. ~Retires(sb, in, t)
  <2>1. Dist(sb.cp0, sb.cp0) = 0 /\ Dist(sb.cp0, At(sb.cp0, 1)) = 1
    BY <1>1 DEF Dist, At, TransId
  <2>2. n > 0 => t # sb.cp0
    BY <1>1, <1>4, <1>6, <2>1
  <2>3. n > 1 => t # sb.cp1
    BY <1>1, <1>2, <1>4, <1>6, <2>1
  <2> QED BY <2>2, <2>3 DEF Retires, n
<1>9. Abstract!Completed(sb.mem[t], sb'.mem[t])
  <2>1. sb'.mem[t] = NextEntry(sb, in, t)
    BY <1>6 DEF Cycle, sb_next
  <2> QED BY <1>6, <1>7, <1>8, <2>1, EntryStays
<1>10. i + n \in 1 .. sb.cnt /\ i \in 1 .. sb'.cnt
  BY <1>1, <1>2, <1>3, <1>4 DEF TransId
<1>11. rob[i + n] = SlotAt(sb, t)
  <2>1. \A k \in 1 .. sb.cnt : RobOf(sb)[k] = SlotAt(sb, At(sb.cp0, k - 1))
    BY RobType
  <2>2. RobOf(sb)[i + n] = SlotAt(sb, At(sb.cp0, (i + n) - 1))
    BY <1>10, <2>1, Zenon
  <2> QED BY <2>2, RobIsRobOf, Zenon DEF t
<1>12. rob'[i] = SlotAt(sb', t)
  BY <1>5, <1>10, RobIsRobOf, RobType
<1> HIDE DEF t
<1> QED BY <1>9, <1>10, <1>11, <1>12 DEF Abstract!Completed, SlotAt, n

\* The ring of scoreboard.sv, with two commit ports, late write-backs and any
\* number of entries, implements the reorder buffer: what is in flight leaves in
\* program order, once, and only when complete.
THEOREM ImplementsReorderBuffer == Spec => Refinement
<1>1. Init => Abstract!Init
  BY DEF Init, sb_reset, rob, Abstract!Init
<1>2. IInv /\ IInv' /\ [Next]_sb => [Abstract!Next]_rob
  <2> SUFFICES ASSUME IInv, IInv', Next
               PROVE  Abstract!Next
    BY DEF rob
  <2>1. PICK in \in Input : Cycle(in)
    BY DEF Next
  <2>2. sb \in SB /\ sb' \in SB /\ ByIndex(sb) /\ PortsReady(sb)
    BY DEF IInv, TypeOK
  <2>3. CASE in.flush
    <3>1. sb'.cnt = 0
      BY <2>1, <2>3 DEF Cycle, sb_next
    <3>2. rob' = <<>>
      BY <3>1 DEF rob
    <3> QED BY <3>2 DEF Abstract!Next, Abstract!Flush
  <2>4. CASE ~in.flush
    <3> DEFINE n == in.ack
               m == Len(rob') - (Len(rob) - n)
               kept == SubSeq(rob', 1, Len(rob') - m)
               entering == SubSeq(rob', Len(rob') - m + 1, Len(rob'))
    <3>1. n \in 0 .. 2 /\ sb.cnt \in Nat /\ sb'.cnt \in Nat
      BY <2>2 DEF Input, SB, TransId
    <3>2. Len(rob) = sb.cnt
      BY <2>2, RobIsRobOf, RobType
    <3>3. rob' \in Seq(Abstract!Slot) /\ Len(rob') = sb'.cnt
      BY <2>2, RobIsRobOf, RobType
    <3>4. sb'.cnt = sb.cnt + Entering(in) - n /\ n <= sb.cnt /\ Entering(in) \in {0, 1}
      BY <2>1, <2>2, <2>4, CycleMoves DEF Entering
    <3>5. m \in {0, 1} /\ m = Entering(in) /\ Len(rob') - m = sb.cnt - n
      BY <3>1, <3>2, <3>3, <3>4
    <3>6. \A i \in 1 .. n : rob[i].valid
      BY <2>1, <2>2, <2>4, RetiredComplete
    <3>7. \A i \in 1 .. sb.cnt - n : i <= sb'.cnt /\ Abstract!Completed(rob[i + n], rob'[i])
      BY <2>1, <2>2, <2>4, KeptCompleted
    <3>8. Len(kept) = sb.cnt - n /\ \A i \in 1 .. sb.cnt - n : kept[i] = rob'[i]
      <4>1. \A i \in 1 .. sb.cnt - n : rob'[i] \in Abstract!Slot
        BY <3>1, <3>3, <3>7, ElementOfSeq
      <4>2. /\ Len(SubSeq(rob', 1, sb.cnt - n)) = IF 1 <= sb.cnt - n THEN sb.cnt - n - 1 + 1 ELSE 0
            /\ \A i \in 1 .. sb.cnt - n - 1 + 1 : SubSeq(rob', 1, sb.cnt - n)[i] = rob'[1 + i - 1]
        BY <3>1, <4>1, SubSeqProperties
      <4> HIDE DEF n, m
      <4>3. kept = SubSeq(rob', 1, sb.cnt - n)
        BY <3>5
      <4> HIDE DEF kept
      <4> QED BY <3>1, <3>4, <4>2, <4>3
    <3>9. rob' = kept \o entering
      <4> DEFINE k == sb.cnt - n
      <4>1. k \in 1 - 1 .. Len(rob') /\ Len(rob') \in k .. Len(rob') /\ 1 \in 1 .. Len(rob') + 1
        BY <3>1, <3>3, <3>4
      <4> HIDE DEF k, m
      <4>2. SubSeq(rob', 1, k) \o SubSeq(rob', k + 1, Len(rob')) = SubSeq(rob', 1, Len(rob'))
        BY <3>3, <4>1, ConcatAdjacentSubSeq
      <4>3. kept = SubSeq(rob', 1, k) /\ entering = SubSeq(rob', k + 1, Len(rob'))
        BY <3>5 DEF k
      <4> QED BY <3>3, <4>2, <4>3, SubSeqFull
    <3> HIDE DEF m, kept, entering, n
    <3>10. Abstract!Cycle(n, entering, kept)
      BY <3>2, <3>4, <3>6, <3>7, <3>8, <3>9 DEF Abstract!Cycle
    <3> QED BY <3>1, <3>5, <3>10 DEF Abstract!Next, m, kept, entering
  <2> QED BY <2>3, <2>4
<1> QED BY <1>1, <1>2, Inductive, PTL DEF Spec, Refinement, Abstract!Spec

-----------------------------------------------------------------------------
(* What a cycle does to the entries, for the units around the scoreboard.  *)

\* An entry that neither enters nor leaves is complete when its result comes,
\* and gets the exception that comes with it.
LEMMA EntryWritten ==
  ASSUME NEW s \in SB, NEW in \in Input, NEW t \in TransId,
         ~Enters(s, in, t), ~Retires(s, in, t), ~in.flush, s.mem[t].issued
  PROVE  LET e == NextEntry(s, in, t)
         IN  /\ e.instr = s.mem[t].instr
             /\ e.valid <=> s.mem[t].valid \/ fu(s.mem[t].instr) = "NONE" \/ \E w \in in.wb : w.tid = t
             /\ e.ex <=> s.mem[t].ex \/ \E w \in in.wb : w.tid = t /\ w.ex
<1> DEFINE e0 == s.mem[t]
           none   == IF e0.issued /\ fu(e0.instr) = "NONE"
                     THEN [e0 EXCEPT !.valid = TRUE] ELSE e0
           ports  == {w \in in.wb : w.tid = t}
           wrote  == IF ports # {} /\ accepted(e0)
                     THEN [none EXCEPT !.valid = TRUE, !.ex = exAfter(none, ports)]
                     ELSE none
<1>1. e0 \in Entry
  BY DEF SB
<1>2. NextEntry(s, in, t) = wrote
  BY DEF NextEntry, Enters, Retires
<1>3. /\ ports # {} <=> \E w \in in.wb : w.tid = t
      /\ (\E w \in ports : w.ex) <=> \E w \in in.wb : w.tid = t /\ w.ex
  OBVIOUS
<1> HIDE DEF ports
<1>4. /\ none \in Entry /\ none.instr = e0.instr /\ none.ex = e0.ex
      /\ none.valid <=> e0.valid \/ fu(e0.instr) = "NONE"
  BY <1>1 DEF Entry
<1> HIDE DEF none
<1>5. exAfter(none, ports) \in BOOLEAN /\ (exAfter(none, ports) <=> none.ex \/ \E w \in ports : w.ex)
  BY DEF exAfter
<1>6. /\ wrote.instr = e0.instr
      /\ wrote.valid <=> none.valid \/ ports # {}
      /\ wrote.ex <=> none.ex \/ \E w \in ports : w.ex
  <2>1. CASE ports = {}
    BY <1>4, <2>1
  <2>2. CASE ports # {}
    <3> DEFINE xa == exAfter(none, ports)
    <3>1. xa \in BOOLEAN /\ (xa <=> none.ex \/ \E w \in ports : w.ex)
      BY <1>5
    <3>2. wrote = [none EXCEPT !.valid = TRUE, !.ex = xa]
      BY <2>2 DEF accepted
    <3> HIDE DEF xa, wrote
    <3> QED BY <1>4, <2>2, <3>1, <3>2 DEF Entry
  <2> QED BY <2>1, <2>2
<1> HIDE DEF wrote
<1> QED BY <1>2, <1>3, <1>4, <1>6

\* The entry stays in flight.
Kept(in, t) == sb.mem[t].issued /\ ~Retires(sb, in, t) /\ ~in.flush

\* The entry is filled by a new instruction.
Filled(in, t) == Enters(sb, in, t) /\ ~in.flush

\* The fate of the entry: a place of its own when it is filled, its results as
\* long as it is kept, and its order with respect to the others throughout.
Tracked(in, t) ==
    /\ sb'.mem[t].issued <=> Kept(in, t) \/ Filled(in, t)
    /\ Kept(in, t) =>
         /\ sb'.mem[t].instr = sb.mem[t].instr
         /\ sb'.mem[t].valid <=> \/ sb.mem[t].valid \/ fu(sb.mem[t].instr) = "NONE"
                                 \/ \E w \in in.wb : w.tid = t
         /\ sb'.mem[t].ex <=> sb.mem[t].ex \/ \E w \in in.wb : w.tid = t /\ w.ex
         /\ Dist(sb'.cp0, t) = Dist(sb.cp0, t) - in.ack
    /\ Filled(in, t) =>
         /\ ~sb.mem[t].issued /\ Dist(sb'.cp0, t) = sb'.cnt - 1
         /\ \E i \in in.issue : sb'.mem[t] = [issued |-> TRUE, valid |-> i.ex, ex |-> i.ex, instr |-> i]
    /\ Retires(sb, in, t) => sb.mem[t].valid /\ Dist(sb.cp0, t) < in.ack

\* The distances of a cycle without flush.
LEMMA DistStep ==
  ASSUME NEW p \in TransId, NEW c \in TransId, NEW e \in 0 .. 1, NEW n \in 0 .. 2, NEW t \in TransId,
         n <= c, e = 1 => c # NR_ENTRIES - 1
  PROVE  /\ Dist(p, t) >= n => Dist(Plus(p, n), t) = Dist(p, t) - n
         /\ Dist(p, t) < n <=> (n > 0 /\ t = p) \/ (n > 1 /\ t = At(p, 1))
         /\ t = At(p, c) => Dist(p, t) = c /\ Dist(Plus(p, n), t) = c - n
<1>1. /\ NR_ENTRIES \in Nat /\ p \in Nat /\ c \in Nat /\ p < NR_ENTRIES /\ c < NR_ENTRIES
      /\ t \in Nat /\ t < NR_ENTRIES /\ NR_ENTRIES > 1
  BY EntriesAssumption DEF TransId
<1>2. CASE n = 0
  BY <1>1, <1>2 DEF Plus, At, Dist
<1>3. CASE n = 1
  BY <1>1, <1>3 DEF Plus, At, Dist
<1>4. CASE n = 2
  BY <1>1, <1>4 DEF Plus, At, Dist
<1> QED BY <1>2, <1>3, <1>4

\* Every cycle tracks every entry.
LEMMA CycleTracks ==
  ASSUME sb \in SB, ByIndex(sb), PortsReady(sb), NEW in \in Input, Cycle(in), NEW t \in TransId
  PROVE  Tracked(in, t)
<1>1. /\ sb.cnt \in TransId /\ sb.cp0 \in TransId /\ sb.cp1 \in TransId /\ sb.ip \in TransId
      /\ in.ack \in 0 .. 2 /\ in.flush \in BOOLEAN
  BY DEF SB, Input
<1>2. sb'.mem[t] = NextEntry(sb, in, t)
  BY DEF Cycle, sb_next
<1>3. /\ sb.mem[t].issued <=> Dist(sb.cp0, t) < sb.cnt
      /\ sb.mem[t].valid => sb.mem[t].issued
      /\ sb.ip = At(sb.cp0, sb.cnt)
  BY DEF ByIndex
<1>4. sb'.mem[t].issued <=> (Enters(sb, in, t) \/ sb.mem[t].issued) /\ ~Retires(sb, in, t) /\ ~in.flush
  BY <1>2, <1>3, NextEntryFlags
<1>5. Retires(sb, in, t) => sb.mem[t].valid
  BY DEF Retires, Cycle, InputContract, commit_instr_o
<1>6. Enters(sb, in, t) => ~sb.mem[t].issued
  <2>1. Dist(sb.cp0, At(sb.cp0, sb.cnt)) = sb.cnt
    BY <1>1, AtDist
  <2> QED BY <1>1, <1>3, <2>1 DEF Enters, TransId
<1>7. sb'.mem[t].issued <=> Kept(in, t) \/ Filled(in, t)
  BY <1>3, <1>4, <1>5, <1>6 DEF Kept, Filled
<1>8. ASSUME Kept(in, t)
      PROVE  /\ sb'.mem[t].instr = sb.mem[t].instr
             /\ sb'.mem[t].valid <=> \/ sb.mem[t].valid \/ fu(sb.mem[t].instr) = "NONE"
                                     \/ \E w \in in.wb : w.tid = t
             /\ sb'.mem[t].ex <=> sb.mem[t].ex \/ \E w \in in.wb : w.tid = t /\ w.ex
  BY <1>2, <1>6, <1>8, EntryWritten DEF Kept
<1>9. ASSUME Filled(in, t)
      PROVE  \E i \in in.issue : sb'.mem[t] = [issued |-> TRUE, valid |-> i.ex, ex |-> i.ex, instr |-> i]
  <2>1. PICK i : i \in Instr /\ in.issue = {i}
    BY <1>9 DEF Filled, Enters, issue_en, Input
  <2>2. (CHOOSE j \in in.issue : TRUE) = i
    BY <2>1
  <2>3. ~Retires(sb, in, t) /\ ~sb.mem[t].issued
    BY <1>3, <1>5, <1>6, <1>9 DEF Filled
  <2>4. NextEntry(sb, in, t) = [issued |-> TRUE, valid |-> i.ex, ex |-> i.ex, instr |-> i]
    BY <1>9, <2>2, <2>3 DEF NextEntry, Filled, Enters, Retires, accepted
  <2> QED BY <1>2, <2>1, <2>4
<1>10. CASE in.flush
  <2>1. in.ack > 0 => sb.cnt > 0
    <3>1. Dist(sb.cp0, sb.cp0) = 0
      BY <1>1, EntriesAssumption DEF Dist, TransId
    <3>2. in.ack > 0 => sb.mem[sb.cp0].issued
      BY <1>1 DEF Cycle, InputContract, commit_instr_o, ByIndex
    <3> QED BY <1>1, <3>1, <3>2 DEF ByIndex
  <2>2. Retires(sb, in, t) => Dist(sb.cp0, t) < in.ack
    <3>1. in.ack > 1 => sb.cp1 = At(sb.cp0, 1)
      BY <1>1, <2>1 DEF PortsReady, TransId
    <3> QED BY <1>1, <3>1, EntriesAssumption DEF Retires, Dist, At, TransId
  <2> QED BY <1>5, <1>7, <1>10, <2>2 DEF Tracked, Kept, Filled
<1>11. CASE ~in.flush
  <2> DEFINE en == Entering(in)
  <2>1. en \in 0 .. 1 /\ (en = 1 <=> issue_en(sb, in))
    BY DEF Entering
  <2>2. /\ sb'.cnt = sb.cnt + en - in.ack /\ sb'.cp0 = Plus(sb.cp0, in.ack)
        /\ in.ack <= sb.cnt
        /\ en = 1 => sb.cnt # NR_ENTRIES - 1
        /\ in.ack > 1 => sb.cp1 = At(sb.cp0, 1)
    BY <1>11, CycleMoves
  <2> HIDE DEF en
  <2>3. /\ Dist(sb.cp0, t) >= in.ack => Dist(sb'.cp0, t) = Dist(sb.cp0, t) - in.ack
        /\ Dist(sb.cp0, t) < in.ack <=> (in.ack > 0 /\ t = sb.cp0) \/ (in.ack > 1 /\ t = At(sb.cp0, 1))
        /\ t = At(sb.cp0, sb.cnt) => Dist(sb.cp0, t) = sb.cnt /\ Dist(sb'.cp0, t) = sb.cnt - in.ack
    BY <1>1, <2>1, <2>2, DistStep
  <2>4. Retires(sb, in, t) <=> Dist(sb.cp0, t) < in.ack
    BY <2>2, <2>3 DEF Retires
  <2>5. Dist(sb.cp0, t) \in TransId
    BY <1>1, AtDist
  <2>6. Kept(in, t) => Dist(sb'.cp0, t) = Dist(sb.cp0, t) - in.ack
    BY <1>1, <2>3, <2>4, <2>5 DEF Kept, TransId
  <2>7. Filled(in, t) => Dist(sb'.cp0, t) = sb'.cnt - 1
    BY <1>1, <1>3, <2>1, <2>2, <2>3 DEF Filled, Enters, TransId
  <2> QED BY <1>5, <1>6, <1>7, <1>8, <1>9, <2>4, <2>6, <2>7 DEF Tracked, Filled
<1> QED BY <1>10, <1>11
=============================================================================
