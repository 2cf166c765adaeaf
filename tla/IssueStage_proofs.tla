------------------------- MODULE IssueStage_proofs -------------------------
(***************************************************************************)
(* Proofs about the issue stage, for scoreboards of any size and any set   *)
(* of instructions.                                                        *)
(***************************************************************************)
EXTENDS IssueStage, FiniteSetTheorems, WellFoundedInduction, TLAPS

-----------------------------------------------------------------------------
(* The inductive invariant.                                                *)

\* How many places behind p index t is.
Dist(p, t) == IF t >= p THEN t - p ELSE t - p + NR_ENTRIES

entry(t) == sb.mem[t]

\* Entry t waits for its result.
waits(t) == entry(t).issued /\ ~entry(t).valid

\* The scoreboard is a consistent ring, see Scoreboard_proofs.
Ring ==
    /\ sb \in SCB!SB
    /\ sb.ip = SCB!At(sb.cp0, sb.cnt)
    /\ sb.cp1 = SCB!At(sb.cp0, 1) \/ sb.cnt = 0
    /\ \A t \in TransId : /\ entry(t).issued <=> Dist(sb.cp0, t) < sb.cnt
                          /\ entry(t).valid => entry(t).issued

\* The exception of the decoder stays with the instruction, which is complete.
Marked == \A t \in TransId : entry(t).issued /\ entry(t).instr.ex => entry(t).ex /\ entry(t).valid

Types ==
    /\ req \in [valid : BOOLEAN, tid : TransId, instr : Instr]
    /\ csr \in [valid : BOOLEAN, owner : TransId]
    /\ mul \in [valid : BOOLEAN, tid : TransId]
    /\ div \in [st : {"IDLE", "DIVIDE", "FINISH"}, tid : TransId]
    /\ lsu \subseteq TransId
    /\ ldpipe \in [valid : BOOLEAN, tid : TransId, ex : BOOLEAN]
    /\ good \in [TransId -> BOOLEAN]

\* What the units work on waits for its result.  After a flush the load
\* register may still name an entry that is gone.
Owners ==
    /\ req.valid => /\ waits(req.tid) /\ entry(req.tid).instr = req.instr
                    /\ ~req.instr.ex /\ req.tid \notin lsu
    /\ mul.valid => waits(mul.tid) /\ entry(mul.tid).instr.op = "MUL"
    /\ div.st # "IDLE" => waits(div.tid) /\ entry(div.tid).instr.op = "DIV"
    /\ \A t \in lsu : waits(t) /\ fu(entry(t).instr) \in {"LOAD", "STORE"}
    /\ ldpipe.valid /\ sb.cnt # 0 =>
         waits(ldpipe.tid) /\ fu(entry(ldpipe.tid).instr) = "LOAD" /\ ldpipe.tid \notin lsu
    /\ req.valid => /\ mul.valid => mul.tid # req.tid
                    /\ div.st # "IDLE" => div.tid # req.tid
                    /\ ldpipe.valid /\ sb.cnt # 0 => ldpipe.tid # req.tid

\* The result bus of the fixed latency unit is free when a product or a
\* quotient needs it.
BusFree ==
    /\ mul.valid => div.st = "IDLE" /\ (req.valid => fu(req.instr) = "MULT")
    /\ div.st # "IDLE" /\ req.valid => fu(req.instr) \in {"LOAD", "STORE"}

\* The units that entry t may be in.
inUnit(t) ==
    \/ req.valid /\ req.tid = t
    \/ mul.valid /\ mul.tid = t
    \/ div.st # "IDLE" /\ div.tid = t
    \/ t \in lsu
    \/ ldpipe.valid /\ ldpipe.tid = t

Covered == \A t \in TransId : waits(t) /\ fu(entry(t).instr) # "NONE" => inUnit(t)

\* Entry t is an access to the CSR file or a fence that was executed as such.
accesses(t) == entry(t).issued /\ fu(entry(t).instr) = "CSR" /\ ~entry(t).instr.ex

flushes(t) == entry(t).instr.op # "CSRRW"

\* The accesses in flight are one, which owns the buffer or is about to, or the
\* oldest of them is going to flush the others.
CsrInv ==
    \A t \in TransId : accesses(t) =>
        \/ /\ \A u \in TransId : accesses(u) => u = t
           /\ (req.valid /\ req.tid = t) \/ (csr.valid /\ csr.owner = t)
        \/ \E u \in TransId : /\ accesses(u) /\ flushes(u)
                              /\ \A v \in TransId : accesses(v) => Dist(sb.cp0, u) <= Dist(sb.cp0, v)

\* Entry d is going to flush what is behind it when it leaves.
kills(d) == entry(d).issued /\ (entry(d).ex \/ is_amo(entry(d).instr))

\* The operands are the right ones, or the instruction will not retire.
GoodOrDoomed ==
    \A t \in TransId : entry(t).issued =>
        good[t] \/ \E d \in TransId : kills(d) /\ Dist(sb.cp0, d) < Dist(sb.cp0, t)

IInv == Ring /\ Marked /\ Types /\ Owners /\ BusFree /\ Covered /\ UniqueWriter /\ CsrInv

-----------------------------------------------------------------------------
(* Instructions and the commit stage.                                      *)

\* The unit of an instruction, by its operation.
LEMMA FuFacts ==
    ASSUME NEW i \in Instr
    PROVE  /\ fu(i) = "CSR" <=> i.op \in {"CSRRW", "XRET", "SFENCE_VMA", "FENCE", "FENCE_I"}
           /\ fu(i) = "MULT" <=> i.op \in {"MUL", "DIV"}
           /\ fu(i) = "LOAD" <=> i.op = "LD"
           /\ fu(i) = "STORE" <=> i.op \in {"SD", "AMO"}
           /\ fu(i) = "NONE" <=> i.op = "ECALL"
           /\ fu(i) \in {"CSR", "MULT", "LOAD", "STORE", "NONE", "ALU", "CTRL_FLOW"}
           /\ SCB!fu(i) = fu(i)
<1>1. i.op \in {"ADD", "BRANCH", "MUL", "DIV", "LD", "SD", "AMO", "CSRRW", "XRET", "SFENCE_VMA", "FENCE",
                "FENCE_I", "ECALL"}
  BY IssueAssumption DEF FuOf
<1> QED BY <1>1 DEF fu, FuOf, SCB!fu, SCB!FuOf

\* What the commit stage does with the two oldest entries: it retires complete
\* ones without exception, an atomic, a fence or a return only with a flush,
\* and what is written to the register file without retiring has no register.
LEMMA CommitFacts ==
    ASSUME c0.instr \in Instr, c0.ex \in BOOLEAN, c0.valid \in BOOLEAN, NEW x \in Env
    PROVE  LET n == num_commit(c0, c1, commitIn(x))
           IN  /\ n \in 0 .. 2
               /\ n > 0 => c0.valid /\ ~c0.ex
               /\ n > 1 => /\ c1.valid /\ ~c1.ex /\ fu(c1.instr) \in {"ALU", "LOAD", "CTRL_FLOW", "MULT"}
                           /\ fu(c0.instr) # "CSR" /\ ~is_amo(c0.instr)
               /\ n > 0 /\ is_amo(c0.instr) => flush_ex(x)
               /\ n > 0 /\ fu(c0.instr) = "CSR" /\ c0.instr.op # "CSRRW" => flush_ex(x)
               /\ flush_ex(x) => flush_unissued(x)
               /\ commit_csr_o(c0, commitIn(x)) =>
                    /\ c0.valid /\ ~c0.ex /\ fu(c0.instr) = "CSR"
                    /\ c0.instr.op = "CSRRW" => n > 0
               /\ we_gpr_0(c0, commitIn(x)) =>
                    /\ c0.valid /\ ~c0.ex
                    /\ c0.instr.ex \/ c0.instr.rd = 0 \/ n > 0
               /\ commit_ack_1(c0, c1, commitIn(x)) => n > 1
<1> DEFINE in == commitIn(x)
           rq == controllerIn(x)
           n == num_commit(c0, c1, in)
<1>1. in.halt = FALSE /\ in.single_step = FALSE
  BY DEF commitIn
<1>2. in.csr_ex \in BOOLEAN /\ in.amo_ack \in BOOLEAN /\ in.lsu_ready \in BOOLEAN /\ in.no_st_pending \in BOOLEAN
  BY DEF commitIn, Env, opt
<1>3. retirable(c0, in) <=> c0.valid /\ ~c0.ex
  BY <1>1 DEF retirable
<1>4. commit_ack_0(c0, in) => c0.valid /\ ~c0.ex
  BY <1>3 DEF commit_ack_0
<1>5. commit_ack_1(c0, c1, in) => /\ commit_ack_0(c0, in) /\ c1.valid /\ ~c1.ex
                                  /\ fu(c1.instr) \in {"ALU", "LOAD", "CTRL_FLOW", "MULT"}
                                  /\ fu(c0.instr) # "CSR" /\ ~is_amo(c0.instr)
  BY DEF commit_ack_1
<1>6. /\ n \in 0 .. 2
      /\ n > 0 <=> (commit_ack_0(c0, in) \/ commit_ack_1(c0, c1, in))
      /\ n > 1 <=> commit_ack_1(c0, c1, in)
  BY DEF num_commit
<1>7. flush_ex(x) <=> \/ fence_o(c0, in) \/ fence_i_o(c0, in) \/ sfence_vma_o(c0, in)
                      \/ rq.flush_csr \/ flush_commit_o(c0, in)
                      \/ exception_o(c0, in) \/ rq.eret \/ rq.debug
  BY DEF flush_ex, flush_ex_o
<1>8. flush_ex(x) => flush_unissued(x)
  BY DEF flush_ex, flush_unissued, flush_unissued_instr_o
<1>9. ASSUME commit_ack_0(c0, in), is_amo(c0.instr) PROVE flush_ex(x)
  BY <1>2, <1>7, <1>9 DEF commit_ack_0, flush_commit_o, amo_valid_commit_o, is_amo
<1>10. commit_csr_o(c0, in) <=> retirable(c0, in) /\ fu(c0.instr) = "CSR" /\ ~in.csr_ex
  BY DEF commit_csr_o
<1>11. rq.eret <=> c0.instr.op = "XRET" /\ commit_csr_o(c0, in)
  BY DEF controllerIn
<1>12. ASSUME commit_ack_0(c0, in), fu(c0.instr) = "CSR", c0.instr.op # "CSRRW" PROVE flush_ex(x)
  <2>1. c0.instr.op \in {"XRET", "SFENCE_VMA", "FENCE", "FENCE_I"}
    BY <1>12, FuFacts
  <2>2. CASE c0.instr.op = "XRET"
    BY <1>12, <1>7, <1>10, <1>11, <2>2 DEF commit_ack_0, is_amo
  <2>3. CASE c0.instr.op = "SFENCE_VMA"
    BY <1>12, <1>7, <2>3 DEF commit_ack_0, is_amo, sfence_vma_o
  <2>4. CASE c0.instr.op = "FENCE"
    BY <1>12, <1>7, <2>4 DEF commit_ack_0, is_amo, fence_o
  <2>5. CASE c0.instr.op = "FENCE_I"
    BY <1>12, <1>7, <2>5 DEF commit_ack_0, is_amo, fence_i_o
  <2> QED BY <2>1, <2>2, <2>3, <2>4, <2>5
<1>13. commit_csr_o(c0, in) /\ c0.instr.op = "CSRRW" => commit_ack_0(c0, in)
  BY <1>10 DEF commit_ack_0, is_amo
<1>14. ASSUME we_gpr_0(c0, in), ~c0.instr.ex, c0.instr.rd # 0 PROVE commit_ack_0(c0, in)
  <2>1. c0.instr.op \notin {"SD", "FENCE", "FENCE_I", "SFENCE_VMA"}
    BY <1>14, IssueAssumption
  <2>2. retirable(c0, in) /\ (fu(c0.instr) = "CSR" => ~in.csr_ex) /\ (is_amo(c0.instr) => in.amo_ack)
    BY <1>14 DEF we_gpr_0
  <2>3. c0.instr.op \in {"CSRRW", "XRET"} => fu(c0.instr) = "CSR"
    BY FuFacts
  <2> QED BY <2>1, <2>2, <2>3 DEF commit_ack_0
<1>15. we_gpr_0(c0, in) => c0.valid /\ ~c0.ex
  BY <1>3 DEF we_gpr_0
<1> HIDE DEF n, in, rq
<1> QED BY <1>3, <1>4, <1>5, <1>6, <1>8, <1>9, <1>10, <1>12, <1>13, <1>14, <1>15, IssueAssumption DEF n, in

-----------------------------------------------------------------------------
(* What a cycle does to the scoreboard.                                    *)

\* The inputs of the scoreboard when the instructions `a' are acknowledged.
sbIn(w, a) ==
    [issue |-> a, wb |-> w.wb, ack |-> w.ack, flush |-> w.flush, flush_unissued |-> w.flush_unissued]

\* The entry retires.
pops(w, t) == (w.ack > 0 /\ t = sb.cp0) \/ (w.ack > 1 /\ t = sb.cp1)

\* The result of the entry comes.
hit(w, t) == \E p \in w.wb : p.tid = t

\* An entry that is flushed or retires is free.
LEMMA EntryLeaves ==
    ASSUME sb \in SCB!SB, NEW w, NEW a, NEW t \in TransId, w.flush \/ pops(w, t),
           SCB!issue_en(sb, sbIn(w, a)) => \E i \in Instr : a = {i}
    PROVE  LET e == SCB!NextEntry(sb, sbIn(w, a), t)
           IN  e \in SCB!Entry /\ ~e.issued /\ ~e.valid
<1> DEFINE in == sbIn(w, a)
           e0 == sb.mem[t]
           issued == IF SCB!issue_en(sb, in) /\ t = sb.ip
                     THEN LET i == CHOOSE i \in in.issue : TRUE
                          IN  [issued |-> TRUE, valid |-> i.ex, ex |-> i.ex, instr |-> i]
                     ELSE e0
           none   == IF e0.issued /\ SCB!fu(e0.instr) = "NONE"
                     THEN [issued EXCEPT !.valid = TRUE] ELSE issued
           ports  == {p \in in.wb : p.tid = t}
           wrote  == IF ports # {} /\ SCB!accepted(e0)
                     THEN [none EXCEPT !.valid = TRUE, !.ex = SCB!exAfter(none, ports)]
                     ELSE none
           popped == IF (in.ack > 0 /\ t = sb.cp0) \/ (in.ack > 1 /\ t = sb.cp1)
                     THEN [wrote EXCEPT !.issued = FALSE, !.valid = FALSE] ELSE wrote
<1>0. in.issue = a /\ in.wb = w.wb /\ in.ack = w.ack /\ in.flush = w.flush
  BY DEF sbIn
<1>1. e0 \in SCB!Entry
  BY DEF SCB!SB, SCB!TransId, TransId
<1>2. issued \in SCB!Entry
  <2>1. CASE SCB!issue_en(sb, in)
    <3>1. PICK i \in Instr : a = {i}
      BY <2>1
    <3>2. (CHOOSE j \in in.issue : TRUE) = i
      BY <3>1, <1>0
    <3> QED BY <1>1, <3>2, IssueAssumption DEF SCB!Entry
  <2> QED BY <1>1, <2>1
<1>3. SCB!NextEntry(sb, in, t) = IF in.flush THEN SCB!Flushed(popped) ELSE popped
  BY DEF SCB!NextEntry
<1> HIDE DEF issued, e0, ports
<1>4. none \in SCB!Entry
  BY <1>2 DEF SCB!Entry
<1> HIDE DEF none
<1>5. wrote \in SCB!Entry
  <2>1. SCB!exAfter(none, ports) \in BOOLEAN
    BY DEF SCB!exAfter
  <2> QED BY <1>4, <2>1 DEF SCB!Entry
<1> HIDE DEF wrote
<1>6. popped \in SCB!Entry /\ (pops(w, t) => ~popped.issued /\ ~popped.valid)
  BY <1>0, <1>5 DEF SCB!Entry, pops
<1> HIDE DEF popped, in
<1>7. SCB!NextEntry(sb, in, t) \in SCB!Entry /\ ~SCB!NextEntry(sb, in, t).issued /\ ~SCB!NextEntry(sb, in, t).valid
  BY <1>0, <1>3, <1>6 DEF SCB!Flushed, SCB!Entry
<1> QED BY <1>7 DEF in

\* An instruction that is issued takes a free entry.
LEMMA EntryEnters ==
    ASSUME sb \in SCB!SB, NEW w, NEW i \in Instr, ~w.flush, ~pops(w, sb.ip), ~sb.mem[sb.ip].issued,
           SCB!issue_en(sb, sbIn(w, {i}))
    PROVE  SCB!NextEntry(sb, sbIn(w, {i}), sb.ip) = [issued |-> TRUE, valid |-> i.ex, ex |-> i.ex, instr |-> i]
<1> DEFINE in == sbIn(w, {i})
<1>1. in.issue = {i} /\ in.wb = w.wb /\ in.ack = w.ack /\ in.flush = w.flush
  BY DEF sbIn
<1>2. (CHOOSE j \in in.issue : TRUE) = i
  BY <1>1
<1>3. ~SCB!accepted(sb.mem[sb.ip])
  BY DEF SCB!accepted
<1> HIDE DEF in
<1>4. SCB!NextEntry(sb, in, sb.ip) = [issued |-> TRUE, valid |-> i.ex, ex |-> i.ex, instr |-> i]
  BY <1>1, <1>2, <1>3 DEF in, SCB!NextEntry, pops
<1> QED BY <1>4 DEF in

\* An entry that is neither filled nor freed keeps its instruction and is
\* complete when its result comes.
LEMMA EntryStays ==
    ASSUME sb \in SCB!SB, NEW w, NEW a, NEW t \in TransId, ~w.flush, ~pops(w, t),
           ~(SCB!issue_en(sb, sbIn(w, a)) /\ t = sb.ip)
    PROVE  LET e == SCB!NextEntry(sb, sbIn(w, a), t)
           IN  /\ e \in SCB!Entry /\ e.instr = sb.mem[t].instr /\ e.issued = sb.mem[t].issued
               /\ ~e.issued => e.valid = sb.mem[t].valid
               /\ e.issued => /\ e.valid <=> sb.mem[t].valid \/ fu(e.instr) = "NONE" \/ hit(w, t)
                              /\ e.ex <=> sb.mem[t].ex \/ \E p \in w.wb : p.tid = t /\ p.ex
<1> DEFINE in == sbIn(w, a)
           e0 == sb.mem[t]
           none   == IF e0.issued /\ SCB!fu(e0.instr) = "NONE"
                     THEN [e0 EXCEPT !.valid = TRUE] ELSE e0
           ports  == {p \in in.wb : p.tid = t}
           wrote  == IF ports # {} /\ SCB!accepted(e0)
                     THEN [none EXCEPT !.valid = TRUE, !.ex = SCB!exAfter(none, ports)]
                     ELSE none
<1>0. in.issue = a /\ in.wb = w.wb /\ in.ack = w.ack /\ in.flush = w.flush
  BY DEF sbIn
<1>1. e0 \in SCB!Entry
  BY DEF SCB!SB, SCB!TransId, TransId
<1>2. SCB!NextEntry(sb, in, t) = wrote
  BY <1>0 DEF SCB!NextEntry, pops
<1>3. SCB!fu(e0.instr) = fu(e0.instr)
  BY <1>1, FuFacts DEF SCB!Entry
<1>4. ports # {} <=> hit(w, t)
  BY <1>0 DEF hit
<1>5. (\E p \in ports : p.ex) <=> \E p \in w.wb : p.tid = t /\ p.ex
  BY <1>0
<1>6. SCB!accepted(e0) = e0.issued
  BY DEF SCB!accepted
<1> HIDE DEF e0, ports, in
<1>7. /\ none \in SCB!Entry /\ none.instr = e0.instr /\ none.issued = e0.issued /\ none.ex = e0.ex
      /\ ~e0.issued => none.valid = e0.valid
      /\ e0.issued => (none.valid <=> e0.valid \/ fu(e0.instr) = "NONE")
  BY <1>1, <1>3 DEF SCB!Entry
<1> HIDE DEF none
<1>8. SCB!exAfter(none, ports) <=> none.ex \/ \E p \in ports : p.ex
  BY DEF SCB!exAfter
<1>9. SCB!exAfter(none, ports) \in BOOLEAN
  BY DEF SCB!exAfter
<1>10. CASE hit(w, t) /\ e0.issued
  <2> DEFINE xa == SCB!exAfter(none, ports)
  <2>1. xa \in BOOLEAN /\ (xa <=> none.ex \/ \E p \in ports : p.ex)
    BY <1>8, <1>9
  <2>2. wrote = [none EXCEPT !.valid = TRUE, !.ex = xa]
    BY <1>4, <1>6, <1>10
  <2> HIDE DEF xa, wrote
  <2>3. wrote \in SCB!Entry /\ wrote.instr = none.instr /\ wrote.issued = none.issued /\ wrote.valid /\ wrote.ex = xa
    BY <1>7, <2>1, <2>2 DEF SCB!Entry
  <2> QED BY <1>2, <1>5, <1>7, <1>10, <2>1, <2>3 DEF e0, in
<1>11. CASE ~(hit(w, t) /\ e0.issued)
  <2>1. wrote = none
    BY <1>4, <1>6, <1>11
  <2>2. e0.issued => ports = {}
    BY <1>4, <1>11
  <2> HIDE DEF wrote
  <2> QED BY <1>2, <1>4, <1>5, <1>7, <1>11, <2>1, <2>2 DEF e0, in
<1> QED BY <1>10, <1>11

\* What the decoder's instruction becomes.
issuedOf(w, a) == IF w.flush_unissued THEN {} ELSE a
sendsOf(w, a) == {i \in issuedOf(w, a) : ~i.ex /\ fu(i) # "NONE"}

toLsu == {r.tid : r \in {r \in {req} : r.valid /\ fu(r.instr) \in {"LOAD", "STORE"}}}

\* A clock cycle in which the issue stage acknowledges `a'.
Step(x, w, a) ==
    /\ x \in Env /\ w = signals(x)
    /\ a = {} \/ \E i \in Instr : a = {i} /\ issue_ack_o(i, w)
    /\ sb' = SCB!sb_next(sb, sbIn(w, a))
    /\ req' = IF sendsOf(w, a) = {} THEN NoReq
              ELSE [valid |-> TRUE, tid |-> sb.ip, instr |-> CHOOSE i \in sendsOf(w, a) : TRUE]
    /\ good' = [t \in TransId |->
                  IF issuedOf(w, a) # {} /\ t = sb.ip
                  THEN LET i == CHOOSE i \in issuedOf(w, a) : TRUE
                       IN  i.ex \/ ( /\ ~w.mispredict
                                     /\ \A r \in {i.rs1, i.rs2} \ {0} : operandGood(r, i, w))
                  ELSE good[t]]
    /\ csr' = csr_next(x)
    /\ mul' = IF ~w.flush /\ req.valid /\ req.instr.op = "MUL"
              THEN [valid |-> TRUE, tid |-> req.tid] ELSE [valid |-> FALSE, tid |-> 0]
    /\ div' = div_next(x)
    /\ lsu' = IF w.flush THEN {} ELSE (lsu \ {c.tid : c \in x.ld \union x.st}) \union toLsu
    /\ ldpipe' = IF x.ld = {} THEN NoResult
                 ELSE LET l == CHOOSE l \in x.ld : TRUE IN [valid |-> TRUE, tid |-> l.tid, ex |-> l.ex]

\* A step of the specification is one.
LEMMA NextIsStep ==
    ASSUME Next
    PROVE  \E x, w, a : Step(x, w, a)
<1>1. PICK x \in Env : \E w \in {signals(x)} : Cycle(x, w)
  BY DEF Next
<1>2. PICK w \in {signals(x)} : Cycle(x, w)
  BY <1>1
<1>3. Issue(w)
  BY <1>2 DEF Cycle
<1>4. PICK a \in {{}} \union {{i} : i \in {i \in Instr : issue_ack_o(i, w)}} :
        LET issued == IF w.flush_unissued THEN {} ELSE a
            sends  == {i \in issued : ~i.ex /\ fu(i) # "NONE"}
        IN  /\ sb' = SCB!sb_next(sb, [issue |-> a, wb |-> w.wb, ack |-> w.ack,
                                      flush |-> w.flush, flush_unissued |-> w.flush_unissued])
            /\ req' = IF sends = {} THEN NoReq
                      ELSE [valid |-> TRUE, tid |-> sb.ip, instr |-> CHOOSE i \in sends : TRUE]
            /\ good' = [t \in TransId |->
                          IF issued # {} /\ t = sb.ip
                          THEN LET i == CHOOSE i \in issued : TRUE
                               IN  i.ex \/ ( /\ ~w.mispredict
                                             /\ \A r \in {i.rs1, i.rs2} \ {0} : operandGood(r, i, w))
                          ELSE good[t]]
  BY <1>3, Zenon DEF Issue
<1>5. a = {} \/ \E i \in Instr : a = {i} /\ issue_ack_o(i, w)
  BY <1>4
<1>6. /\ sb' = SCB!sb_next(sb, sbIn(w, a))
      /\ req' = IF sendsOf(w, a) = {} THEN NoReq
                ELSE [valid |-> TRUE, tid |-> sb.ip, instr |-> CHOOSE i \in sendsOf(w, a) : TRUE]
      /\ good' = [t \in TransId |->
                  IF issuedOf(w, a) # {} /\ t = sb.ip
                  THEN LET i == CHOOSE i \in issuedOf(w, a) : TRUE
                       IN  i.ex \/ ( /\ ~w.mispredict
                                     /\ \A r \in {i.rs1, i.rs2} \ {0} : operandGood(r, i, w))
                  ELSE good[t]]
  BY <1>4, Zenon DEF sbIn, sendsOf, issuedOf
<1>7. /\ csr' = csr_next(x) /\ div' = div_next(x)
      /\ mul' = IF ~w.flush /\ req.valid /\ req.instr.op = "MUL"
                THEN [valid |-> TRUE, tid |-> req.tid] ELSE [valid |-> FALSE, tid |-> 0]
      /\ lsu' = IF w.flush THEN {} ELSE (lsu \ {c.tid : c \in x.ld \union x.st}) \union toLsu
      /\ ldpipe' = IF x.ld = {} THEN NoResult
                   ELSE LET l == CHOOSE l \in x.ld : TRUE IN [valid |-> TRUE, tid |-> l.tid, ex |-> l.ex]
  BY <1>2, Zenon DEF Cycle, toLsu
<1>8. w = signals(x)
  OBVIOUS
<1>9. x \in Env
  BY <1>1
<1>10. Step(x, w, a)
  BY <1>5, <1>6, <1>7, <1>8, <1>9, Zenon DEF Step
<1> QED BY <1>10

entering(w, a) == a # {} /\ ~w.flush_unissued

\* The entry stays in flight.
Kept(w, t) == sb.mem[t].issued /\ ~pops(w, t) /\ ~w.flush

\* What the scoreboard is told, and that only what is complete retires.
LEMMA SignalFacts ==
    ASSUME Ring, NEW x, NEW w, NEW a, Step(x, w, a)
    PROVE  /\ w.wb = writeBacks(x) /\ w.ack = num_commit(c0, c1, commitIn(x)) /\ w.flush = flush_ex(x)
           /\ w.flush_unissued = flush_unissued(x) /\ w.flu_ready = flu_ready(x)
           /\ w.committed = committedRd(x) /\ w.mispredict = x.mispredict
           /\ c0 = sb.mem[sb.cp0] /\ c1 = sb.mem[sb.cp1]
           /\ c0 \in SCB!Entry /\ c1 \in SCB!Entry
           /\ w.ack \in 0 .. 2 /\ (w.flush => w.flush_unissued)
           /\ w.ack > 0 => sb.mem[sb.cp0].valid
           /\ w.ack > 1 => sb.mem[sb.cp1].valid /\ sb.cp1 = SCB!At(sb.cp0, 1)
           /\ w.ack <= sb.cnt
           /\ \A t \in TransId : pops(w, t) => sb.mem[t].valid /\ sb.mem[t].issued
<1>1. /\ w.wb = writeBacks(x) /\ w.ack = num_commit(c0, c1, commitIn(x)) /\ w.flush = flush_ex(x)
      /\ w.flush_unissued = flush_unissued(x) /\ w.flu_ready = flu_ready(x)
      /\ w.committed = committedRd(x) /\ w.mispredict = x.mispredict /\ x \in Env
  BY DEF Step, signals
<1>2. c0 = sb.mem[sb.cp0] /\ c1 = sb.mem[sb.cp1]
  BY DEF c0, c1, SCB!commit_instr_o
<1>3. /\ sb.cp0 \in TransId /\ sb.cp1 \in TransId /\ sb.cnt \in TransId
      /\ \A t \in TransId : sb.mem[t] \in SCB!Entry
  BY DEF Ring, SCB!SB, SCB!TransId, TransId
<1>4. c0 \in SCB!Entry /\ c1 \in SCB!Entry
  BY <1>2, <1>3
<1>5. c0.instr \in Instr /\ c0.ex \in BOOLEAN /\ c0.valid \in BOOLEAN
  BY <1>4 DEF SCB!Entry
<1>6. /\ w.ack \in 0 .. 2 /\ (w.flush => w.flush_unissued)
      /\ w.ack > 0 => c0.valid
      /\ w.ack > 1 => c1.valid
  BY <1>1, <1>5, CommitFacts
<1>7. sb.mem[sb.cp0].valid => sb.mem[sb.cp0].issued /\ sb.cnt > 0
  <2>1. Dist(sb.cp0, sb.cp0) = 0
    BY <1>3 DEF Dist, TransId
  <2> QED BY <1>3, <2>1 DEF Ring, entry, TransId
<1>8. sb.mem[sb.cp1].valid => sb.mem[sb.cp1].issued /\ sb.cp1 = SCB!At(sb.cp0, 1) /\ sb.cnt > 1
  <2> SUFFICES ASSUME sb.mem[sb.cp1].valid PROVE sb.mem[sb.cp1].issued /\ sb.cp1 = SCB!At(sb.cp0, 1) /\ sb.cnt > 1
    OBVIOUS
  <2>1. sb.mem[sb.cp1].issued /\ Dist(sb.cp0, sb.cp1) < sb.cnt
    BY <1>3 DEF Ring, entry
  <2>2. sb.cnt # 0
    BY <1>3, <2>1, IssueAssumption DEF Dist, TransId
  <2>3. sb.cp1 = SCB!At(sb.cp0, 1)
    BY <2>2 DEF Ring
  <2>4. Dist(sb.cp0, sb.cp1) = 1
    BY <1>3, <2>3, IssueAssumption DEF Dist, TransId, SCB!At
  <2> QED BY <1>3, <2>1, <2>3, <2>4 DEF TransId
<1>9. w.ack <= sb.cnt
  BY <1>2, <1>3, <1>6, <1>7, <1>8 DEF TransId
<1>10. ASSUME NEW t \in TransId, pops(w, t) PROVE sb.mem[t].valid /\ sb.mem[t].issued
  BY <1>2, <1>6, <1>7, <1>8, <1>10 DEF pops
<1> QED BY <1>1, <1>2, <1>4, <1>6, <1>8, <1>9, <1>10

\* Of c instructions from index p on n may retire while e enter.
Fits(p, c, e, n) ==
    /\ p \in TransId /\ c \in TransId /\ e \in 0 .. 1 /\ n \in 0 .. 2 /\ n <= c
    /\ e = 1 => c # NR_ENTRIES - 1

\* The index arithmetic of such a cycle.
LEMMA RingMoves ==
    ASSUME NEW p, NEW c, NEW e, NEW n, Fits(p, c, e, n)
    PROVE  /\ SCB!Plus(p, n) \in TransId /\ SCB!At(p, c) \in TransId
           /\ SCB!Plus(SCB!At(p, c), e) \in TransId /\ SCB!Minus(SCB!Plus(c, e), n) = c + e - n
           /\ c + e - n \in TransId
           /\ SCB!Plus(SCB!Plus(p, n), 1) = SCB!At(SCB!Plus(p, n), 1)
           /\ SCB!Plus(SCB!Plus(p, n), 1) \in TransId
           /\ SCB!Plus(SCB!At(p, c), e) = SCB!At(SCB!Plus(p, n), c + e - n)
           /\ Dist(SCB!Plus(p, n), SCB!At(p, c)) = c - n
           /\ \A t \in TransId :
                /\ Dist(p, t) >= n => Dist(SCB!Plus(p, n), t) = Dist(p, t) - n
                /\ Dist(p, t) < n => Dist(SCB!Plus(p, n), t) = Dist(p, t) - n + NR_ENTRIES
                /\ Dist(p, t) \in TransId
                /\ Dist(p, t) = c <=> t = SCB!At(p, c)
                /\ Dist(p, t) < n <=> (n > 0 /\ t = p) \/ (n > 1 /\ t = SCB!At(p, 1))
<1>1. /\ NR_ENTRIES \in Nat /\ NR_ENTRIES > 1 /\ p \in Nat /\ c \in Nat /\ p < NR_ENTRIES /\ c < NR_ENTRIES
      /\ e \in 0 .. 1 /\ n \in 0 .. 2 /\ n <= c /\ (e = 1 => c # NR_ENTRIES - 1)
  BY IssueAssumption DEF TransId, Fits
<1>2. /\ SCB!Plus(p, n) \in TransId /\ SCB!At(p, c) \in TransId
      /\ SCB!Plus(SCB!At(p, c), e) \in TransId /\ SCB!Minus(SCB!Plus(c, e), n) = c + e - n
      /\ c + e - n \in TransId
  BY <1>1 DEF SCB!Plus, SCB!At, SCB!Minus, TransId
<1>3. /\ SCB!Plus(SCB!Plus(p, n), 1) = SCB!At(SCB!Plus(p, n), 1)
      /\ SCB!Plus(SCB!Plus(p, n), 1) \in TransId
  BY <1>1 DEF SCB!Plus, SCB!At, TransId
<1>4. SCB!Plus(SCB!At(p, c), e) = SCB!At(SCB!Plus(p, n), c + e - n)
  BY <1>1 DEF SCB!Plus, SCB!At
<1>5. Dist(SCB!Plus(p, n), SCB!At(p, c)) = c - n
  BY <1>1 DEF SCB!Plus, SCB!At, Dist
<1>6. ASSUME NEW t \in TransId
      PROVE  /\ Dist(p, t) >= n => Dist(SCB!Plus(p, n), t) = Dist(p, t) - n
             /\ Dist(p, t) < n => Dist(SCB!Plus(p, n), t) = Dist(p, t) - n + NR_ENTRIES
             /\ Dist(p, t) \in TransId
             /\ Dist(p, t) = c <=> t = SCB!At(p, c)
             /\ Dist(p, t) < n <=> (n > 0 /\ t = p) \/ (n > 1 /\ t = SCB!At(p, 1))
  <2>1. t \in Nat /\ t < NR_ENTRIES
    BY <1>1 DEF TransId
  <2>2. CASE n = 0
    BY <1>1, <2>1, <2>2 DEF SCB!Plus, SCB!At, Dist, TransId
  <2>3. CASE n = 1
    BY <1>1, <2>1, <2>3 DEF SCB!Plus, SCB!At, Dist, TransId
  <2>4. CASE n = 2
    BY <1>1, <2>1, <2>4 DEF SCB!Plus, SCB!At, Dist, TransId
  <2> QED BY <1>1, <2>2, <2>3, <2>4
<1> QED BY <1>2, <1>3, <1>4, <1>5, <1>6

\* What a cycle does to the entries and to their order.
Moved(w, a) ==
    /\ \A t \in TransId : sb'.mem[t].issued <=> Kept(w, t) \/ (entering(w, a) /\ t = sb.ip)
    /\ \A t \in TransId : Kept(w, t) =>
         /\ sb'.mem[t].instr = sb.mem[t].instr
         /\ sb'.mem[t].valid <=> sb.mem[t].valid \/ fu(sb.mem[t].instr) = "NONE" \/ hit(w, t)
         /\ sb'.mem[t].ex <=> sb.mem[t].ex \/ \E p \in w.wb : p.tid = t /\ p.ex
         /\ Dist(sb'.cp0, t) = Dist(sb.cp0, t) - w.ack
    /\ \A i \in Instr : entering(w, a) /\ a = {i} =>
         /\ sb'.mem[sb.ip] = [issued |-> TRUE, valid |-> i.ex, ex |-> i.ex, instr |-> i]
         /\ ~sb.mem[sb.ip].issued /\ ~w.flush /\ sb.ip \in TransId
         /\ \A t \in TransId : Kept(w, t) => Dist(sb'.cp0, t) < Dist(sb'.cp0, sb.ip)
    /\ w.flush => sb'.cnt = 0

\* The ring stays consistent, and this is what happens to it.
LEMMA RingStep ==
    ASSUME Ring, NEW x, NEW w, NEW a, Step(x, w, a)
    PROVE  Ring' /\ Moved(w, a)
<1> DEFINE in == sbIn(w, a)
           e == IF SCB!issue_en(sb, in) THEN 1 ELSE 0
<1>0. /\ in.issue = a /\ in.wb = w.wb /\ in.ack = w.ack /\ in.flush = w.flush
      /\ in.flush_unissued = w.flush_unissued
  BY DEF sbIn
<1>1. /\ sb \in SCB!SB /\ sb.cp0 \in TransId /\ sb.cp1 \in TransId /\ sb.cnt \in TransId /\ sb.ip \in TransId
      /\ \A t \in TransId : sb.mem[t] \in SCB!Entry
  BY DEF Ring, SCB!SB, SCB!TransId, TransId
<1>2. /\ w.ack \in 0 .. 2 /\ (w.flush => w.flush_unissued) /\ w.ack <= sb.cnt /\ w.flush \in BOOLEAN
      /\ w.ack > 1 => sb.cp1 = SCB!At(sb.cp0, 1)
      /\ \A t \in TransId : pops(w, t) => sb.mem[t].valid /\ sb.mem[t].issued
  <2>1. w.flush \in BOOLEAN
    BY SignalFacts DEF flush_ex, flush_ex_o
  <2> QED BY <2>1, SignalFacts
<1>3. SCB!issue_en(sb, in) <=> entering(w, a)
  <2>1. a # {} => ~SCB!issue_full(sb)
    BY DEF Step, issue_ack_o
  <2> QED BY <1>0, <2>1 DEF SCB!issue_en, entering
<1>4. SCB!issue_en(sb, in) => sb.cnt # NR_ENTRIES - 1 /\ ~w.flush /\ \E i \in Instr : a = {i}
  BY <1>0, <1>2, <1>3 DEF SCB!issue_en, SCB!issue_full, Step, entering
<1>5. sb' = [mem |-> [t \in SCB!TransId |-> SCB!NextEntry(sb, in, t)],
             cnt |-> IF w.flush THEN 0 ELSE SCB!Minus(SCB!Plus(sb.cnt, e), w.ack),
             ip  |-> IF w.flush THEN 0 ELSE SCB!Plus(sb.ip, e),
             cp0 |-> IF w.flush THEN 0 ELSE SCB!Plus(sb.cp0, w.ack),
             cp1 |-> IF w.flush THEN 0 ELSE SCB!Plus(IF w.flush THEN 0 ELSE SCB!Plus(sb.cp0, w.ack), 1)]
  BY <1>0 DEF Step, SCB!sb_next, SCB!commit_pointer_1
<1> HIDE DEF in
<1>6. \A t \in TransId : sb'.mem[t] = SCB!NextEntry(sb, in, t)
  BY <1>5 DEF SCB!TransId, TransId
<1>7. sb.ip = SCB!At(sb.cp0, sb.cnt)
  BY DEF Ring
<1>8. ~sb.mem[sb.ip].issued
  <2>1. Dist(sb.cp0, sb.ip) = sb.cnt
    BY <1>1, <1>7, IssueAssumption DEF Dist, SCB!At, TransId
  <2> QED BY <1>1, <2>1 DEF Ring, entry, TransId
<1>9. ~pops(w, sb.ip)
  BY <1>1, <1>2, <1>8
<1>10. ASSUME NEW t \in TransId
       PROVE  /\ sb'.mem[t] \in SCB!Entry
              /\ sb'.mem[t].issued <=> Kept(w, t) \/ (entering(w, a) /\ t = sb.ip)
              /\ sb'.mem[t].valid => sb'.mem[t].issued
              /\ Kept(w, t) =>
                   /\ sb'.mem[t].instr = sb.mem[t].instr
                   /\ sb'.mem[t].valid <=> sb.mem[t].valid \/ fu(sb.mem[t].instr) = "NONE" \/ hit(w, t)
                   /\ sb'.mem[t].ex <=> sb.mem[t].ex \/ \E p \in w.wb : p.tid = t /\ p.ex
  <2>1. CASE w.flush \/ pops(w, t)
    <3>1. sb'.mem[t] \in SCB!Entry /\ ~sb'.mem[t].issued /\ ~sb'.mem[t].valid
      BY <1>1, <1>4, <1>6, <2>1, EntryLeaves DEF in
    <3>2. ~Kept(w, t)
      BY <2>1 DEF Kept
    <3>3. ~(entering(w, a) /\ t = sb.ip)
      BY <1>3, <1>4, <1>9, <2>1
    <3> QED BY <3>1, <3>2, <3>3
  <2>2. CASE ~w.flush /\ ~pops(w, t) /\ entering(w, a) /\ t = sb.ip
    <3>1. PICK i \in Instr : a = {i}
      BY <1>3, <1>4, <2>2
    <3>2. sb'.mem[t] = [issued |-> TRUE, valid |-> i.ex, ex |-> i.ex, instr |-> i]
      BY <1>1, <1>3, <1>6, <1>8, <2>2, <3>1, EntryEnters DEF in
    <3> QED BY <1>8, <2>2, <3>2, IssueAssumption DEF SCB!Entry, Kept
  <2>3. CASE ~w.flush /\ ~pops(w, t) /\ ~(entering(w, a) /\ t = sb.ip)
    <3>1. /\ sb'.mem[t] \in SCB!Entry /\ sb'.mem[t].instr = sb.mem[t].instr
          /\ sb'.mem[t].issued = sb.mem[t].issued
          /\ ~sb'.mem[t].issued => sb'.mem[t].valid = sb.mem[t].valid
          /\ sb'.mem[t].issued =>
               /\ sb'.mem[t].valid <=> sb.mem[t].valid \/ fu(sb'.mem[t].instr) = "NONE" \/ hit(w, t)
               /\ sb'.mem[t].ex <=> sb.mem[t].ex \/ \E p \in w.wb : p.tid = t /\ p.ex
      BY <1>1, <1>3, <1>6, <2>3, EntryStays DEF in
    <3>2. sb.mem[t].valid => sb.mem[t].issued
      BY DEF Ring, entry
    <3>3. Kept(w, t) <=> sb.mem[t].issued
      BY <2>3 DEF Kept
    <3> QED BY <2>3, <3>1, <3>2, <3>3
  <2> QED BY <2>1, <2>2, <2>3
<1>11. sb'.mem \in [TransId -> SCB!Entry]
  <2>1. sb'.mem = [t \in TransId |-> SCB!NextEntry(sb, in, t)]
    BY <1>5 DEF SCB!TransId, TransId
  <2> QED BY <1>6, <1>10, <2>1
<1>12. CASE w.flush
  <2>1. sb'.cnt = 0 /\ sb'.ip = 0 /\ sb'.cp0 = 0 /\ sb'.cp1 = 0 /\ 0 \in TransId
    BY <1>5, <1>12, IssueAssumption DEF TransId
  <2>2. sb' \in SCB!SB
    BY <1>5, <1>11, <2>1 DEF SCB!SB, SCB!TransId, TransId
  <2>3. \A t \in TransId : ~sb'.mem[t].issued /\ ~sb'.mem[t].valid
    BY <1>3, <1>4, <1>10, <1>12 DEF Kept
  <2>4. SCB!At(0, 0) = 0 /\ \A t \in TransId : ~(Dist(0, t) < 0)
    BY IssueAssumption DEF SCB!At, Dist, TransId
  <2>5. Ring'
    BY <2>1, <2>2, <2>3, <2>4 DEF Ring, entry
  <2> QED BY <1>3, <1>4, <1>10, <1>12, <2>1, <2>5 DEF Moved, Kept
<1>13. CASE ~w.flush
  <2>1. e \in 0 .. 1 /\ (e = 1 => sb.cnt # NR_ENTRIES - 1) /\ (e = 1 <=> entering(w, a))
    BY <1>3, <1>4
  <2>2. /\ sb'.cnt = SCB!Minus(SCB!Plus(sb.cnt, e), w.ack) /\ sb'.ip = SCB!Plus(sb.ip, e)
        /\ sb'.cp0 = SCB!Plus(sb.cp0, w.ack) /\ sb'.cp1 = SCB!Plus(SCB!Plus(sb.cp0, w.ack), 1)
    BY <1>5, <1>13
  <2> HIDE DEF e
  <2>3. /\ sb'.cp0 \in TransId /\ sb'.ip \in TransId /\ sb'.cnt = sb.cnt + e - w.ack /\ sb'.cnt \in TransId
        /\ sb'.cp1 = SCB!At(sb'.cp0, 1) /\ sb'.cp1 \in TransId /\ sb'.ip = SCB!At(sb'.cp0, sb'.cnt)
        /\ Dist(sb'.cp0, sb.ip) = sb.cnt - w.ack
    <3> DEFINE p == sb.cp0
               c == sb.cnt
               n == w.ack
    <3>1. Fits(p, c, e, n)
      BY <1>1, <1>2, <2>1 DEF Fits
    <3> HIDE DEF p, c, n
    <3>2. /\ SCB!Plus(p, n) \in TransId
          /\ SCB!Plus(SCB!At(p, c), e) \in TransId /\ SCB!Minus(SCB!Plus(c, e), n) = c + e - n
          /\ c + e - n \in TransId
          /\ SCB!Plus(SCB!Plus(p, n), 1) = SCB!At(SCB!Plus(p, n), 1)
          /\ SCB!Plus(SCB!Plus(p, n), 1) \in TransId
          /\ SCB!Plus(SCB!At(p, c), e) = SCB!At(SCB!Plus(p, n), c + e - n)
          /\ Dist(SCB!Plus(p, n), SCB!At(p, c)) = c - n
      BY <3>1, RingMoves
    <3> QED BY <1>7, <2>2, <3>2, Zenon DEF p, c, n
  <2>4. sb' \in SCB!SB
    BY <1>5, <1>11, <2>3 DEF SCB!SB, SCB!TransId, TransId
  <2>5. ASSUME NEW t \in TransId
        PROVE  /\ sb'.mem[t].issued <=> Dist(sb'.cp0, t) < sb'.cnt
               /\ Kept(w, t) => /\ Dist(sb'.cp0, t) = Dist(sb.cp0, t) - w.ack
                                /\ Dist(sb'.cp0, t) < Dist(sb'.cp0, sb.ip)
    <3> DEFINE d == Dist(sb.cp0, t)
               d1 == Dist(sb'.cp0, t)
    <3>1. /\ d >= w.ack => d1 = d - w.ack
          /\ d < w.ack => d1 = d - w.ack + NR_ENTRIES
          /\ d \in TransId
          /\ d = sb.cnt <=> t = sb.ip
          /\ d < w.ack <=> (w.ack > 0 /\ t = sb.cp0) \/ (w.ack > 1 /\ t = SCB!At(sb.cp0, 1))
      <4> DEFINE p == sb.cp0
                 c == sb.cnt
                 n == w.ack
      <4>1. Fits(p, c, e, n)
        BY <1>1, <1>2, <2>1 DEF Fits
      <4> HIDE DEF p, c, n
      <4>2. /\ Dist(p, t) >= n => Dist(SCB!Plus(p, n), t) = Dist(p, t) - n
            /\ Dist(p, t) < n => Dist(SCB!Plus(p, n), t) = Dist(p, t) - n + NR_ENTRIES
            /\ Dist(p, t) \in TransId
            /\ Dist(p, t) = c <=> t = SCB!At(p, c)
            /\ Dist(p, t) < n <=> (n > 0 /\ t = p) \/ (n > 1 /\ t = SCB!At(p, 1))
        BY <4>1, RingMoves
      <4> QED BY <1>7, <2>2, <4>2, Zenon DEF p, c, n
    <3>2. d < w.ack <=> pops(w, t)
      BY <1>2, <3>1 DEF pops
    <3>3. sb.mem[t].issued <=> d < sb.cnt
      BY DEF Ring, entry
    <3>4. Kept(w, t) <=> d < sb.cnt /\ ~(d < w.ack)
      BY <1>13, <3>2, <3>3 DEF Kept
    <3>5. sb'.mem[t].issued <=> (d < sb.cnt /\ ~(d < w.ack)) \/ (e = 1 /\ d = sb.cnt)
      BY <1>10, <2>1, <3>1, <3>4
    <3> HIDE DEF d, d1
    <3>6. w.ack \in Nat /\ sb.cnt \in Nat /\ d \in Nat /\ sb.cnt < NR_ENTRIES /\ d < NR_ENTRIES /\ NR_ENTRIES \in Nat
      BY <1>1, <1>2, <3>1, IssueAssumption DEF TransId
    <3>7. sb'.mem[t].issued <=> d1 < sb'.cnt
      <4>1. CASE d < w.ack
        BY <1>2, <2>1, <2>3, <3>1, <3>5, <3>6, <4>1
      <4>2. CASE ~(d < w.ack)
        BY <1>2, <2>1, <2>3, <3>1, <3>5, <3>6, <4>2
      <4> QED BY <4>1, <4>2
    <3>8. Kept(w, t) => d1 = d - w.ack /\ d1 < Dist(sb'.cp0, sb.ip)
      BY <2>3, <3>1, <3>4, <3>6
    <3> QED BY <3>7, <3>8 DEF d, d1
  <2>6. Ring'
    BY <1>10, <2>3, <2>4, <2>5 DEF Ring, entry
  <2>7. ASSUME NEW i \in Instr, entering(w, a), a = {i}
        PROVE  sb'.mem[sb.ip] = [issued |-> TRUE, valid |-> i.ex, ex |-> i.ex, instr |-> i]
    BY <1>1, <1>3, <1>6, <1>8, <1>9, <1>13, <2>7, EntryEnters DEF in
  <2> QED BY <1>1, <1>8, <1>10, <1>13, <2>5, <2>6, <2>7 DEF Moved
<1> QED BY <1>12, <1>13

-----------------------------------------------------------------------------
(* Registers.                                                              *)

\* The least element of a set of indices, which priority logic picks.
LEMMA MinIndex ==
    ASSUME NEW S \in SUBSET TransId, S # {}
    PROVE  Min(S) \in S
<1> DEFINE R == {p \in Nat \X Nat : p[1] < p[2]}
<1>1. IsWellFoundedOn(R, Nat)
  BY NatLessThanWellFounded, Zenon DEF OpToRel
<1>2. S \subseteq Nat
  BY IssueAssumption DEF TransId
<1>3. PICK n \in S : \A m \in S : ~(<<m, n>> \in R)
  <2> HIDE DEF R
  <2> QED BY <1>1, <1>2, WFMin
<1>4. ASSUME NEW m \in S PROVE n <= m
  <2>1. <<m, n>> \in Nat \X Nat /\ <<m, n>>[1] = m /\ <<m, n>>[2] = n
    BY <1>2
  <2>2. ~(<<m, n>>[1] < <<m, n>>[2])
    BY <1>3, <2>1
  <2> QED BY <1>2, <2>1, <2>2
<1> QED BY <1>4 DEF Min

\* A register is reported as free exactly if no one in flight writes it.
LEMMA ClobberNone ==
    ASSUME Ring, NEW r, r # 0
    PROVE  rd_clobber(r) = "NONE" <=> writers(r) = {}
<1>1. CASE writers(r) # {}
  <2>1. Min(writers(r)) \in writers(r)
    BY <1>1, MinIndex DEF writers
  <2>2. PICK t \in TransId : t = Min(writers(r)) /\ sb.mem[t].instr.rd = r
    BY <2>1 DEF writers
  <2>3. sb.mem[t].instr \in Instr
    BY DEF Ring, SCB!SB, SCB!Entry, SCB!TransId, TransId
  <2>4. fu(sb.mem[t].instr) # "NONE"
    BY <2>2, <2>3, IssueAssumption
  <2> QED BY <1>1, <2>2, <2>4 DEF rd_clobber
<1>2. CASE writers(r) = {}
  BY <1>2 DEF rd_clobber
<1> QED BY <1>1, <1>2

\* The exception of the decoder stays.
LEMMA MarkedStep ==
    ASSUME Ring, Marked, NEW x, NEW w, NEW a, Step(x, w, a)
    PROVE  Marked'
<1> SUFFICES ASSUME NEW t \in TransId, sb'.mem[t].issued, sb'.mem[t].instr.ex
             PROVE  sb'.mem[t].ex /\ sb'.mem[t].valid
  BY DEF Marked, entry
<1>1. Moved(w, a)
  BY RingStep
<1>2. CASE Kept(w, t)
  <2>1. sb.mem[t].issued /\ sb.mem[t].instr.ex
    BY <1>1, <1>2 DEF Moved, Kept
  <2>2. sb.mem[t].ex /\ sb.mem[t].valid
    BY <2>1 DEF Marked, entry
  <2> QED BY <1>1, <1>2, <2>2 DEF Moved
<1>3. CASE ~Kept(w, t)
  <2>1. entering(w, a) /\ t = sb.ip
    BY <1>1, <1>3 DEF Moved
  <2>2. PICK i \in Instr : a = {i}
    BY <2>1 DEF Step, entering
  <2>3. sb'.mem[t] = [issued |-> TRUE, valid |-> i.ex, ex |-> i.ex, instr |-> i]
    BY <1>1, <2>1, <2>2 DEF Moved
  <2> QED BY <2>3
<1> QED BY <1>2, <1>3

\* An instruction of which the clobber logic thinks that it retires does so.
LEMMA CommittedPops ==
    ASSUME Ring, Marked, NEW x, NEW w, NEW a, Step(x, w, a), NEW r \in w.committed, r # 0
    PROVE  \E t \in TransId : sb.mem[t].issued /\ ~sb.mem[t].instr.ex /\ sb.mem[t].instr.rd = r /\ pops(w, t)
<1> DEFINE in == commitIn(x)
<1>1. /\ w.committed = committedRd(x) /\ w.ack = num_commit(c0, c1, in)
      /\ c0 = sb.mem[sb.cp0] /\ c1 = sb.mem[sb.cp1] /\ c0 \in SCB!Entry /\ c1 \in SCB!Entry
      /\ \A t \in TransId : pops(w, t) => sb.mem[t].valid /\ sb.mem[t].issued
  BY SignalFacts
<1>2. sb.cp0 \in TransId /\ sb.cp1 \in TransId /\ x \in Env
  BY DEF Ring, SCB!SB, SCB!TransId, TransId, Step
<1>3. c0.instr \in Instr /\ c0.ex \in BOOLEAN /\ c0.valid \in BOOLEAN
  BY <1>1 DEF SCB!Entry
<1>4. (we_gpr_0(c0, in) /\ r = c0.instr.rd) \/ (commit_ack_1(c0, c1, in) /\ r = c1.instr.rd)
  BY <1>1 DEF committedRd
<1>5. CASE we_gpr_0(c0, in) /\ r = c0.instr.rd
  <2>1. c0.valid /\ ~c0.ex /\ (c0.instr.ex \/ w.ack > 0)
    BY <1>1, <1>2, <1>3, <1>5, CommitFacts
  <2>2. sb.mem[sb.cp0].issued
    BY <1>1, <1>2, <2>1 DEF Ring, entry
  <2>3. ~c0.instr.ex
    BY <1>1, <1>2, <2>1, <2>2 DEF Marked, entry
  <2>4. pops(w, sb.cp0)
    BY <2>1, <2>3 DEF pops
  <2> QED BY <1>1, <1>2, <1>5, <2>2, <2>3, <2>4
<1>6. CASE commit_ack_1(c0, c1, in) /\ r = c1.instr.rd
  <2>1. w.ack > 1 /\ c1.valid /\ ~c1.ex
    BY <1>1, <1>2, <1>3, <1>6, CommitFacts
  <2>2. sb.mem[sb.cp1].issued
    BY <1>1, <1>2, <2>1 DEF Ring, entry
  <2>3. ~c1.instr.ex
    BY <1>1, <1>2, <2>1, <2>2 DEF Marked, entry
  <2>4. pops(w, sb.cp1)
    BY <2>1 DEF pops
  <2> QED BY <1>1, <1>2, <1>6, <2>2, <2>3, <2>4
<1> QED BY <1>4, <1>5, <1>6

\* At most one instruction in flight writes a register.
LEMMA UniqueStep ==
    ASSUME Ring, Marked, UniqueWriter, NEW x, NEW w, NEW a, Step(x, w, a)
    PROVE  UniqueWriter'
<1>1. Moved(w, a)
  BY RingStep
<1>2. ASSUME NEW t \in TransId, NEW u \in TransId, Kept(w, t), entering(w, a), u = sb.ip,
             ~sb'.mem[t].instr.ex, ~sb'.mem[u].instr.ex, sb'.mem[t].instr.rd = sb'.mem[u].instr.rd,
             sb'.mem[t].instr.rd # 0
      PROVE  FALSE
  <2>1. PICK i \in Instr : a = {i} /\ issue_ack_o(i, w)
    BY <1>2 DEF Step, entering
  <2>2. sb'.mem[u].instr = i
    <3>1. sb'.mem[u] = [issued |-> TRUE, valid |-> i.ex, ex |-> i.ex, instr |-> i]
      BY <1>1, <1>2, <2>1, Zenon DEF Moved
    <3> QED BY <3>1
  <2>3. ~i.ex /\ i.rd # 0 /\ sb'.mem[t].instr = sb.mem[t].instr /\ sb.mem[t].issued /\ ~pops(w, t)
    BY <1>1, <1>2, <2>2 DEF Moved, Kept
  <2>4. fu(i) # "NONE"
    BY <2>3, IssueAssumption
  <2>5. waw_free(i, w)
    BY <2>1, <2>3, <2>4 DEF issue_ack_o
  <2>6. t \in writers(i.rd)
    BY <1>2, <2>2, <2>3 DEF writers
  <2>7. i.rd \in w.committed
    BY <2>3, <2>5, <2>6, ClobberNone DEF waw_free
  <2>8. PICK v \in TransId : sb.mem[v].issued /\ ~sb.mem[v].instr.ex /\ sb.mem[v].instr.rd = i.rd /\ pops(w, v)
    BY <2>3, <2>7, CommittedPops
  <2>9. t # v
    BY <2>3, <2>8
  <2> QED BY <1>2, <2>2, <2>3, <2>8, <2>9 DEF UniqueWriter
<1>3. ASSUME NEW t \in TransId, NEW u \in TransId, t # u, Kept(w, t), Kept(w, u),
             ~sb'.mem[t].instr.ex, ~sb'.mem[u].instr.ex
      PROVE  sb'.mem[t].instr.rd # sb'.mem[u].instr.rd \/ sb'.mem[t].instr.rd = 0
  BY <1>1, <1>3 DEF Moved, UniqueWriter, Kept
<1> SUFFICES ASSUME NEW t \in TransId, NEW u \in TransId, t # u, sb'.mem[t].issued, sb'.mem[u].issued,
                    ~sb'.mem[t].instr.ex, ~sb'.mem[u].instr.ex
             PROVE  sb'.mem[t].instr.rd # sb'.mem[u].instr.rd \/ sb'.mem[t].instr.rd = 0
  BY DEF UniqueWriter
<1>4. /\ Kept(w, t) \/ (entering(w, a) /\ t = sb.ip)
      /\ Kept(w, u) \/ (entering(w, a) /\ u = sb.ip)
  BY <1>1 DEF Moved
<1> QED BY <1>2, <1>3, <1>4

-----------------------------------------------------------------------------
(* Functional units.                                                       *)

Units == Ring /\ Types /\ Owners /\ BusFree

\* The instruction that enters.
LEMMA Entered ==
    ASSUME Ring, NEW x, NEW w, NEW a, Step(x, w, a), entering(w, a)
    PROVE  \E i \in Instr :
             /\ a = {i} /\ issue_ack_o(i, w) /\ issuedOf(w, a) = {i}
             /\ sb'.mem[sb.ip].issued /\ sb'.mem[sb.ip].instr = i
             /\ sb'.mem[sb.ip].valid = i.ex /\ sb'.mem[sb.ip].ex = i.ex
             /\ ~sb.mem[sb.ip].issued /\ ~w.flush /\ sb.ip \in TransId
             /\ \A t \in TransId : Kept(w, t) => Dist(sb'.cp0, t) < Dist(sb'.cp0, sb.ip)
<1>1. PICK i \in Instr : a = {i} /\ issue_ack_o(i, w)
  BY DEF Step, entering
<1>2. /\ sb'.mem[sb.ip] = [issued |-> TRUE, valid |-> i.ex, ex |-> i.ex, instr |-> i]
      /\ ~sb.mem[sb.ip].issued /\ ~w.flush /\ sb.ip \in TransId
      /\ \A t \in TransId : Kept(w, t) => Dist(sb'.cp0, t) < Dist(sb'.cp0, sb.ip)
  <2>1. Moved(w, a)
    BY RingStep
  <2> QED BY <1>1, <2>1, Zenon DEF Moved
<1>3. issuedOf(w, a) = {i}
  BY <1>1 DEF issuedOf, entering
<1> QED BY <1>1, <1>2, <1>3

\* What goes to a functional unit.
LEMMA Sent ==
    ASSUME Ring, NEW x, NEW w, NEW a, Step(x, w, a)
    PROVE  /\ req' = NoReq \/ \E i \in Instr : /\ entering(w, a) /\ a = {i} /\ issue_ack_o(i, w)
                                               /\ ~i.ex /\ fu(i) # "NONE"
                                               /\ req' = [valid |-> TRUE, tid |-> sb.ip, instr |-> i]
           /\ \A i \in Instr : entering(w, a) /\ a = {i} /\ ~i.ex /\ fu(i) # "NONE" =>
                req' = [valid |-> TRUE, tid |-> sb.ip, instr |-> i]
<1>1. req' = IF sendsOf(w, a) = {} THEN NoReq
             ELSE [valid |-> TRUE, tid |-> sb.ip, instr |-> CHOOSE i \in sendsOf(w, a) : TRUE]
  BY DEF Step
<1>2. CASE entering(w, a)
  <2>1. PICK i \in Instr : a = {i} /\ issue_ack_o(i, w) /\ issuedOf(w, a) = {i}
    BY <1>2, Entered
  <2>2. sendsOf(w, a) = IF ~i.ex /\ fu(i) # "NONE" THEN {i} ELSE {}
    BY <2>1 DEF sendsOf
  <2>3. (CHOOSE j \in {i} : TRUE) = i
    OBVIOUS
  <2>4. CASE ~i.ex /\ fu(i) # "NONE"
    <3>1. req' = [valid |-> TRUE, tid |-> sb.ip, instr |-> i]
      BY <1>1, <2>2, <2>3, <2>4
    <3> QED BY <1>2, <2>1, <2>4, <3>1
  <2>5. CASE ~(~i.ex /\ fu(i) # "NONE")
    BY <1>1, <2>1, <2>2, <2>5
  <2> QED BY <2>4, <2>5
<1>3. CASE ~entering(w, a)
  <2>1. sendsOf(w, a) = {}
    BY <1>3 DEF sendsOf, issuedOf, entering
  <2> QED BY <1>1, <1>3, <2>1
<1> QED BY <1>2, <1>3

\* What the load/store unit completes is one of its own.
LEMMA Completed ==
    ASSUME Types, NEW x \in Env
    PROVE  /\ x.st = {} \/ \E t \in lsu, e \in BOOLEAN :
                             x.st = {[tid |-> t, ex |-> e]} /\ fu(sb.mem[t].instr) = "STORE"
           /\ x.ld = {} \/ \E t \in lsu, e \in BOOLEAN :
                             x.ld = {[tid |-> t, ex |-> e]} /\ fu(sb.mem[t].instr) = "LOAD"
<1>1. x.st \in completions("STORE") /\ x.ld \in completions("LOAD")
  BY DEF Env
<1> QED BY <1>1 DEF completions

\* The instructions that complete in a cycle.
completes(x, t) ==
    \/ \E s \in x.st : s.tid = t
    \/ ldpipe.valid /\ ldpipe.tid = t
    \/ req.valid /\ req.tid = t /\ fu(req.instr) \in {"ALU", "CTRL_FLOW", "CSR"}
    \/ mul.valid /\ mul.tid = t
    \/ out_vld(x) /\ div.tid = t

\* No result is lost on the bus of the fixed latency unit.
LEMMA ResultsArrive ==
    ASSUME Units, NEW x, NEW w, NEW a, Step(x, w, a), NEW t
    PROVE  hit(w, t) <=> completes(x, t)
<1>1. w.wb = writeBacks(x)
  BY SignalFacts DEF Units
<1>2. hit(w, t) <=> \/ \E s \in x.st : s.tid = t
                    \/ ldpipe.valid /\ ldpipe.tid = t
                    \/ flu_valid(x) /\ flu_trans_id(x) = t
  <2>1. ASSUME NEW p \in w.wb, p.tid = t
        PROVE  \/ \E s \in x.st : s.tid = t
               \/ ldpipe.valid /\ ldpipe.tid = t
               \/ flu_valid(x) /\ flu_trans_id(x) = t
    BY <1>1, <2>1 DEF writeBacks
  <2>2. ASSUME NEW s \in x.st, s.tid = t PROVE hit(w, t)
    <3>1. [port |-> 1, tid |-> s.tid, ex |-> s.ex] \in w.wb
      BY <1>1 DEF writeBacks
    <3> QED BY <2>2, <3>1 DEF hit
  <2>3. ASSUME ldpipe.valid, ldpipe.tid = t PROVE hit(w, t)
    <3>1. [port |-> 2, tid |-> ldpipe.tid, ex |-> ldpipe.ex] \in w.wb
      BY <1>1, <2>3 DEF writeBacks
    <3> QED BY <2>3, <3>1 DEF hit
  <2>4. ASSUME flu_valid(x), flu_trans_id(x) = t PROVE hit(w, t)
    <3>1. [port |-> 3, tid |-> flu_trans_id(x), ex |-> FALSE] \in w.wb
      BY <1>1, <2>4 DEF writeBacks
    <3> QED BY <2>4, <3>1 DEF hit
  <2> QED BY <2>1, <2>2, <2>3, <2>4 DEF hit
<1> DEFINE f == req.valid /\ fu(req.instr) \in {"ALU", "CTRL_FLOW", "CSR"}
<1>3. /\ mul.valid => ~f /\ ~out_vld(x)
      /\ out_vld(x) => ~f
  BY DEF Units, BusFree, out_vld
<1>4. flu_valid(x) <=> f \/ mul.valid \/ out_vld(x)
  BY DEF flu_valid, starts, mult_valid
<1>5. CASE f
  <2>1. flu_trans_id(x) = req.tid
    BY <1>3, <1>5 DEF flu_trans_id, mult_valid
  <2> QED BY <1>2, <1>3, <1>4, <1>5, <2>1 DEF completes
<1>6. CASE ~f
  <2>1. ~starts("ALU") /\ ~starts("CSR")
    BY <1>6 DEF starts
  <2>2. flu_valid(x) => flu_trans_id(x) = IF mul.valid THEN mul.tid ELSE div.tid
    BY <1>4, <1>6, <2>1 DEF flu_trans_id, mult_valid, mult_trans_id
  <2>3. flu_valid(x) /\ flu_trans_id(x) = t <=> (mul.valid /\ mul.tid = t) \/ (out_vld(x) /\ div.tid = t)
    BY <1>3, <1>4, <1>6, <2>2
  <2> QED BY <1>2, <1>6, <2>3 DEF completes
<1> QED BY <1>5, <1>6

\* What does not complete goes on waiting.
LEMMA StillWaits ==
    ASSUME Units, NEW x, NEW w, NEW a, Step(x, w, a), ~w.flush, NEW t \in TransId, waits(t),
           fu(sb.mem[t].instr) # "NONE", ~completes(x, t)
    PROVE  Kept(w, t) /\ sb'.mem[t].issued /\ ~sb'.mem[t].valid /\ sb'.mem[t].instr = sb.mem[t].instr
<1>1. Ring
  BY DEF Units
<1>2. Moved(w, a) /\ ~pops(w, t)
  BY <1>1, RingStep, SignalFacts DEF waits, entry
<1>3. Kept(w, t)
  BY <1>2 DEF Kept, waits, entry
<1>4. ~hit(w, t)
  BY ResultsArrive
<1> QED BY <1>2, <1>3, <1>4 DEF Moved, waits, entry

\* What goes to the register behind the load unit.
LEMMA LoadMoves ==
    ASSUME Types, NEW x, NEW w, NEW a, Step(x, w, a), x.ld # {}
    PROVE  \E t \in lsu, e \in BOOLEAN :
             /\ x.ld = {[tid |-> t, ex |-> e]} /\ fu(sb.mem[t].instr) = "LOAD"
             /\ ldpipe' = [valid |-> TRUE, tid |-> t, ex |-> e]
<1>0. x \in Env
  BY DEF Step
<1>1. PICK t \in lsu, e \in BOOLEAN : x.ld = {[tid |-> t, ex |-> e]} /\ fu(sb.mem[t].instr) = "LOAD"
  BY <1>0, Completed
<1> DEFINE l == CHOOSE l \in x.ld : TRUE
<1>2. l = [tid |-> t, ex |-> e]
  BY <1>1
<1>3. ldpipe' = [valid |-> TRUE, tid |-> l.tid, ex |-> l.ex]
  BY Zenon DEF Step
<1> HIDE DEF l
<1>4. l.tid = t /\ l.ex = e
  BY <1>2
<1>5. ldpipe' = [valid |-> TRUE, tid |-> t, ex |-> e]
  BY <1>3, <1>4
<1> QED BY <1>1, <1>5

\* The registers keep their types.
LEMMA TypesStep ==
    ASSUME Ring, Types, NEW x, NEW w, NEW a, Step(x, w, a)
    PROVE  Types'
<1>1. 0 \in TransId /\ sb.ip \in TransId /\ x \in Env
  BY IssueAssumption DEF Ring, SCB!SB, SCB!TransId, TransId, Step
<1>2. req' \in [valid : BOOLEAN, tid : TransId, instr : Instr]
  <2>1. NoReq \in [valid : BOOLEAN, tid : TransId, instr : Instr]
    BY <1>1, IssueAssumption DEF NoReq
  <2>2. CASE req' = NoReq
    BY <2>1, <2>2
  <2>3. CASE req' # NoReq
    <3>1. PICK i \in Instr : req' = [valid |-> TRUE, tid |-> sb.ip, instr |-> i]
      BY <2>3, Sent
    <3> QED BY <1>1, <3>1
  <2> QED BY <2>2, <2>3
<1>3. csr' \in [valid : BOOLEAN, owner : TransId]
  <2>1. csr_next(x).valid \in BOOLEAN /\ csr' = csr_next(x)
    BY DEF csr_next, Step
  <2>2. csr_next(x).owner \in TransId
    BY DEF csr_next, Types
  <2> QED BY <2>1, <2>2 DEF csr_next
<1>4. mul' \in [valid : BOOLEAN, tid : TransId]
  BY <1>1 DEF Step, Types
<1>5. div' \in [st : {"IDLE", "DIVIDE", "FINISH"}, tid : TransId]
  <2>1. div' = div_next(x)
    BY DEF Step
  <2>2. x.div \in {"go", "zero", "last"}
    BY <1>1 DEF Env
  <2>3. afterResult \in {"IDLE", "FINISH"}
    BY DEF afterResult
  <2>4. /\ req.tid \in TransId /\ div.tid \in TransId /\ div.st \in {"IDLE", "DIVIDE", "FINISH"}
        /\ div \in [st : {"IDLE", "DIVIDE", "FINISH"}, tid : TransId]
    BY DEF Types
  <2> QED BY <2>1, <2>2, <2>3, <2>4 DEF div_next
<1>6. lsu' \subseteq TransId
  <2>1. toLsu \subseteq TransId
    BY DEF toLsu, Types
  <2> QED BY <2>1 DEF Step, Types
<1>7. ldpipe' \in [valid : BOOLEAN, tid : TransId, ex : BOOLEAN]
  <2>1. CASE x.ld = {}
    BY <1>1, <2>1 DEF Step, NoResult
  <2>2. CASE x.ld # {}
    <3>1. PICK t \in lsu, e \in BOOLEAN : ldpipe' = [valid |-> TRUE, tid |-> t, ex |-> e]
      BY <2>2, LoadMoves
    <3> QED BY <3>1 DEF Types
  <2> QED BY <2>1, <2>2
<1>8. good' \in [TransId -> BOOLEAN]
  <2> DEFINE new(t) == IF issuedOf(w, a) # {} /\ t = sb.ip
                       THEN LET i == CHOOSE i \in issuedOf(w, a) : TRUE
                            IN  i.ex \/ ( /\ ~w.mispredict
                                          /\ \A r \in {i.rs1, i.rs2} \ {0} : operandGood(r, i, w))
                       ELSE good[t]
  <2>1. ASSUME NEW t \in TransId PROVE new(t) \in BOOLEAN
    <3>1. CASE issuedOf(w, a) # {} /\ t = sb.ip
      <4>1. new(t) = LET i == CHOOSE i \in issuedOf(w, a) : TRUE
                     IN  i.ex \/ ( /\ ~w.mispredict
                                   /\ \A r \in {i.rs1, i.rs2} \ {0} : operandGood(r, i, w))
        BY <3>1
      <4> QED BY <4>1, Zenon
    <3>2. CASE ~(issuedOf(w, a) # {} /\ t = sb.ip)
      BY <3>2 DEF Types
    <3> QED BY <3>1, <3>2
  <2>2. good' = [t \in TransId |-> new(t)]
    BY Zenon DEF Step
  <2> HIDE DEF new
  <2> QED BY <2>1, <2>2
<1> QED BY <1>2, <1>3, <1>4, <1>5, <1>6, <1>7, <1>8 DEF Types

\* What the units work on in the next cycle.
LEMMA UnitsNext ==
    ASSUME Units, NEW x, NEW w, NEW a, Step(x, w, a)
    PROVE  /\ w.flush => req' = NoReq /\ ~mul'.valid /\ div'.st = "IDLE" /\ lsu' = {}
           /\ mul'.valid => ~w.flush /\ req.valid /\ req.instr.op = "MUL" /\ mul'.tid = req.tid
           /\ ~w.flush /\ req.valid /\ req.instr.op = "MUL" => mul'.valid /\ mul'.tid = req.tid
           /\ div'.st # "IDLE" => \/ req.valid /\ req.instr.op = "DIV" /\ div'.tid = req.tid
                                  \/ div.st # "IDLE" /\ div'.tid = div.tid /\ ~out_vld(x)
           /\ ~w.flush /\ req.valid /\ req.instr.op = "DIV" => div'.st # "IDLE" /\ div'.tid = req.tid
           /\ ~w.flush /\ div.st # "IDLE" /\ ~out_vld(x) => div'.st # "IDLE" /\ div'.tid = div.tid
           /\ \A t \in lsu' : \/ t \in lsu /\ \A c \in x.ld \union x.st : c.tid # t
                              \/ req.valid /\ t = req.tid /\ fu(req.instr) \in {"LOAD", "STORE"}
           /\ ~w.flush => /\ req.valid /\ fu(req.instr) \in {"LOAD", "STORE"} => req.tid \in lsu'
                          /\ \A t \in lsu : (\A c \in x.ld \union x.st : c.tid # t) => t \in lsu'
           /\ ldpipe'.valid => \E t \in lsu : /\ ldpipe'.tid = t /\ fu(sb.mem[t].instr) = "LOAD"
                                              /\ \E c \in x.ld : c.tid = t
           /\ \A c \in x.ld : ldpipe'.valid /\ ldpipe'.tid = c.tid
<1>0. x \in Env /\ w.flush = flush_ex(x) /\ (w.flush => w.flush_unissued) /\ Ring /\ Types
  <2>1. Ring /\ Types
    BY DEF Units
  <2>2. x \in Env
    BY DEF Step
  <2> QED BY <2>1, <2>2, SignalFacts
<1>1. w.flush => req' = NoReq /\ ~mul'.valid /\ div'.st = "IDLE" /\ lsu' = {}
  <2> SUFFICES ASSUME w.flush PROVE req' = NoReq /\ ~mul'.valid /\ div'.st = "IDLE" /\ lsu' = {}
    OBVIOUS
  <2>1. req' = NoReq
    <3>1. ~entering(w, a)
      BY <1>0 DEF entering
    <3> QED BY <1>0, <3>1, Sent
  <2>2. ~mul'.valid /\ lsu' = {}
    BY DEF Step
  <2>3. div'.st = "IDLE"
    <3>1. div' = [div EXCEPT !.st = "IDLE"]
      BY <1>0 DEF Step, div_next
    <3> QED BY <1>0, <3>1 DEF Types
  <2> QED BY <2>1, <2>2, <2>3
<1>2. /\ mul'.valid => ~w.flush /\ req.valid /\ req.instr.op = "MUL" /\ mul'.tid = req.tid
      /\ ~w.flush /\ req.valid /\ req.instr.op = "MUL" => mul'.valid /\ mul'.tid = req.tid
  BY DEF Step
<1>3. /\ div'.st # "IDLE" => \/ req.valid /\ req.instr.op = "DIV" /\ div'.tid = req.tid
                             \/ div.st # "IDLE" /\ div'.tid = div.tid /\ ~out_vld(x)
      /\ ~w.flush /\ req.valid /\ req.instr.op = "DIV" => div'.st # "IDLE" /\ div'.tid = req.tid
      /\ ~w.flush /\ div.st # "IDLE" /\ ~out_vld(x) => div'.st # "IDLE" /\ div'.tid = div.tid
  <2>1. div' = div_next(x) /\ x.div \in {"go", "zero", "last"}
    BY <1>0 DEF Step, Env
  <2>2. div \in [st : {"IDLE", "DIVIDE", "FINISH"}, tid : TransId] /\ req.instr \in Instr
    BY <1>0 DEF Types
  <2>3. req.valid /\ req.instr.op = "DIV" => div.st = "IDLE"
    <3>1. req.instr.op = "DIV" => fu(req.instr) = "MULT"
      BY <2>2, FuFacts
    <3> QED BY <3>1 DEF Units, BusFree
  <2>4. CASE w.flush
    BY <1>1, <2>4
  <2>5. CASE ~w.flush /\ div.st = "IDLE"
    <3>1. div' = IF req.valid /\ req.instr.op = "DIV" THEN [st |-> "DIVIDE", tid |-> req.tid] ELSE div
      BY <1>0, <2>1, <2>5 DEF div_next, in_vld
    <3> QED BY <2>5, <3>1
  <2>6. CASE ~w.flush /\ div.st # "IDLE"
    <3>1. ~mul.valid
      BY <2>6 DEF Units, BusFree
    <3>2. CASE out_vld(x)
      <4>1. div' = [div EXCEPT !.st = "IDLE"]
        BY <1>0, <2>1, <2>2, <2>6, <3>1, <3>2 DEF div_next, out_vld, afterResult
      <4> QED BY <2>2, <2>3, <2>6, <3>2, <4>1
    <3>3. CASE ~out_vld(x)
      <4>1. div.st = "DIVIDE" /\ x.div \in {"go", "last"}
        BY <1>0, <2>1, <2>2, <2>6, <3>3 DEF out_vld
      <4>2. div' \in {[div EXCEPT !.st = "DIVIDE"], [div EXCEPT !.st = "FINISH"]}
        BY <1>0, <2>1, <2>6, <4>1 DEF div_next
      <4>3. div'.st # "IDLE" /\ div'.tid = div.tid
        BY <2>2, <4>2
      <4> QED BY <2>3, <2>6, <3>3, <4>3
    <3> QED BY <3>2, <3>3
  <2> QED BY <2>4, <2>5, <2>6
<1>4. /\ \A t \in lsu' : \/ t \in lsu /\ \A c \in x.ld \union x.st : c.tid # t
                         \/ req.valid /\ t = req.tid /\ fu(req.instr) \in {"LOAD", "STORE"}
      /\ ~w.flush => /\ req.valid /\ fu(req.instr) \in {"LOAD", "STORE"} => req.tid \in lsu'
                     /\ \A t \in lsu : (\A c \in x.ld \union x.st : c.tid # t) => t \in lsu'
  BY DEF Step, toLsu
<1>5. /\ ldpipe'.valid => \E t \in lsu : /\ ldpipe'.tid = t /\ fu(sb.mem[t].instr) = "LOAD"
                                         /\ \E c \in x.ld : c.tid = t
      /\ \A c \in x.ld : ldpipe'.valid /\ ldpipe'.tid = c.tid
  <2>1. CASE x.ld = {}
    BY <2>1 DEF Step, NoResult
  <2>2. CASE x.ld # {}
    <3>1. PICK t \in lsu, e \in BOOLEAN :
              /\ x.ld = {[tid |-> t, ex |-> e]} /\ fu(sb.mem[t].instr) = "LOAD"
              /\ ldpipe' = [valid |-> TRUE, tid |-> t, ex |-> e]
      BY <1>0, <2>2, LoadMoves
    <3>2. [tid |-> t, ex |-> e] \in x.ld
      BY <3>1
    <3> QED BY <3>1, <3>2
  <2> QED BY <2>1, <2>2
<1> QED BY <1>1, <1>2, <1>3, <1>4, <1>5

\* Entry t goes on waiting for its result.
Goes(w, t) ==
    /\ t \in TransId /\ waits(t) /\ Kept(w, t) /\ t # sb.ip
    /\ sb'.mem[t].issued /\ ~sb'.mem[t].valid /\ sb'.mem[t].instr = sb.mem[t].instr

\* What is in the middle of its execution does not complete.
LEMMA NotDone ==
    ASSUME Units, NEW x, NEW w, NEW a, Step(x, w, a), ~w.flush
    PROVE  /\ req.valid /\ fu(req.instr) \in {"MULT", "LOAD", "STORE"} => Goes(w, req.tid)
           /\ \A t \in lsu : (\A c \in x.st : c.tid # t) => Goes(w, t)
           /\ div.st # "IDLE" /\ ~out_vld(x) => Goes(w, div.tid)
<1>0. /\ Ring /\ Types /\ Owners /\ BusFree /\ x \in Env
      /\ sb.cnt \in TransId /\ sb.ip \in TransId /\ sb.cp0 \in TransId
      /\ \A t \in TransId : sb.mem[t].instr \in Instr
  BY DEF Units, Step, Ring, SCB!SB, SCB!TransId, TransId, SCB!Entry
<1>1. ~sb.mem[sb.ip].issued
  <2>1. Dist(sb.cp0, sb.ip) = sb.cnt
    BY <1>0, IssueAssumption DEF Ring, Dist, SCB!At, TransId
  <2> QED BY <1>0, <2>1 DEF Ring, entry, TransId
<1>2. ASSUME NEW t \in TransId, waits(t) PROVE sb.cnt # 0
  <2>1. Dist(sb.cp0, t) < sb.cnt /\ Dist(sb.cp0, t) >= 0
    BY <1>0, <1>2, IssueAssumption DEF Ring, waits, Dist, TransId
  <2> QED BY <1>0, <2>1, IssueAssumption DEF Dist, TransId
<1>3. ASSUME NEW t \in TransId, waits(t), fu(sb.mem[t].instr) # "NONE", ~completes(x, t) PROVE Goes(w, t)
  BY <1>1, <1>3, StillWaits DEF Goes, waits, entry
<1>4. \A c \in x.st : c.tid \in lsu
  BY <1>0, Completed
<1>5. \A t \in lsu : t \in TransId /\ waits(t) /\ fu(sb.mem[t].instr) \in {"LOAD", "STORE"}
  BY <1>0 DEF Owners, Types, entry
<1>6. mul.valid => mul.tid \in TransId /\ waits(mul.tid) /\ fu(sb.mem[mul.tid].instr) = "MULT" /\ sb.mem[mul.tid].instr.op = "MUL"
  <2>1. mul.tid \in TransId
    BY <1>0 DEF Types
  <2> QED BY <1>0, <2>1, FuFacts DEF Owners, entry
<1>7. div.st # "IDLE" => div.tid \in TransId /\ waits(div.tid) /\ fu(sb.mem[div.tid].instr) = "MULT" /\ sb.mem[div.tid].instr.op = "DIV"
  <2>1. div.tid \in TransId
    BY <1>0 DEF Types
  <2> QED BY <1>0, <2>1, FuFacts DEF Owners, entry
<1>8. ldpipe.valid /\ sb.cnt # 0 => fu(sb.mem[ldpipe.tid].instr) = "LOAD" /\ ldpipe.tid \notin lsu
  BY <1>0 DEF Owners, entry
<1>9. req.valid => req.tid \in TransId /\ waits(req.tid) /\ sb.mem[req.tid].instr = req.instr /\ req.tid \notin lsu
  BY <1>0 DEF Owners, Types, entry
<1>10. req.valid => /\ mul.valid => mul.tid # req.tid
                    /\ div.st # "IDLE" => div.tid # req.tid
                    /\ ldpipe.valid /\ sb.cnt # 0 => ldpipe.tid # req.tid
  BY <1>0 DEF Owners
<1>11. out_vld(x) => div.st # "IDLE"
  BY DEF out_vld
<1>12. ASSUME req.valid, fu(req.instr) \in {"MULT", "LOAD", "STORE"} PROVE Goes(w, req.tid)
  <2>1. sb.cnt # 0
    BY <1>2, <1>9, <1>12
  <2>2. ~completes(x, req.tid)
    BY <1>4, <1>9, <1>10, <1>11, <1>12, <2>1 DEF completes
  <2> QED BY <1>3, <1>9, <1>12, <2>2
<1>13. ASSUME NEW t \in lsu, \A c \in x.st : c.tid # t PROVE Goes(w, t)
  <2>1. sb.cnt # 0
    BY <1>2, <1>5
  <2>2. ~completes(x, t)
    BY <1>5, <1>6, <1>7, <1>8, <1>9, <1>11, <1>13, <2>1 DEF completes
  <2> QED BY <1>3, <1>5, <2>2
<1>14. ASSUME div.st # "IDLE", ~out_vld(x) PROVE Goes(w, div.tid)
  <2>1. sb.cnt # 0
    BY <1>2, <1>7, <1>14
  <2>2. ~completes(x, div.tid)
    BY <1>4, <1>5, <1>6, <1>7, <1>8, <1>9, <1>10, <1>14, <2>1 DEF completes
  <2> QED BY <1>3, <1>7, <1>14, <2>2
<1> QED BY <1>12, <1>13, <1>14

\* What the units work on is theirs.
LEMMA OwnersStep ==
    ASSUME Units, NEW x, NEW w, NEW a, Step(x, w, a)
    PROVE  Owners'
<1>0. Ring /\ Types /\ Owners /\ BusFree /\ x \in Env
  BY DEF Units, Step
<1>1. CASE w.flush
  <2>1. req' = NoReq /\ ~mul'.valid /\ div'.st = "IDLE" /\ lsu' = {}
    BY <1>1, UnitsNext
  <2>2. ~req'.valid
    BY <2>1 DEF NoReq
  <2>3. sb'.cnt = 0
    BY <1>0, <1>1, RingStep DEF Moved
  <2> QED BY <2>1, <2>2, <2>3 DEF Owners
<1>2. CASE ~w.flush
  <2>1. /\ req.valid /\ fu(req.instr) \in {"MULT", "LOAD", "STORE"} => Goes(w, req.tid)
        /\ \A t \in lsu : (\A c \in x.st : c.tid # t) => Goes(w, t)
        /\ div.st # "IDLE" /\ ~out_vld(x) => Goes(w, div.tid)
    BY <1>2, NotDone
  <2>2. req.valid => req.tid \in TransId /\ sb.mem[req.tid].instr = req.instr /\ req.instr \in Instr /\ req.tid \notin lsu
    BY <1>0 DEF Owners, Types, entry
  <2>3. mul'.valid => Goes(w, mul'.tid) /\ sb.mem[mul'.tid].instr.op = "MUL"
    <3> SUFFICES ASSUME mul'.valid PROVE Goes(w, mul'.tid) /\ sb.mem[mul'.tid].instr.op = "MUL"
      OBVIOUS
    <3>1. req.valid /\ req.instr.op = "MUL" /\ mul'.tid = req.tid
      BY UnitsNext
    <3> QED BY <2>1, <2>2, <3>1, FuFacts
  <2>4. div'.st # "IDLE" => Goes(w, div'.tid) /\ sb.mem[div'.tid].instr.op = "DIV"
    <3> SUFFICES ASSUME div'.st # "IDLE" PROVE Goes(w, div'.tid) /\ sb.mem[div'.tid].instr.op = "DIV"
      OBVIOUS
    <3>1. \/ req.valid /\ req.instr.op = "DIV" /\ div'.tid = req.tid
          \/ div.st # "IDLE" /\ div'.tid = div.tid /\ ~out_vld(x)
      BY UnitsNext
    <3>2. div.st # "IDLE" => sb.mem[div.tid].instr.op = "DIV"
      BY <1>0 DEF Owners, entry
    <3> QED BY <2>1, <2>2, <3>1, <3>2, FuFacts
  <2>5. \A t \in lsu' : \/ t \in lsu /\ \A c \in x.ld \union x.st : c.tid # t
                        \/ req.valid /\ t = req.tid /\ fu(req.instr) \in {"LOAD", "STORE"}
    BY UnitsNext
  <2>6. \A t \in lsu' : Goes(w, t) /\ fu(sb.mem[t].instr) \in {"LOAD", "STORE"}
    <3>1. \A t \in lsu : fu(sb.mem[t].instr) \in {"LOAD", "STORE"}
      BY <1>0 DEF Owners, entry
    <3> QED BY <2>1, <2>2, <2>5, <3>1
  <2>7. ldpipe'.valid => Goes(w, ldpipe'.tid) /\ fu(sb.mem[ldpipe'.tid].instr) = "LOAD" /\ ldpipe'.tid \notin lsu'
    <3> SUFFICES ASSUME ldpipe'.valid
                 PROVE  Goes(w, ldpipe'.tid) /\ fu(sb.mem[ldpipe'.tid].instr) = "LOAD" /\ ldpipe'.tid \notin lsu'
      OBVIOUS
    <3>1. PICK t \in lsu : ldpipe'.tid = t /\ fu(sb.mem[t].instr) = "LOAD" /\ \E c \in x.ld : c.tid = t
      BY UnitsNext
    <3>2. \A c \in x.st : fu(sb.mem[c.tid].instr) = "STORE"
      BY <1>0, Completed
    <3>3. Goes(w, t)
      BY <2>1, <3>1, <3>2
    <3> QED BY <2>2, <2>5, <3>1, <3>3
  <2>8. req'.valid => /\ sb'.mem[req'.tid].issued /\ ~sb'.mem[req'.tid].valid
                      /\ sb'.mem[req'.tid].instr = req'.instr /\ ~req'.instr.ex /\ req'.tid = sb.ip
    <3> SUFFICES ASSUME req'.valid
                 PROVE  /\ sb'.mem[req'.tid].issued /\ ~sb'.mem[req'.tid].valid
                        /\ sb'.mem[req'.tid].instr = req'.instr /\ ~req'.instr.ex /\ req'.tid = sb.ip
      OBVIOUS
    <3>1. req' # NoReq
      BY DEF NoReq
    <3>2. PICK i \in Instr : /\ entering(w, a) /\ a = {i} /\ ~i.ex
                             /\ req' = [valid |-> TRUE, tid |-> sb.ip, instr |-> i]
      BY <1>0, <3>1, Sent
    <3>3. PICK j \in Instr : /\ a = {j} /\ sb'.mem[sb.ip].issued /\ sb'.mem[sb.ip].instr = j
                             /\ sb'.mem[sb.ip].valid = j.ex
      BY <1>0, <3>2, Entered
    <3>4. i = j
      BY <3>2, <3>3
    <3>5. req'.tid = sb.ip /\ req'.instr = i
      BY <3>2
    <3> QED BY <3>2, <3>3, <3>4, <3>5
  <2> QED BY <2>3, <2>4, <2>6, <2>7, <2>8 DEF Owners, Goes, waits, entry
<1> QED BY <1>1, <1>2

\* The issue stage keeps the result bus free for what is going to need it.
LEMMA BusFreeStep ==
    ASSUME Units, NEW x, NEW w, NEW a, Step(x, w, a)
    PROVE  BusFree'
<1>0. Ring /\ Types /\ Owners /\ BusFree /\ x \in Env /\ w.flush = flush_ex(x) /\ w.flu_ready = flu_ready(x)
  <2>1. Ring /\ Types /\ Owners /\ BusFree /\ x \in Env
    BY DEF Units, Step
  <2> QED BY <2>1, SignalFacts
<1>1. req.instr \in Instr
  BY <1>0 DEF Types
<1>2. /\ mul'.valid => ~w.flush /\ req.valid /\ req.instr.op = "MUL"
      /\ div'.st # "IDLE" => ~w.flush /\ ((req.valid /\ req.instr.op = "DIV") \/ div.st # "IDLE")
  BY UnitsNext
<1>3. mul'.valid => div'.st = "IDLE"
  <2> SUFFICES ASSUME mul'.valid PROVE div'.st = "IDLE"
    OBVIOUS
  <2>1. fu(req.instr) = "MULT"
    BY <1>1, <1>2, FuFacts
  <2>2. div.st = "IDLE"
    BY <1>0, <1>2, <2>1 DEF BusFree
  <2> QED BY <1>2, <2>2
<1>4. ASSUME req'.valid
      PROVE  /\ mul'.valid => fu(req'.instr) = "MULT"
             /\ div'.st # "IDLE" => fu(req'.instr) \in {"LOAD", "STORE"}
  <2>1. req' # NoReq
    BY <1>4 DEF NoReq
  <2>2. PICK i \in Instr : /\ issue_ack_o(i, w) /\ ~i.ex /\ fu(i) # "NONE"
                           /\ req' = [valid |-> TRUE, tid |-> sb.ip, instr |-> i]
    BY <1>0, <2>1, Sent
  <2>3. req'.instr = i
    BY <2>2
  <2>4. ~busReserved(i) /\ ~fu_busy(i, w)
    BY <2>2 DEF issue_ack_o
  <2>5. mul'.valid => fu(i) = "MULT"
    <3> SUFFICES ASSUME mul'.valid PROVE fu(i) = "MULT"
      OBVIOUS
    <3>1. starts("MULT")
      BY <1>1, <1>2, FuFacts DEF starts
    <3> QED BY <2>4, <3>1 DEF busReserved
  <2>6. div'.st # "IDLE" => fu(i) \in {"LOAD", "STORE"}
    <3> SUFFICES ASSUME div'.st # "IDLE" PROVE fu(i) \in {"LOAD", "STORE"}
      OBVIOUS
    <3>1. ~w.flu_ready
      BY <1>0, <1>2 DEF flu_ready, mult_ready, in_vld
    <3>2. fu(i) \notin {"ALU", "CTRL_FLOW", "CSR", "MULT"}
      BY <2>4, <3>1 DEF fu_busy
    <3> QED BY <2>2, <3>2, FuFacts
  <2> QED BY <2>3, <2>5, <2>6
<1> QED BY <1>3, <1>4 DEF BusFree

\* What waits stays in a unit: results are neither dropped nor sent nowhere.
LEMMA CoveredStep ==
    ASSUME Units, Covered, NEW x, NEW w, NEW a, Step(x, w, a)
    PROVE  Covered'
<1>0. Ring /\ Types /\ Owners /\ BusFree /\ x \in Env
  BY DEF Units, Step
<1> SUFFICES ASSUME NEW t \in TransId, sb'.mem[t].issued, ~sb'.mem[t].valid, fu(sb'.mem[t].instr) # "NONE"
             PROVE  inUnit(t)'
  BY DEF Covered, waits, entry
<1>1. Moved(w, a)
  BY <1>0, RingStep
<1>2. CASE ~Kept(w, t)
  <2>1. entering(w, a) /\ t = sb.ip
    BY <1>1, <1>2 DEF Moved
  <2>2. PICK i \in Instr : /\ a = {i} /\ sb'.mem[sb.ip].instr = i /\ sb'.mem[sb.ip].valid = i.ex
    BY <1>0, <2>1, Entered
  <2>3. ~i.ex /\ fu(i) # "NONE"
    BY <2>1, <2>2
  <2>4. req' = [valid |-> TRUE, tid |-> sb.ip, instr |-> i]
    BY <1>0, <2>1, <2>2, <2>3, Sent
  <2>5. req'.valid /\ req'.tid = t
    BY <2>1, <2>4
  <2> QED BY <2>5 DEF inUnit
<1>3. CASE Kept(w, t)
  <2>1. ~sb.mem[t].valid /\ ~hit(w, t) /\ sb.mem[t].issued /\ ~w.flush /\ sb'.mem[t].instr = sb.mem[t].instr
    BY <1>1, <1>3 DEF Moved, Kept
  <2>2. inUnit(t)
    BY <2>1 DEF Covered, waits, entry
  <2>3. ~completes(x, t)
    BY <2>1, ResultsArrive
  <2>4. CASE req.valid /\ req.tid = t
    <3>1. fu(req.instr) \in {"MULT", "LOAD", "STORE"}
      <4>1. req.instr \in Instr /\ req.instr = sb.mem[t].instr
        BY <1>0, <2>4 DEF Types, Owners, entry
      <4>2. fu(req.instr) \in {"CSR", "MULT", "LOAD", "STORE", "NONE", "ALU", "CTRL_FLOW"}
        BY <4>1, FuFacts
      <4> QED BY <2>1, <2>3, <2>4, <4>1, <4>2 DEF completes
    <3>2. CASE fu(req.instr) = "MULT"
      <4>1. req.instr.op \in {"MUL", "DIV"}
        BY <1>0, <3>2, FuFacts DEF Types
      <4>2. (mul'.valid /\ mul'.tid = t) \/ (div'.st # "IDLE" /\ div'.tid = t)
        BY <2>1, <2>4, <4>1, UnitsNext
      <4> QED BY <4>2 DEF inUnit
    <3>3. CASE fu(req.instr) \in {"LOAD", "STORE"}
      <4>1. t \in lsu'
        BY <2>1, <2>4, <3>3, UnitsNext
      <4> QED BY <4>1 DEF inUnit
    <3> QED BY <3>1, <3>2, <3>3
  <2>5. CASE div.st # "IDLE" /\ div.tid = t
    <3>1. ~out_vld(x)
      BY <2>3, <2>5 DEF completes
    <3>2. div'.st # "IDLE" /\ div'.tid = t
      BY <2>1, <2>5, <3>1, UnitsNext
    <3> QED BY <3>2 DEF inUnit
  <2>6. CASE t \in lsu
    <3>1. \A c \in x.st : c.tid # t
      BY <2>3 DEF completes
    <3>2. CASE \E c \in x.ld : c.tid = t
      <4>1. ldpipe'.valid /\ ldpipe'.tid = t
        BY <3>2, UnitsNext
      <4> QED BY <4>1 DEF inUnit
    <3>3. CASE \A c \in x.ld : c.tid # t
      <4>1. t \in lsu'
        BY <2>1, <2>6, <3>1, <3>3, UnitsNext
      <4> QED BY <4>1 DEF inUnit
    <3> QED BY <3>2, <3>3
  <2> QED BY <2>2, <2>3, <2>4, <2>5, <2>6 DEF inUnit, completes
<1> QED BY <1>2, <1>3

\* The unit that an entry waits for is the only one.
LEMMA OneUnit ==
    ASSUME Units, Covered
    PROVE  NothingLost
<1>0. Ring /\ Types /\ Owners
  BY DEF Units
<1> SUFFICES ASSUME NEW t \in TransId, waits(t), fu(sb.mem[t].instr) # "NONE"
             PROVE  Cardinality({u \in {"req", "mul", "div", "lsu", "ldpipe"} :
                        CASE u = "req"    -> req.valid /\ req.tid = t
                          [] u = "mul"    -> mul.valid /\ mul.tid = t
                          [] u = "div"    -> div.st # "IDLE" /\ div.tid = t
                          [] u = "lsu"    -> t \in lsu
                          [] u = "ldpipe" -> ldpipe.valid /\ ldpipe.tid = t}) = 1
  BY DEF NothingLost, waits, entry
<1> DEFINE P(u) == CASE u = "req"    -> req.valid /\ req.tid = t
                     [] u = "mul"    -> mul.valid /\ mul.tid = t
                     [] u = "div"    -> div.st # "IDLE" /\ div.tid = t
                     [] u = "lsu"    -> t \in lsu
                     [] u = "ldpipe" -> ldpipe.valid /\ ldpipe.tid = t
           U == {u \in {"req", "mul", "div", "lsu", "ldpipe"} : P(u)}
<1>1. /\ P("req") <=> req.valid /\ req.tid = t
      /\ P("mul") <=> mul.valid /\ mul.tid = t
      /\ P("div") <=> div.st # "IDLE" /\ div.tid = t
      /\ P("lsu") <=> t \in lsu
      /\ P("ldpipe") <=> ldpipe.valid /\ ldpipe.tid = t
  OBVIOUS
<1>2. P("req") \/ P("mul") \/ P("div") \/ P("lsu") \/ P("ldpipe")
  BY <1>1 DEF Covered, inUnit, entry
<1>3. sb.cnt # 0
  <2>1. sb.cp0 \in TransId /\ sb.cnt \in TransId
    BY <1>0 DEF Ring, SCB!SB, SCB!TransId, TransId
  <2> QED BY <1>0, <2>1, IssueAssumption DEF Ring, waits, Dist, TransId
<1>4. sb.mem[t].instr \in Instr
  BY <1>0 DEF Ring, SCB!SB, SCB!Entry, SCB!TransId, TransId
<1>5. /\ mul.valid /\ mul.tid = t => sb.mem[t].instr.op = "MUL" /\ fu(sb.mem[t].instr) = "MULT"
      /\ div.st # "IDLE" /\ div.tid = t => sb.mem[t].instr.op = "DIV" /\ fu(sb.mem[t].instr) = "MULT"
  BY <1>0, <1>4, FuFacts DEF Owners, entry
<1>6. /\ P("req") => ~P("mul") /\ ~P("div") /\ ~P("lsu") /\ ~P("ldpipe")
      /\ P("mul") => ~P("div") /\ ~P("lsu") /\ ~P("ldpipe")
      /\ P("div") => ~P("lsu") /\ ~P("ldpipe")
      /\ P("lsu") => ~P("ldpipe")
  <2> HIDE DEF P
  <2> QED BY <1>0, <1>1, <1>3, <1>5 DEF Owners, entry
<1> HIDE DEF P
<1>7. \E u : U = {u}
  BY <1>2, <1>6
<1>8. PICK u : U = {u}
  BY <1>7
<1>9. Cardinality(U) = 1
  BY <1>8, FS_Singleton
<1> QED BY <1>9 DEF P

-----------------------------------------------------------------------------
(* The CSR buffer.                                                         *)

\* The oldest of the accesses in flight is one that flushes the others.
OldestFlushes ==
    \E u \in TransId : /\ accesses(u) /\ flushes(u)
                       /\ \A v \in TransId : accesses(v) => Dist(sb.cp0, u) <= Dist(sb.cp0, v)

\* When the commit stage performs an access, it is the one on its port, and it
\* retires if it is not one of those that wait.
LEMMA CommitCsr ==
    ASSUME Ring, Marked, NEW x, NEW w, NEW a, Step(x, w, a), commit_csr_o(c0, commitIn(x))
    PROVE  sb.cp0 \in TransId /\ accesses(sb.cp0) /\ (~flushes(sb.cp0) => pops(w, sb.cp0))
<1>1. /\ c0 = sb.mem[sb.cp0] /\ c0 \in SCB!Entry /\ w.ack = num_commit(c0, c1, commitIn(x)) /\ x \in Env
  <2>1. x \in Env
    BY DEF Step
  <2> QED BY <2>1, SignalFacts
<1>2. sb.cp0 \in TransId
  BY DEF Ring, SCB!SB, SCB!TransId, TransId
<1>3. c0.instr \in Instr /\ c0.ex \in BOOLEAN /\ c0.valid \in BOOLEAN
  BY <1>1 DEF SCB!Entry
<1>4. c0.valid /\ ~c0.ex /\ fu(c0.instr) = "CSR" /\ (c0.instr.op = "CSRRW" => w.ack > 0)
  BY <1>1, <1>3, CommitFacts
<1>5. sb.mem[sb.cp0].issued
  BY <1>1, <1>2, <1>4 DEF Ring, entry
<1>6. ~c0.instr.ex
  BY <1>1, <1>2, <1>4, <1>5 DEF Marked, entry
<1> QED BY <1>1, <1>2, <1>4, <1>5, <1>6 DEF accesses, flushes, pops, entry

\* An access that flushes never retires without a flush.
LEMMA FlusherStays ==
    ASSUME Ring, NEW x, NEW w, NEW a, Step(x, w, a), ~w.flush, NEW u \in TransId, accesses(u), flushes(u)
    PROVE  Kept(w, u)
<1>1. /\ c0 = sb.mem[sb.cp0] /\ c1 = sb.mem[sb.cp1] /\ c0 \in SCB!Entry
      /\ w.ack = num_commit(c0, c1, commitIn(x)) /\ x \in Env /\ w.flush = flush_ex(x)
  <2>1. x \in Env
    BY DEF Step
  <2> QED BY <2>1, SignalFacts
<1>2. c0.instr \in Instr /\ c0.ex \in BOOLEAN /\ c0.valid \in BOOLEAN
  BY <1>1 DEF SCB!Entry
<1>3. /\ w.ack > 1 => fu(c1.instr) \in {"ALU", "LOAD", "CTRL_FLOW", "MULT"}
      /\ w.ack > 0 /\ fu(c0.instr) = "CSR" /\ c0.instr.op # "CSRRW" => w.flush
  BY <1>1, <1>2, CommitFacts
<1>4. ~pops(w, u)
  BY <1>1, <1>3 DEF pops, accesses, flushes, entry
<1> QED BY <1>4 DEF Kept, accesses, entry

\* The accesses in flight stay one, with the buffer, or behind a flush.
LEMMA CsrStep ==
    ASSUME Units, Marked, CsrInv, NEW x, NEW w, NEW a, Step(x, w, a)
    PROVE  CsrInv'
<1>0. /\ Ring /\ Types /\ Owners /\ x \in Env
      /\ sb.cp0 \in TransId /\ sb.cnt \in TransId /\ sb'.cp0 \in TransId
      /\ w.flush = flush_ex(x) /\ w.flu_ready = flu_ready(x) /\ w.ack \in 0 .. 2
  <2>1. Ring /\ Types /\ Owners /\ x \in Env
    BY DEF Units, Step
  <2>2. Ring'
    BY <2>1, RingStep
  <2> QED BY <2>1, <2>2, SignalFacts DEF Ring, SCB!SB, SCB!TransId, TransId
<1>1. Moved(w, a)
  BY <1>0, RingStep
<1>2. ASSUME NEW t \in TransId PROVE Dist(sb.cp0, t) \in Int /\ Dist(sb'.cp0, t) \in Int
  BY <1>0, IssueAssumption DEF Dist, TransId
<1>3. ASSUME NEW v \in TransId, accesses(v)'
      PROVE  /\ ~w.flush /\ (Kept(w, v) \/ (entering(w, a) /\ v = sb.ip))
             /\ Kept(w, v) => accesses(v)
  <2>1. sb'.mem[v].issued
    BY <1>3 DEF accesses, entry
  <2>2. Kept(w, v) \/ (entering(w, a) /\ v = sb.ip)
    BY <1>1, <2>1 DEF Moved
  <2>3. entering(w, a) => ~w.flush
    BY <1>0, Entered
  <2>4. Kept(w, v) => ~w.flush
    BY DEF Kept
  <2>5. Kept(w, v) => sb'.mem[v].instr = sb.mem[v].instr /\ sb.mem[v].issued
    BY <1>1 DEF Moved, Kept
  <2>6. Kept(w, v) => accesses(v)
    BY <1>3, <2>5 DEF accesses, entry
  <2> QED BY <2>2, <2>3, <2>4, <2>6
<1> SUFFICES ASSUME NEW t \in TransId, accesses(t)'
             PROVE  \/ /\ \A u \in TransId : accesses(u)' => u = t
                       /\ (req'.valid /\ req'.tid = t) \/ (csr'.valid /\ csr'.owner = t)
                    \/ OldestFlushes'
  BY DEF CsrInv, OldestFlushes
<1>4. ~w.flush
  BY <1>3
<1>5. CASE OldestFlushes
  <2>1. PICK u \in TransId : /\ accesses(u) /\ flushes(u)
                             /\ \A v \in TransId : accesses(v) => Dist(sb.cp0, u) <= Dist(sb.cp0, v)
    BY <1>5 DEF OldestFlushes
  <2>2. Kept(w, u)
    BY <1>0, <1>4, <2>1, FlusherStays
  <2>3. /\ sb'.mem[u].issued /\ sb'.mem[u].instr = sb.mem[u].instr
        /\ Dist(sb'.cp0, u) = Dist(sb.cp0, u) - w.ack
    BY <1>1, <2>2 DEF Moved
  <2>4. accesses(u)' /\ flushes(u)'
    BY <2>1, <2>3 DEF accesses, flushes, entry
  <2>5. ASSUME NEW v \in TransId, accesses(v)' PROVE Dist(sb'.cp0, u) <= Dist(sb'.cp0, v)
    <3>1. CASE Kept(w, v)
      <4>1. Dist(sb.cp0, u) <= Dist(sb.cp0, v)
        BY <1>3, <2>1, <2>5, <3>1
      <4>2. Dist(sb'.cp0, v) = Dist(sb.cp0, v) - w.ack
        BY <1>1, <3>1 DEF Moved
      <4> QED BY <1>0, <1>2, <2>3, <4>1, <4>2
    <3>2. CASE entering(w, a) /\ v = sb.ip
      <4>1. Dist(sb'.cp0, u) < Dist(sb'.cp0, v)
        BY <1>0, <2>2, <3>2, Entered
      <4> QED BY <1>2, <4>1
    <3> QED BY <1>3, <2>5, <3>1, <3>2
  <2>6. OldestFlushes'
    BY <2>4, <2>5 DEF OldestFlushes
  <2> QED BY <2>6
<1>6. CASE ~OldestFlushes
  <2>1. \A v \in TransId : accesses(v) =>
          /\ \A u \in TransId : accesses(u) => u = v
          /\ (req.valid /\ req.tid = v) \/ (csr.valid /\ csr.owner = v)
    BY <1>6 DEF CsrInv, OldestFlushes
  <2>2. ASSUME commit_csr_o(c0, commitIn(x)), NEW v \in TransId, accesses(v) PROVE ~Kept(w, v)
    <3>1. sb.cp0 \in TransId /\ accesses(sb.cp0) /\ (~flushes(sb.cp0) => pops(w, sb.cp0))
      BY <1>0, <2>2, CommitCsr
    <3>2. \A u \in TransId : accesses(u) => u = v
      BY <2>1, <2>2
    <3>3. v = sb.cp0
      BY <3>1, <3>2
    <3>4. ~flushes(v)
      BY <1>2, <1>6, <2>2, <3>2 DEF OldestFlushes
    <3> QED BY <3>1, <3>3, <3>4 DEF Kept
  <2>3. ASSUME starts("CSR") PROVE req.tid \in TransId /\ accesses(req.tid)
    BY <1>0, <2>3 DEF starts, Owners, Types, accesses, waits, entry
  <2>4. ASSUME NEW v \in TransId, accesses(v) PROVE csr.valid \/ starts("CSR")
    <3>1. req.valid /\ req.tid = v => starts("CSR")
      BY <1>0, <2>4 DEF starts, Owners, accesses, entry
    <3> QED BY <2>1, <2>4, <3>1
  <2>5. CASE entering(w, a) /\ \E v \in TransId : v = sb.ip /\ accesses(v)'
    <3>0. PICK n \in TransId : n = sb.ip /\ accesses(n)'
      BY <2>5
    <3>1. PICK i \in Instr : a = {i} /\ issue_ack_o(i, w) /\ sb'.mem[sb.ip].instr = i
      BY <1>0, <2>5, Entered
    <3>2. ~i.ex /\ fu(i) = "CSR"
      BY <3>0, <3>1 DEF accesses, entry
    <3>3. w.flu_ready
      BY <3>1, <3>2 DEF issue_ack_o, fu_busy
    <3>4. csr.valid \/ starts("CSR") => commit_csr_o(c0, commitIn(x))
      BY <1>0, <3>3 DEF flu_ready, csr_ready
    <3>5. ASSUME NEW v \in TransId, accesses(v)' PROVE v = sb.ip
      BY <1>3, <2>2, <2>4, <3>4, <3>5
    <3>6. req' = [valid |-> TRUE, tid |-> sb.ip, instr |-> i]
      BY <1>0, <2>5, <3>1, <3>2, Sent
    <3>7. req'.valid /\ req'.tid = sb.ip
      BY <3>6
    <3> QED BY <3>5, <3>7
  <2>6. CASE ~(entering(w, a) /\ \E v \in TransId : v = sb.ip /\ accesses(v)')
    <3>1. ASSUME NEW v \in TransId, accesses(v)' PROVE accesses(v) /\ Kept(w, v)
      BY <1>3, <2>6, <3>1
    <3>2. accesses(t) /\ Kept(w, t)
      BY <3>1
    <3>3. \A u \in TransId : accesses(u) => u = t
      BY <2>1, <3>2
    <3>4. \A u \in TransId : accesses(u)' => u = t
      BY <3>1, <3>3
    <3>5. ~commit_csr_o(c0, commitIn(x))
      BY <2>2, <3>2
    <3>6. csr'.valid = (starts("CSR") \/ csr.valid)
      <4>1. csr' = csr_next(x)
        BY DEF Step
      <4>2. csr'.valid = (~flush_ex(x) /\ (starts("CSR") \/ (csr.valid /\ ~commit_csr_o(c0, commitIn(x)))))
        BY <4>1 DEF csr_next
      <4>3. csr.valid \in BOOLEAN /\ starts("CSR") \in BOOLEAN
        BY <1>0 DEF Types, starts
      <4> QED BY <1>0, <1>4, <3>5, <4>2, <4>3
    <3>7. csr'.owner = IF starts("CSR") THEN req.tid ELSE csr.owner
      BY DEF Step, csr_next
    <3>8. csr'.valid
      BY <2>4, <3>2, <3>6
    <3>9. csr'.owner = t
      <4>1. CASE starts("CSR")
        BY <2>3, <3>3, <3>7, <4>1
      <4>2. CASE ~starts("CSR")
        <5>1. ~(req.valid /\ req.tid = t)
          BY <1>0, <3>2, <4>2 DEF starts, Owners, accesses, entry
        <5> QED BY <2>1, <3>2, <3>7, <4>2, <5>1
      <4> QED BY <4>1, <4>2
    <3> QED BY <3>4, <3>8, <3>9
  <2> QED BY <2>5, <2>6
<1> QED BY <1>5, <1>6

\* The access that commits finds its own address in the buffer.
LEMMA OwnAddress ==
    ASSUME Units, Marked, CsrInv
    PROVE  CsrAddressOwn
<1> SUFFICES ASSUME c0.valid, ~c0.ex, c0.instr.op = "CSRRW" PROVE csr.owner = sb.cp0
  BY DEF CsrAddressOwn
<1>0. Ring /\ Owners
  BY DEF Units
<1>1. c0 = sb.mem[sb.cp0]
  BY DEF c0, SCB!commit_instr_o
<1>2. sb.cp0 \in TransId /\ c0.instr \in Instr
  BY <1>0, <1>1 DEF Ring, SCB!SB, SCB!Entry, SCB!TransId, TransId
<1>3. sb.mem[sb.cp0].issued
  BY <1>0, <1>1, <1>2 DEF Ring, entry
<1>4. accesses(sb.cp0)
  BY <1>1, <1>2, <1>3, FuFacts DEF accesses, Marked, entry
<1>5. ~(req.valid /\ req.tid = sb.cp0)
  BY <1>0, <1>1 DEF Owners, waits, entry
<1>6. ~OldestFlushes
  <2> SUFFICES ASSUME NEW u \in TransId, accesses(u), flushes(u), Dist(sb.cp0, u) <= Dist(sb.cp0, sb.cp0)
               PROVE  FALSE
    BY <1>2, <1>4 DEF OldestFlushes
  <2>1. u = sb.cp0
    BY <1>2, IssueAssumption DEF Dist, TransId
  <2> QED BY <1>1, <2>1 DEF flushes, entry
<1> QED BY <1>2, <1>4, <1>5, <1>6 DEF CsrInv, OldestFlushes

-----------------------------------------------------------------------------
(* Operands.                                                               *)

\* TLB flushes name no address and no address space.
FlushesWholeTlb == \A i \in Instr : i.op = "SFENCE_VMA" => i.rs1 = 0 /\ i.rs2 = 0

\* As long as something is in flight, what is on the write-back ports waits.
LEMMA PortOwners ==
    ASSUME Units, NEW x, NEW w, NEW a, Step(x, w, a), sb.cnt # 0, NEW p \in w.wb
    PROVE  p.tid \in TransId /\ waits(p.tid) /\ p.port \in {1, 2, 3}
<1>0. Ring /\ Types /\ Owners /\ x \in Env
  BY DEF Units, Step
<1>1. w.wb = writeBacks(x)
  BY <1>0, SignalFacts
<1>2. p.port \in {1, 2, 3}
  BY <1>1 DEF writeBacks
<1>3. completes(x, p.tid)
  BY ResultsArrive DEF hit
<1>4. /\ req.tid \in TransId /\ mul.tid \in TransId /\ div.tid \in TransId /\ ldpipe.tid \in TransId
      /\ lsu \subseteq TransId
  BY <1>0 DEF Types
<1>5. \A s \in x.st : s.tid \in lsu
  BY <1>0, Completed
<1>6. out_vld(x) => div.st # "IDLE"
  BY DEF out_vld
<1> QED BY <1>0, <1>2, <1>3, <1>4, <1>5, <1>6 DEF completes, Owners

\* Entries that flush what is behind them stay until they do.
LEMMA KillerStays ==
    ASSUME Ring, NEW x, NEW w, NEW a, Step(x, w, a), ~w.flush, NEW d \in TransId, kills(d)
    PROVE  Kept(w, d) /\ kills(d)'
<1>1. /\ c0 = sb.mem[sb.cp0] /\ c1 = sb.mem[sb.cp1] /\ c0 \in SCB!Entry
      /\ w.ack = num_commit(c0, c1, commitIn(x)) /\ x \in Env /\ w.flush = flush_ex(x)
  <2>1. x \in Env
    BY DEF Step
  <2> QED BY <2>1, SignalFacts
<1>2. c0.instr \in Instr /\ c0.ex \in BOOLEAN /\ c0.valid \in BOOLEAN
  BY <1>1 DEF SCB!Entry
<1>3. /\ w.ack > 1 => fu(c1.instr) \in {"ALU", "LOAD", "CTRL_FLOW", "MULT"} /\ ~c1.ex
      /\ w.ack > 0 => ~c0.ex /\ (is_amo(c0.instr) => w.flush)
  BY <1>1, <1>2, CommitFacts
<1>4. is_amo(c1.instr) => fu(c1.instr) = "STORE"
  BY DEF is_amo, fu, FuOf
<1>5. ~pops(w, d)
  BY <1>1, <1>3, <1>4 DEF pops, kills, entry
<1>6. Kept(w, d)
  BY <1>5 DEF Kept, kills, entry
<1>7. Moved(w, a)
  BY RingStep
<1>8. /\ sb'.mem[d].issued /\ sb'.mem[d].instr = sb.mem[d].instr
      /\ sb'.mem[d].ex <=> sb.mem[d].ex \/ \E p \in w.wb : p.tid = d /\ p.ex
  BY <1>6, <1>7 DEF Moved
<1>9. kills(d)'
  BY <1>8 DEF kills, entry
<1> QED BY <1>6, <1>9

\* If nothing in flight flushes what is behind it, an instruction that is
\* issued reads what the program order says.
LEMMA ReadsRight ==
    ASSUME Units, Marked, UniqueWriter, GoodOrDoomed, FlushesWholeTlb,
           NEW x, NEW w, NEW a, Step(x, w, a), \A d \in TransId : ~kills(d),
           NEW i \in Instr, issue_ack_o(i, w), ~i.ex, NEW r \in {i.rs1, i.rs2} \ {0}
    PROVE  operandGood(r, i, w)
<1>0. /\ Ring /\ Types /\ sb.cp0 \in TransId /\ sb.cnt \in TransId
      /\ \A t \in TransId : sb.mem[t].instr \in Instr
  BY DEF Units, Ring, SCB!SB, SCB!Entry, SCB!TransId, TransId
<1>1. ~stall(i, w)
  BY IssueAssumption DEF issue_ack_o
<1>2. rd_clobber(r) = "NONE" \/ forward(r, i, w)
  BY <1>1 DEF stall
<1>3. ASSUME NEW t \in writers(r), NEW u \in writers(r) PROVE t = u
  <2>1. /\ t \in TransId /\ u \in TransId /\ sb.mem[t].issued /\ sb.mem[u].issued
        /\ sb.mem[t].instr.rd = r /\ sb.mem[u].instr.rd = r
    BY DEF writers
  <2>2. ~sb.mem[t].instr.ex /\ ~sb.mem[u].instr.ex
    BY <2>1 DEF Marked, kills, entry
  <2> QED BY <2>1, <2>2 DEF UniqueWriter
<1>4. CASE ~forward(r, i, w)
  <2>1. writers(r) = {}
    BY <1>0, <1>2, <1>4, ClobberNone
  <2> QED BY <1>4, <2>1 DEF operandGood
<1>5. CASE forward(r, i, w)
  <2>1. forwardable(r, i) /\ rs_valid(r, w)
    BY <1>5 DEF forward
  <2>2. rd_clobber(r) # "NONE" /\ rd_clobber(r) # "CSR"
    BY <2>1 DEF forwardable, FlushesWholeTlb
  <2>3. writers(r) # {}
    BY <2>2 DEF rd_clobber
  <2>4. Min(writers(r)) \in writers(r)
    BY <2>3, MinIndex DEF writers
  <2>5. PICK u \in writers(r) : u = Min(writers(r))
    BY <2>4
  <2>6. fu(sb.mem[u].instr) # "CSR"
    BY <2>2, <2>3, <2>5 DEF rd_clobber
  <2>7. u \in TransId /\ sb.mem[u].issued
    BY DEF writers
  <2>8. sb.cnt # 0
    BY <1>0, <2>7, IssueAssumption DEF Ring, Dist, TransId, entry
  <2>9. ASSUME NEW p \in portSources(r, w) PROVE p.tid = u /\ p.port \in {1, 2, 3}
    <3>1. p \in w.wb /\ sb.mem[p.tid].instr.rd = r
      BY DEF portSources
    <3>2. p.tid \in TransId /\ waits(p.tid) /\ p.port \in {1, 2, 3}
      BY <2>8, <3>1, PortOwners
    <3>3. p.tid \in writers(r)
      BY <3>1, <3>2 DEF writers, waits, entry
    <3> QED BY <1>3, <3>2, <3>3
  <2>10. source(r, w) = u
    <3>1. CASE portSources(r, w) # {}
      <4> DEFINE P == portSources(r, w)
      <4> HIDE DEF P
      <4>1. \A p \in P : p.tid = u /\ p.port \in {1, 2, 3}
        BY <2>9 DEF P
      <4>2. \E p \in P : \A q \in P : p.port <= q.port
        <5>1. CASE \E p \in P : p.port = 1
          BY <4>1, <5>1
        <5>2. CASE (\A p \in P : p.port # 1) /\ \E p \in P : p.port = 2
          BY <4>1, <5>2
        <5>3. CASE \A p \in P : p.port = 3
          BY <3>1, <5>3 DEF P
        <5> QED BY <4>1, <5>1, <5>2, <5>3
      <4>3. (CHOOSE p \in P : \A q \in P : p.port <= q.port) \in P
        BY <4>2
      <4>4. source(r, w) = (CHOOSE p \in P : \A q \in P : p.port <= q.port).tid
        BY <3>1 DEF source, P
      <4> QED BY <4>1, <4>3, <4>4
    <3>2. CASE portSources(r, w) = {}
      <4>1. entrySources(r) # {} /\ entrySources(r) \subseteq writers(r)
        BY <2>1, <3>2 DEF rs_valid, entrySources
      <4>2. Min(entrySources(r)) \in entrySources(r)
        BY <4>1, MinIndex DEF writers
      <4>3. source(r, w) = Min(entrySources(r))
        BY <3>2 DEF source
      <4> QED BY <1>3, <4>1, <4>2, <4>3
    <3> QED BY <3>1, <3>2
  <2>11. \A t \in writers(r) : Age(t) <= Age(u)
    <3>1. Age(u) \in Int
      BY <1>0, <2>7, IssueAssumption DEF Age, TransId
    <3> QED BY <1>3, <3>1
  <2>12. ~is_amo(sb.mem[u].instr) /\ good[u]
    BY <2>7 DEF kills, GoodOrDoomed, entry
  <2> DEFINE s == source(r, w)
  <2>13. operandGood(r, i, w) = ( /\ s \in writers(r) /\ \A t \in writers(r) : Age(t) <= Age(s)
                                  /\ fu(sb.mem[s].instr) # "CSR" /\ ~is_amo(sb.mem[s].instr)
                                  /\ good[s])
    BY <1>5 DEF operandGood
  <2> QED BY <2>5, <2>6, <2>10, <2>11, <2>12, <2>13
<1> QED BY <1>4, <1>5

\* Operands are right, or their reader is going to be flushed.
LEMMA GoodStep ==
    ASSUME Units, Marked, UniqueWriter, GoodOrDoomed, FlushesWholeTlb, NEW x, NEW w, NEW a, Step(x, w, a)
    PROVE  GoodOrDoomed'
<1>0. /\ Ring /\ Types /\ x \in Env /\ sb.cp0 \in TransId /\ sb'.cp0 \in TransId
      /\ w.ack \in 0 .. 2 /\ w.flush_unissued = flush_unissued(x) /\ w.mispredict = x.mispredict
  <2>1. Ring /\ Types /\ x \in Env
    BY DEF Units, Step
  <2>2. Ring'
    BY <2>1, RingStep
  <2> QED BY <2>1, <2>2, SignalFacts DEF Ring, SCB!SB, SCB!TransId, TransId
<1>1. Moved(w, a)
  BY <1>0, RingStep
<1>2. ASSUME NEW t \in TransId PROVE Dist(sb.cp0, t) \in Int /\ Dist(sb'.cp0, t) \in Int
  BY <1>0, IssueAssumption DEF Dist, TransId
<1> SUFFICES ASSUME NEW t \in TransId, sb'.mem[t].issued
             PROVE  good'[t] \/ \E d \in TransId : kills(d)' /\ Dist(sb'.cp0, d) < Dist(sb'.cp0, t)
  BY DEF GoodOrDoomed, entry
<1>3. Kept(w, t) \/ (entering(w, a) /\ t = sb.ip)
  BY <1>1 DEF Moved
<1>4. CASE Kept(w, t)
  <2>1. sb.mem[t].issued /\ ~w.flush /\ Dist(sb'.cp0, t) = Dist(sb.cp0, t) - w.ack
    BY <1>1, <1>4 DEF Moved, Kept
  <2>2. CASE good[t]
    <3>1. ~(issuedOf(w, a) # {} /\ t = sb.ip)
      <4>1. issuedOf(w, a) # {} => entering(w, a)
        BY DEF issuedOf, entering
      <4> QED BY <1>0, <2>1, <4>1, Entered
    <3>2. good'[t] = good[t]
      BY <3>1 DEF Step
    <3> QED BY <2>2, <3>2
  <2>3. CASE ~good[t]
    <3>1. PICK d \in TransId : kills(d) /\ Dist(sb.cp0, d) < Dist(sb.cp0, t)
      BY <2>1, <2>3 DEF GoodOrDoomed, entry
    <3>2. Kept(w, d) /\ kills(d)'
      BY <1>0, <2>1, <3>1, KillerStays
    <3>3. Dist(sb'.cp0, d) = Dist(sb.cp0, d) - w.ack
      BY <1>1, <3>2 DEF Moved
    <3>4. Dist(sb'.cp0, d) < Dist(sb'.cp0, t)
      BY <1>0, <1>2, <2>1, <3>1, <3>3
    <3> QED BY <3>2, <3>4
  <2> QED BY <2>2, <2>3
<1>5. CASE entering(w, a) /\ t = sb.ip
  <2>1. PICK i \in Instr : /\ a = {i} /\ issue_ack_o(i, w) /\ issuedOf(w, a) = {i} /\ ~w.flush
                           /\ \A u \in TransId : Kept(w, u) => Dist(sb'.cp0, u) < Dist(sb'.cp0, sb.ip)
    BY <1>0, <1>5, Entered
  <2>2. CASE \E d \in TransId : kills(d)
    <3>1. PICK d \in TransId : kills(d)
      BY <2>2
    <3>2. Kept(w, d) /\ kills(d)'
      BY <1>0, <2>1, <3>1, KillerStays
    <3> QED BY <1>5, <2>1, <3>2
  <2>3. CASE \A d \in TransId : ~kills(d)
    <3>1. ~w.mispredict
      BY <1>0, <1>5 DEF entering, flush_unissued, flush_unissued_instr_o, controllerIn
    <3>2. ~i.ex => \A r \in {i.rs1, i.rs2} \ {0} : operandGood(r, i, w)
      BY <2>1, <2>3, ReadsRight
    <3> DEFINE j == CHOOSE j \in issuedOf(w, a) : TRUE
    <3>3. j = i
      BY <2>1
    <3>4. issuedOf(w, a) # {}
      BY <2>1
    <3>5. good'[t] = (j.ex \/ ( /\ ~w.mispredict
                                /\ \A r \in {j.rs1, j.rs2} \ {0} : operandGood(r, j, w)))
      <4>1. good' = [u \in TransId |->
                      IF issuedOf(w, a) # {} /\ u = sb.ip
                      THEN j.ex \/ ( /\ ~w.mispredict
                                     /\ \A r \in {j.rs1, j.rs2} \ {0} : operandGood(r, j, w))
                      ELSE good[u]]
        BY Zenon DEF Step
      <4> HIDE DEF j
      <4> QED BY <1>5, <3>4, <4>1, Zenon
    <3> HIDE DEF j
    <3>6. i.ex \in BOOLEAN
      BY IssueAssumption
    <3>7. i.ex \/ ( /\ ~w.mispredict
                    /\ \A r \in {i.rs1, i.rs2} \ {0} : operandGood(r, i, w))
      BY <3>1, <3>2, <3>6
    <3> QED BY <3>3, <3>5, <3>7
  <2> QED BY <2>2, <2>3
<1> QED BY <1>3, <1>4, <1>5

\* What retires is not doomed.
LEMMA RetiresGood ==
    ASSUME Ring, GoodOrDoomed
    PROVE  OperandsCorrect
<1> SUFFICES ASSUME NEW x \in Env
             PROVE  LET n == num_commit(c0, c1, commitIn(x))
                    IN  (n > 0 => good[sb.cp0]) /\ (n > 1 => good[sb.cp1])
  BY DEF OperandsCorrect
<1> DEFINE n == num_commit(c0, c1, commitIn(x))
<1>1. c0 = sb.mem[sb.cp0] /\ c1 = sb.mem[sb.cp1]
  BY DEF c0, c1, SCB!commit_instr_o
<1>2. /\ sb.cp0 \in TransId /\ sb.cp1 \in TransId /\ sb.cnt \in TransId
      /\ \A t \in TransId : sb.mem[t] \in SCB!Entry
  BY DEF Ring, SCB!SB, SCB!TransId, TransId
<1>3. c0.instr \in Instr /\ c0.ex \in BOOLEAN /\ c0.valid \in BOOLEAN
  BY <1>1, <1>2 DEF SCB!Entry
<1>4. /\ n > 0 => c0.valid /\ ~c0.ex
      /\ n > 1 => c1.valid /\ ~is_amo(c0.instr)
      /\ n \in 0 .. 2
  BY <1>3, CommitFacts
<1> HIDE DEF n
<1>5. ASSUME n > 0 PROVE good[sb.cp0]
  <2>1. sb.mem[sb.cp0].issued
    BY <1>1, <1>2, <1>4, <1>5 DEF Ring, entry
  <2>2. \A d \in TransId : ~(Dist(sb.cp0, d) < Dist(sb.cp0, sb.cp0))
    BY <1>2, IssueAssumption DEF Dist, TransId
  <2> QED BY <1>2, <2>1, <2>2 DEF GoodOrDoomed, entry
<1>6. ASSUME n > 1 PROVE good[sb.cp1]
  <2>1. sb.mem[sb.cp1].issued
    BY <1>1, <1>2, <1>4, <1>6 DEF Ring, entry
  <2>2. sb.cnt # 0
    BY <1>2, <2>1, IssueAssumption DEF Ring, Dist, TransId, entry
  <2>3. sb.cp1 = SCB!At(sb.cp0, 1)
    BY <2>2 DEF Ring
  <2>4. \A d \in TransId : Dist(sb.cp0, d) < Dist(sb.cp0, sb.cp1) => d = sb.cp0
    BY <1>2, <2>3, IssueAssumption DEF Dist, TransId, SCB!At
  <2>5. ~kills(sb.cp0)
    BY <1>1, <1>4, <1>6 DEF kills, entry
  <2> QED BY <1>2, <2>1, <2>4, <2>5 DEF GoodOrDoomed, entry
<1> QED BY <1>5, <1>6 DEF n

-----------------------------------------------------------------------------
(* The theorems.                                                           *)

\* After reset nothing is in flight.
LEMMA InitInv ==
    ASSUME Init
    PROVE  IInv /\ GoodOrDoomed
<1>1. \A t \in TransId : sb.mem[t] = SCB!NullEntry
  BY DEF Init, SCB!sb_reset, SCB!TransId, TransId
<1>2. SCB!NullEntry \in SCB!Entry /\ ~SCB!NullEntry.issued /\ ~SCB!NullEntry.valid
  BY IssueAssumption DEF SCB!NullEntry, SCB!Entry
<1>3. 0 \in TransId
  BY IssueAssumption DEF TransId
<1>4. sb.cnt = 0 /\ sb.ip = 0 /\ sb.cp0 = 0 /\ sb.cp1 = 0
  BY DEF Init, SCB!sb_reset
<1>5. \A t \in TransId : ~sb.mem[t].issued /\ ~sb.mem[t].valid
  BY <1>1, <1>2
<1>6. Ring
  <2>1. sb \in SCB!SB
    BY <1>2, <1>3 DEF Init, SCB!sb_reset, SCB!SB, SCB!TransId, TransId
  <2>2. SCB!At(0, 0) = 0 /\ \A t \in TransId : ~(Dist(0, t) < 0)
    BY IssueAssumption DEF SCB!At, Dist, TransId
  <2> QED BY <1>4, <1>5, <2>1, <2>2 DEF Ring, entry
<1>7. Types
  BY <1>3, IssueAssumption DEF Init, Types, NoReq, NoResult
<1>8. Owners /\ BusFree
  BY DEF Init, NoReq, NoResult, Owners, BusFree
<1>9. Marked /\ Covered /\ UniqueWriter /\ CsrInv /\ GoodOrDoomed
  BY <1>5 DEF Marked, Covered, UniqueWriter, CsrInv, GoodOrDoomed, waits, accesses, entry
<1> QED BY <1>6, <1>7, <1>8, <1>9 DEF IInv

\* Every cycle preserves the invariant.
LEMMA StepInv ==
    ASSUME IInv, [Next]_vars
    PROVE  IInv'
<1>1. CASE Next
  <2>1. PICK x, w, a : Step(x, w, a)
    BY <1>1, NextIsStep
  <2>2. Ring /\ Marked /\ Types /\ Owners /\ BusFree /\ Covered /\ UniqueWriter /\ CsrInv /\ Units
    BY DEF IInv, Units
  <2>3. Ring' /\ Marked' /\ Types'
    BY <2>1, <2>2, RingStep, MarkedStep, TypesStep
  <2>4. Owners' /\ BusFree' /\ Covered'
    BY <2>1, <2>2, OwnersStep, BusFreeStep, CoveredStep
  <2>5. UniqueWriter' /\ CsrInv'
    BY <2>1, <2>2, UniqueStep, CsrStep
  <2> QED BY <2>3, <2>4, <2>5 DEF IInv
<1>2. CASE UNCHANGED vars
  <2>1. /\ sb' = sb /\ req' = req /\ csr' = csr /\ mul' = mul /\ div' = div /\ lsu' = lsu
        /\ ldpipe' = ldpipe /\ good' = good
    BY <1>2 DEF vars
  <2>2. Ring' /\ Marked' /\ Types' /\ Owners' /\ BusFree'
    BY <2>1 DEF IInv, Ring, Marked, Types, Owners, BusFree, entry, waits
  <2>3. Covered' /\ UniqueWriter'
    BY <2>1 DEF IInv, Covered, UniqueWriter, inUnit, entry, waits
  <2>4. CsrInv'
    BY <2>1, Zenon DEF IInv, CsrInv, accesses, flushes, entry
  <2> QED BY <2>2, <2>3, <2>4 DEF IInv
<1> QED BY <1>1, <1>2

\* And, with it, what is known about operands.
LEMMA StepGood ==
    ASSUME IInv, GoodOrDoomed, FlushesWholeTlb, [Next]_vars
    PROVE  GoodOrDoomed'
<1>1. CASE Next
  <2>1. PICK x, w, a : Step(x, w, a)
    BY <1>1, NextIsStep
  <2>2. Marked /\ UniqueWriter /\ Units
    BY DEF IInv, Units
  <2> QED BY <2>1, <2>2, GoodStep
<1>2. CASE UNCHANGED vars
  BY <1>2, Zenon DEF vars, GoodOrDoomed, kills, entry
<1> QED BY <1>1, <1>2

\* The invariant of the issue stage holds in every reachable state.
LEMMA InvHolds == Spec => []IInv
<1>1. Init => IInv
  BY InitInv
<1>2. IInv /\ [Next]_vars => IInv'
  BY StepInv
<1> QED BY <1>1, <1>2, PTL DEF Spec

\* At most one instruction in flight writes a register (waw_free and the
\* clobber logic of scoreboard.sv), for scoreboards of any size.
THEOREM OneWriter == Spec => []UniqueWriter
<1>1. IInv => UniqueWriter
  BY DEF IInv
<1> QED BY <1>1, InvHolds, PTL

\* No result collides on the bus of the fixed latency unit or is lost on the
\* way through the load/store unit: what waits is in exactly one unit.
THEOREM NoResultLost == Spec => []NothingLost
<1>1. IInv => NothingLost
  BY OneUnit DEF IInv, Units
<1> QED BY <1>1, InvHolds, PTL

\* A CSR access commits with its own address in the buffer of csr_buffer.sv.
THEOREM OwnCsrAddress == Spec => []CsrAddressOwn
<1>1. IInv => CsrAddressOwn
  BY OwnAddress DEF IInv, Units
<1> QED BY <1>1, InvHolds, PTL

\* Whatever retires has read the operands of the program order, provided that
\* TLB flushes read no register: those are given results of CSR accesses that
\* are not known yet (the run IssueTlbFlush).
THEOREM OperandsRight == FlushesWholeTlb => (Spec => []OperandsCorrect)
<1> SUFFICES ASSUME FlushesWholeTlb PROVE Spec => []OperandsCorrect
  OBVIOUS
<1>1. Init => IInv /\ GoodOrDoomed
  BY InitInv
<1>2. IInv /\ GoodOrDoomed /\ [Next]_vars => IInv' /\ GoodOrDoomed'
  BY StepInv, StepGood
<1>3. IInv /\ GoodOrDoomed => OperandsCorrect
  BY RetiresGood DEF IInv
<1> QED BY <1>1, <1>2, <1>3, PTL DEF Spec
=============================================================================
