----------------------------- MODULE Mmu_proofs -----------------------------
(***************************************************************************)
(* Proofs about address translation, for all sets of pages, all histories  *)
(* of the page tables, all sizes of the TLBs and all flushes and fences.   *)
(***************************************************************************)
EXTENDS Mmu, TLAPS

-----------------------------------------------------------------------------
(* The inductive invariant.                                                *)

States ==
    {"IDLE", "WAIT_GRANT", "PTE_LOOKUP", "WAIT_RVALID", "PROPAGATE_ERROR", "PROPAGATE_ACCESS_ERROR"}

\* What the steps below need to know of the types.
Shape ==
    /\ DOMAIN walker = {"state", "lvl", "instr", "page", "ppn"}
    /\ walker.state \in States /\ walker.lvl \in Level /\ walker.instr \in BOOLEAN
    /\ DOMAIN port = {"busy", "addr", "sees", "late", "astray"}

\* At most one read is on its way.  The walker that waits for an answer has
\* asked for it, or is about to get a crossed one; what else is on its way is
\* astray.
OneRead ==
    /\ port.astray => port.busy
    /\ walker.state = "PTE_LOOKUP" =>
         \/ port.busy /\ ~port.late /\ ~port.astray /\ port.addr = pptr /\ ~answer.valid
         \/ ~port.busy /\ answer.valid /\ own
         \/ port.busy /\ port.astray /\ answer.valid /\ answer.crossed
    /\ walker.state = "WAIT_RVALID" =>
         \/ port.busy /\ ~port.astray /\ ~answer.valid
         \/ (port.busy => port.astray) /\ answer.valid
    /\ walker.state \notin {"PTE_LOOKUP", "WAIT_RVALID"} /\ port.busy => port.astray

\* A read that no flush has hit sees nothing older than the last fence, for
\* whichever page, and neither does its answer.
ReadsFresh ==
    /\ \A p \in Page : pt \in since[p]
    /\ port.busy /\ ~port.late => \A p \in Page : port.sees \subseteq since[p]
    /\ answer.valid /\ ~answer.late =>
         \A p \in Page : \E t \in since[p] : answer.pte = tables[t][answer.addr]

\* The page agrees with that of the walk in all levels that have been read.
sameWay(page) == \A l \in 1 .. walker.lvl - 1 : page[l] = walker.page[l]

\* The walker is where a walk with the page tables since the last fence can be,
\* for all pages that its entry will cover.
WalkFresh ==
    walker.state \in {"WAIT_GRANT", "PTE_LOOKUP"} =>
        \A p \in Page \ misread : sameWay(p) => walker.ppn \in places(p, tablesSince(p), walker.lvl)

EntryLevels == \A e \in itlb \union dtlb : e.lvl \in Level

\* The walker walks, or reports a fault.
busy == walker.state \in {"WAIT_GRANT", "PTE_LOOKUP", "PROPAGATE_ERROR", "PROPAGATE_ACCESS_ERROR"}

Requests ==
    /\ hist \in DOMAIN Scenarios
    /\ fetch \in [on : BOOLEAN, page : Page \union {NoFetch.page}]
    /\ fetch.on => fetch.page \in Page
    /\ dreq \in [st : {"none", "request", "wait", "abort"}, page : Page \union {NoReq.page},
                 store : BOOLEAN, mis : BOOLEAN]
    /\ dreq.st # "none" => dreq.page \in Page
    /\ dreq.st = "abort" => ~dreq.store

\* The request that a walk was started for waits for it.
WalkWanted ==
    /\ busy /\ walker.instr => fetch.on /\ en.i /\ ~itlb_hit /\ fetch.page = walker.page
    /\ busy /\ ~walker.instr /\ ~doomed =>
         dreq.st # "none" /\ en.d /\ ~dtlb_hit /\ dreq.page = walker.page

\* The page tables justify the fault that the walker reports.
FaultJustified ==
    raises /\ walker.page \notin misread =>
        /\ walker.instr => faults(walker.page, TRUE, FALSE)
        /\ ~walker.instr /\ ~doomed => faults(walker.page, FALSE, dreq.store)

ReadInv == Shape /\ OneRead

FreshInv == ReadsFresh /\ WalkFresh /\ EntryLevels /\ TlbFresh

FaultInv == Requests /\ WalkWanted /\ FaultJustified

-----------------------------------------------------------------------------
(* Facts about the walk.                                                   *)

\* What a page table entry can mean.
LEMMA ResultCases ==
  ASSUME NEW pte, NEW w, NEW store
  PROVE  /\ result(pte, w, store) \in {"access", "fault", "leaf", "pointer"}
         /\ result(pte, w, store) = "pointer" => w.lvl # 3
BY DEF result

\* Where an entry takes the walk.
LEMMA AfterLook ==
  ASSUME Shape
  PROVE  \/ /\ result(answer.pte, walker, store_i) = "access"
            /\ afterLook = [walker EXCEPT !.state = "PROPAGATE_ACCESS_ERROR"]
         \/ /\ result(answer.pte, walker, store_i) = "fault"
            /\ afterLook = [walker EXCEPT !.state = "PROPAGATE_ERROR"]
         \/ /\ result(answer.pte, walker, store_i) = "leaf"
            /\ afterLook = NoWalk
         \/ /\ result(answer.pte, walker, store_i) = "pointer" /\ walker.lvl \in {1, 2}
            /\ afterLook = [walker EXCEPT !.state = "WAIT_GRANT", !.lvl = walker.lvl + 1, !.ppn = answer.pte.ppn]
<1>1. result(answer.pte, walker, store_i) \in {"access", "fault", "leaf", "pointer"}
  BY ResultCases
<1>2. result(answer.pte, walker, store_i) = "pointer" => walker.lvl \in {1, 2}
  BY ResultCases DEF Shape, Level
<1> HIDE DEF store_i
<1> QED BY <1>1, <1>2 DEF afterLook

\* The inputs of a cycle.
LEMMA EnvFacts ==
  ASSUME NEW x \in Env
  PROVE  /\ x.gnt \in BOOLEAN /\ x.answered \in BOOLEAN /\ x.flush \in BOOLEAN /\ x.taken \in BOOLEAN
         /\ x.fence \in Fences
         /\ x.gnt => walker.state = "WAIT_GRANT" /\ (port.busy => x.answered)
         /\ x.answered => port.busy
         /\ x.taken => fetch_valid
         /\ x.fence # {} => x.flush
BY DEF Env

\* The walker after a cycle, by the state it is in.
LEMMA WalkerStep ==
  ASSUME Shape, NEW x \in Env, Cycle(x)
  PROVE  /\ x.flush => walker' = afterFlush(x.gnt)
         /\ ~x.flush =>
              /\ walker.state = "IDLE" => walker' = start
              /\ walker.state = "WAIT_GRANT" =>
                   walker' = IF x.gnt THEN [walker EXCEPT !.state = "PTE_LOOKUP"] ELSE walker
              /\ walker.state = "PTE_LOOKUP" => walker' = IF answer.valid THEN afterLook ELSE walker
              /\ walker.state = "WAIT_RVALID" => walker' = IF answer.valid THEN NoWalk ELSE walker
              /\ raises => walker' = NoWalk
<1>1. walker' = IF x.flush THEN afterFlush(x.gnt) ELSE ptw_step(x.gnt)
  BY DEF Cycle, ptw_next
<1>2. walker.state \in States
  BY DEF Shape
<1>3. CASE x.flush
  BY <1>1, <1>3
<1>4. CASE ~x.flush
  <2>1. walker' = ptw_step(x.gnt)
    BY <1>1, <1>4
  <2> QED BY <1>2, <1>4, <2>1 DEF ptw_step, States, raises
<1> QED BY <1>3, <1>4

\* A walk that starts.
LEMMA Start ==
  \/ start = NoWalk
  \/ /\ start = begin(fetch.page, TRUE)
     /\ en.i /\ fetch.on /\ ~itlb_hit
  \/ /\ start = begin(dreq.page, FALSE)
     /\ en.d /\ dtlb_access /\ ~dtlb_hit
BY DEF start

\* The walker after a flush.
LEMMA AfterFlush ==
  ASSUME NEW gnt
  PROVE  /\ afterFlush(gnt) \in {NoWalk, [NoWalk EXCEPT !.state = "WAIT_RVALID"]}
         /\ afterFlush(gnt).state \in {"IDLE", "WAIT_RVALID"}
         /\ afterFlush(gnt).state = "WAIT_RVALID"
              <=> (walker.state = "PTE_LOOKUP" /\ ~answer.valid) \/ (walker.state = "WAIT_GRANT" /\ gnt)
BY DEF afterFlush, NoWalk

-----------------------------------------------------------------------------
(* The walker looks only at answers to its own reads.                      *)

\* The types are preserved.
LEMMA ShapeStep ==
  ASSUME Shape, NEW x \in Env, Cycle(x)
  PROVE  Shape'
<1>1. DOMAIN port' = {"busy", "addr", "sees", "late", "astray"}
  BY DEF Cycle, port_next, NoRead, Shape
<1> DEFINE Typed(w) == /\ DOMAIN w = {"state", "lvl", "instr", "page", "ppn"}
                       /\ w.state \in States /\ w.lvl \in Level /\ w.instr \in BOOLEAN
<1>2. Typed(NoWalk) /\ Typed([NoWalk EXCEPT !.state = "WAIT_RVALID"])
  BY DEF NoWalk, States, Level
<1>3. \A p : Typed(begin(p, TRUE)) /\ Typed(begin(p, FALSE))
  BY DEF begin, States, Level
<1>4. Typed(walker) /\ \A st \in States : Typed([walker EXCEPT !.state = st])
  BY DEF Shape
<1>5. Typed(afterLook)
  <2>1. walker.lvl \in {1, 2} =>
          Typed([walker EXCEPT !.state = "WAIT_GRANT", !.lvl = walker.lvl + 1, !.ppn = answer.pte.ppn])
    BY <1>4 DEF States, Level
  <2> HIDE DEF Typed
  <2> QED BY <1>2, <1>4, <2>1, AfterLook DEF States
<1> HIDE DEF Typed
<1>6. Typed(walker')
  <2>1. CASE x.flush
    BY <1>2, <2>1, WalkerStep, AfterFlush
  <2>2. CASE ~x.flush
    <3>1. Typed(start)
      BY <1>2, <1>3, Start
    <3>2. Typed([walker EXCEPT !.state = "PTE_LOOKUP"])
      BY <1>4 DEF States
    <3> QED BY <1>2, <1>4, <1>5, <2>2, <3>1, <3>2, WalkerStep DEF Shape, States, raises
  <2> QED BY <2>1, <2>2
<1> QED BY <1>1, <1>6 DEF Shape, Typed

\* The port and the answer after a cycle.
LEMMA PortStep ==
  ASSUME Shape, NEW x \in Env, Cycle(x)
  PROVE  /\ x.gnt => /\ port'.busy /\ port'.addr = pptr /\ port'.sees = {pt}
                     /\ port'.late = x.flush /\ port'.astray = port.astray
         /\ ~x.gnt /\ x.answered => ~port'.busy /\ ~port'.astray
         /\ ~x.gnt /\ ~x.answered =>
              /\ port'.busy = port.busy /\ port'.addr = port.addr /\ port'.sees = port.sees
              /\ port'.late <=> port.busy /\ (port.late \/ x.flush)
              /\ port'.astray <=> port.astray \/ (port.busy /\ x.flush /\ walker.state = "WAIT_RVALID")
         /\ x.answered => /\ answer'.valid /\ answer'.addr = port.addr
                          /\ answer'.late <=> port.late \/ x.flush
                          /\ answer'.crossed <=> x.gnt /\ port.astray
                          /\ \E t \in port.sees : answer'.pte = tables[t][port.addr]
         /\ ~x.answered => ~answer'.valid
<1>1. port' = port_next(x.gnt, x.answered, x.flush)
  BY DEF Cycle
<1>2. /\ x.gnt => /\ port'.busy /\ port'.addr = pptr /\ port'.sees = {pt}
                  /\ port'.late = x.flush /\ port'.astray = port.astray
      /\ ~x.gnt /\ x.answered => ~port'.busy /\ ~port'.astray
  BY <1>1 DEF port_next, NoRead
<1>3. ASSUME ~x.gnt, ~x.answered
      PROVE  /\ port'.busy = port.busy /\ port'.addr = port.addr /\ port'.sees = port.sees
             /\ port'.late <=> port.busy /\ (port.late \/ x.flush)
             /\ port'.astray <=> port.astray \/ (port.busy /\ x.flush /\ walker.state = "WAIT_RVALID")
  <2> DEFINE late == port.busy /\ (port.late \/ x.flush)
             astray == port.astray \/ (port.busy /\ x.flush /\ walker.state = "WAIT_RVALID")
  <2>1. port' = [port EXCEPT !.late = late, !.astray = astray]
    BY <1>1, <1>3 DEF port_next
  <2> HIDE DEF late, astray
  <2>2. /\ port'.busy = port.busy /\ port'.addr = port.addr /\ port'.sees = port.sees
        /\ port'.late = late /\ port'.astray = astray
    BY <2>1 DEF Shape
  <2> QED BY <2>2 DEF late, astray
<1>4. ~x.answered => ~answer'.valid
  BY DEF Cycle, NoAnswer
<1>5. ASSUME x.answered
      PROVE  /\ answer'.valid /\ answer'.addr = port.addr
             /\ answer'.late <=> port.late \/ x.flush
             /\ answer'.crossed <=> x.gnt /\ port.astray
             /\ \E t \in port.sees : answer'.pte = tables[t][port.addr]
  <2> DEFINE late == port.late \/ x.flush
             crossed == x.gnt /\ port.astray
  <2>1. PICK t \in port.sees :
           answer' = [valid |-> TRUE, addr |-> port.addr, pte |-> tables[t][port.addr],
                      late |-> late, crossed |-> crossed]
    BY <1>5 DEF Cycle
  <2> HIDE DEF late, crossed
  <2>2. /\ answer'.valid /\ answer'.addr = port.addr /\ answer'.late = late /\ answer'.crossed = crossed
        /\ answer'.pte = tables[t][port.addr]
    BY <2>1
  <2> QED BY <2>2 DEF late, crossed
<1> QED BY <1>2, <1>3, <1>4, <1>5

\* A read that is astray stays so until it is answered, if no other is granted.
LEMMA StaysAstray ==
  ASSUME ReadInv, NEW x \in Env, Cycle(x), ~x.gnt, port.busy => port.astray
  PROVE  port'.busy <=> port'.astray
<1>1. port.astray <=> port.busy
  BY DEF ReadInv, OneRead
<1> QED BY <1>1, PortStep DEF ReadInv

\* A cycle keeps the reads in order.
LEMMA OneReadStep ==
  ASSUME ReadInv, NEW x \in Env, Cycle(x)
  PROVE  OneRead'
<1>1. Shape /\ OneRead
  BY DEF ReadInv
<1>2. CASE walker.state = "IDLE" \/ raises
  <2>1. port'.busy <=> port'.astray
    BY <1>1, <1>2, StaysAstray, EnvFacts DEF OneRead, raises
  <2>2. walker'.state \in {"IDLE", "WAIT_GRANT"}
    <3>1. start.state \in {"IDLE", "WAIT_GRANT"} /\ NoWalk.state = "IDLE"
      BY Start DEF NoWalk, begin
    <3>2. x.flush => walker'.state = "IDLE"
      BY <1>1, <1>2, WalkerStep, AfterFlush DEF raises
    <3> QED BY <1>1, <1>2, <3>1, <3>2, WalkerStep
  <2> QED BY <2>1, <2>2 DEF OneRead
<1>3. CASE walker.state = "WAIT_GRANT" /\ x.gnt
  <2>1. port.busy <=> port.astray
    BY <1>1, <1>3 DEF OneRead
  <2>2. port.busy <=> x.answered
    BY <1>3, EnvFacts
  <2>3. port'.busy /\ port'.addr = pptr /\ (port'.late <=> x.flush) /\ (port'.astray <=> x.answered)
    BY <1>1, <1>3, <2>1, <2>2, PortStep
  <2>4. answer'.valid <=> x.answered
    BY <1>1, PortStep
  <2>5. answer'.valid => answer'.crossed
    BY <1>1, <1>3, <2>1, <2>2, <2>4, PortStep
  <2>6. CASE x.flush
    <3>1. walker'.state = "WAIT_RVALID"
      BY <1>1, <1>3, <2>6, WalkerStep, AfterFlush
    <3> QED BY <2>3, <2>4, <3>1 DEF OneRead
  <2>7. CASE ~x.flush
    <3>1. walker' = [walker EXCEPT !.state = "PTE_LOOKUP"]
      BY <1>1, <1>3, <2>7, WalkerStep
    <3>2. walker'.state = "PTE_LOOKUP" /\ pptr' = pptr
      BY <1>1, <3>1 DEF Shape, pptr
    <3> QED BY <2>3, <2>4, <2>5, <2>7, <3>2 DEF OneRead
  <2> QED BY <2>6, <2>7
<1>4. CASE walker.state = "WAIT_GRANT" /\ ~x.gnt
  <2>1. port'.busy <=> port'.astray
    BY <1>1, <1>4, StaysAstray DEF OneRead
  <2>2. walker'.state \in {"IDLE", "WAIT_GRANT"}
    BY <1>1, <1>4, WalkerStep, AfterFlush
  <2> QED BY <2>1, <2>2 DEF OneRead
<1>5. CASE walker.state = "PTE_LOOKUP" /\ ~answer.valid
  <2>1. port.busy /\ ~port.late /\ ~port.astray /\ port.addr = pptr /\ ~x.gnt
    BY <1>1, <1>5, EnvFacts DEF OneRead
  <2>2. (port'.busy <=> ~answer'.valid) /\ ~port'.astray
    BY <1>1, <1>5, <2>1, PortStep
  <2>3. CASE x.flush
    <3>1. walker'.state = "WAIT_RVALID"
      BY <1>1, <1>5, <2>3, WalkerStep, AfterFlush
    <3> QED BY <2>2, <3>1 DEF OneRead
  <2>4. CASE ~x.flush
    <3>1. walker' = walker
      BY <1>1, <1>5, <2>4, WalkerStep
    <3>2. walker'.state = "PTE_LOOKUP" /\ pptr' = pptr
      BY <1>5, <3>1 DEF pptr
    <3>3. /\ port'.busy => ~port'.late /\ port'.addr = pptr
          /\ answer'.valid => ~answer'.late /\ answer'.addr = pptr
      BY <1>1, <2>1, <2>4, PortStep, EnvFacts
    <3> QED BY <2>2, <3>2, <3>3 DEF OneRead, own
  <2> QED BY <2>3, <2>4
<1>6. CASE walker.state = "PTE_LOOKUP" /\ answer.valid
  <2>1. port'.busy <=> port'.astray
    BY <1>1, <1>6, StaysAstray, EnvFacts DEF OneRead
  <2>2. walker'.state \notin {"PTE_LOOKUP", "WAIT_RVALID"}
    <3>1. afterLook.state \notin {"PTE_LOOKUP", "WAIT_RVALID"}
      <4>1. /\ [walker EXCEPT !.state = "PROPAGATE_ACCESS_ERROR"].state = "PROPAGATE_ACCESS_ERROR"
            /\ [walker EXCEPT !.state = "PROPAGATE_ERROR"].state = "PROPAGATE_ERROR"
            /\ NoWalk.state = "IDLE"
            /\ [walker EXCEPT !.state = "WAIT_GRANT", !.lvl = walker.lvl + 1, !.ppn = answer.pte.ppn].state
                 = "WAIT_GRANT"
        BY <1>1 DEF Shape, NoWalk
      <4> QED BY <1>1, <4>1, AfterLook
    <3>2. x.flush => walker'.state = "IDLE"
      BY <1>1, <1>6, WalkerStep, AfterFlush
    <3> QED BY <1>1, <1>6, <3>1, <3>2, WalkerStep
  <2> QED BY <2>1, <2>2 DEF OneRead
<1>7. CASE walker.state = "WAIT_RVALID" /\ (x.flush \/ answer.valid)
  <2>1. walker'.state = "IDLE"
    BY <1>1, <1>7, WalkerStep, AfterFlush DEF NoWalk
  <2>2. port'.busy <=> port'.astray
    <3>1. CASE answer.valid
      BY <1>1, <1>7, <3>1, StaysAstray, EnvFacts DEF OneRead
    <3>2. CASE ~answer.valid
      <4>1. x.flush /\ ~x.gnt /\ port.busy
        BY <1>1, <1>7, <3>2, EnvFacts DEF OneRead
      <4> QED BY <1>1, <1>7, <4>1, PortStep
    <3> QED BY <3>1, <3>2
  <2> QED BY <2>1, <2>2 DEF OneRead
<1>8. CASE walker.state = "WAIT_RVALID" /\ ~x.flush /\ ~answer.valid
  <2>1. port.busy /\ ~port.astray /\ ~x.gnt
    BY <1>1, <1>8, EnvFacts DEF OneRead
  <2>2. (port'.busy <=> ~answer'.valid) /\ ~port'.astray
    BY <1>1, <1>8, <2>1, PortStep
  <2>3. walker'.state = "WAIT_RVALID"
    BY <1>1, <1>8, WalkerStep
  <2> QED BY <2>2, <2>3 DEF OneRead
<1> QED BY <1>1, <1>2, <1>3, <1>4, <1>5, <1>6, <1>7, <1>8 DEF Shape, States, raises

\* Software that changes the page tables does not touch the walker.
LEMMA RemapSteps ==
  ASSUME ReadInv, Remap
  PROVE  ReadInv'
<1>1. /\ DOMAIN port' = DOMAIN port /\ port'.busy = port.busy /\ port'.addr = port.addr
      /\ port'.late = port.late /\ port'.astray = port.astray
  BY DEF Remap, ReadInv, Shape
<1>2. walker' = walker /\ answer' = answer
  BY DEF Remap
<1> QED BY <1>1, <1>2 DEF ReadInv, Shape, OneRead, own, pptr

\* At most one read of the walker is on its way.
LEMMA ReadsInOrder ==
  Spec => []ReadInv
<1>1. Init => ReadInv
  BY DEF Init, ReadInv, Shape, OneRead, NoWalk, NoAnswer, NoRead, States, Level
<1>2. ReadInv /\ [Next]_vars => ReadInv'
  <2> SUFFICES ASSUME ReadInv, [Next]_vars
               PROVE  ReadInv'
    OBVIOUS
  <2>1. ASSUME NEW x \in Env, Cycle(x)
        PROVE  ReadInv'
    BY <2>1, ShapeStep, OneReadStep DEF ReadInv
  <2>2. CASE Remap
    BY <2>2, RemapSteps
  <2>3. CASE UNCHANGED vars
    BY <2>3 DEF vars, ReadInv, Shape, OneRead, own, pptr
  <2> QED BY <2>1, <2>2, <2>3 DEF Next
<1> QED BY <1>1, <1>2, PTL DEF Spec

\* The page table walker of ptw.sv looks only at answers to its own reads,
\* whenever flushes end its walks or its wait for a late answer, unless the
\* cache grants the read together with the answer to one that is astray.
THEOREM OwnAnswers ==
  Spec => []OwnAnswer
<1>1. ReadInv => OwnAnswer
  BY DEF ReadInv, OneRead, OwnAnswer, looksAt
<1> QED BY <1>1, ReadsInOrder, PTL

-----------------------------------------------------------------------------
(* Walks through page tables.                                              *)

\* The result depends on the level, the physical page and the kind of access.
LEMMA ResultSame ==
  ASSUME NEW pte, NEW w, NEW v, NEW store, w.lvl = v.lvl, w.ppn = v.ppn, w.instr = v.instr
  PROVE  result(pte, w, store) = result(pte, v, store)
BY DEF result, leafOk

\* A leaf that can be written can be read.
LEMMA ResultLeaf ==
  ASSUME NEW pte, NEW w, NEW store, result(pte, w, store) = "leaf"
  PROVE  result(pte, w, FALSE) = "leaf"
BY DEF result, leafOk

\* What is read, element by element.
LEMMA ReadsIff ==
  ASSUME NEW page, NEW T, NEW l, NEW S, NEW r, NEW instr, NEW store, NEW pte
  PROVE  pte \in reads(page, T, l, S, r, instr, store)
         <=> \E t \in T, ppn \in S :
               /\ pte = t[<<ppn, page[l]>>]
               /\ result(pte, [lvl |-> l, ppn |-> ppn, instr |-> instr], store) = r
<1>1. ASSUME pte \in reads(page, T, l, S, r, instr, store)
      PROVE  \E t \in T, ppn \in S :
               /\ pte = t[<<ppn, page[l]>>]
               /\ result(pte, [lvl |-> l, ppn |-> ppn, instr |-> instr], store) = r
  <2>1. PICK x \in T \X S :
          /\ result(x[1][<<x[2], page[l]>>], [lvl |-> l, ppn |-> x[2], instr |-> instr], store) = r
          /\ pte = x[1][<<x[2], page[l]>>]
    BY <1>1 DEF reads
  <2> QED BY <2>1
<1>2. ASSUME NEW t \in T, NEW ppn \in S, pte = t[<<ppn, page[l]>>],
             result(pte, [lvl |-> l, ppn |-> ppn, instr |-> instr], store) = r
      PROVE  pte \in reads(page, T, l, S, r, instr, store)
  <2> DEFINE x == <<t, ppn>>
  <2>1. x \in T \X S /\ x[1] = t /\ x[2] = ppn
    OBVIOUS
  <2> HIDE DEF x
  <2> QED BY <1>2, <2>1 DEF reads
<1> QED BY <1>1, <1>2

\* More page tables and more places allow for more.
LEMMA ReadsMonotone ==
  ASSUME NEW page, NEW T, NEW U, NEW l, NEW S, NEW R, NEW r, NEW instr, NEW store,
         T \subseteq U, S \subseteq R
  PROVE  reads(page, T, l, S, r, instr, store) \subseteq reads(page, U, l, R, r, instr, store)
<1> SUFFICES ASSUME NEW pte \in reads(page, T, l, S, r, instr, store)
             PROVE  pte \in reads(page, U, l, R, r, instr, store)
  OBVIOUS
<1>1. PICK t \in T, ppn \in S :
        /\ pte = t[<<ppn, page[l]>>]
        /\ result(pte, [lvl |-> l, ppn |-> ppn, instr |-> instr], store) = r
  BY ReadsIff
<1>2. t \in U /\ ppn \in R
  OBVIOUS
<1> QED BY <1>1, <1>2, ReadsIff

\* More page tables lead to more places.
LEMMA PlacesMonotone ==
  ASSUME NEW page, NEW T, NEW U, NEW l \in Level, T \subseteq U
  PROVE  places(page, T, l) \subseteq places(page, U, l)
<1>1. \A S, R, k : S \subseteq R => below(page, T, k, S) \subseteq below(page, U, k, R)
  BY ReadsMonotone DEF below
<1>2. below(page, T, 1, {0}) \subseteq below(page, U, 1, {0})
  BY <1>1
<1>3. below(page, T, 2, below(page, T, 1, {0})) \subseteq below(page, U, 2, below(page, U, 1, {0}))
  BY <1>1, <1>2
<1> QED BY <1>2, <1>3 DEF places, Level

\* More page tables allow for more results.
LEMMA EndsMonotone ==
  ASSUME NEW page, NEW T, NEW U, NEW l \in Level, NEW r, NEW instr, NEW store, T \subseteq U
  PROVE  ends(page, T, l, r, instr, store) \subseteq ends(page, U, l, r, instr, store)
BY PlacesMonotone, ReadsMonotone DEF ends

\* The walk w goes on from an entry.
goesOn(pte, w) == result(pte, w, FALSE) = "pointer"

\* A pointer leads to the next level.
LEMMA PlacesNext ==
  ASSUME NEW page, NEW T, NEW w, w.lvl \in {1, 2}, w.ppn \in places(page, T, w.lvl),
         NEW pte, NEW t \in T, pte = t[<<w.ppn, page[w.lvl]>>],
         goesOn(pte, w)
  PROVE  pte.ppn \in places(page, T, w.lvl + 1)
<1> DEFINE l == w.lvl
           ppn == w.ppn
           v == [lvl |-> l, ppn |-> ppn, instr |-> FALSE]
<1>1. v.lvl = w.lvl /\ v.ppn = w.ppn
  OBVIOUS
<1>2. result(pte, v, FALSE) = "pointer"
  <2> HIDE DEF v
  <2> QED BY <1>1 DEF goesOn, result
<1>3. pte \in reads(page, T, l, places(page, T, l), "pointer", FALSE, FALSE)
  <2>1. \E u \in T, q \in places(page, T, l) :
           /\ pte = u[<<q, page[l]>>]
           /\ result(pte, [lvl |-> l, ppn |-> q, instr |-> FALSE], FALSE) = "pointer"
    BY <1>2
  <2> QED BY <2>1, ReadsIff, ZenonT(40)
<1>4. pte.ppn \in below(page, T, l, places(page, T, l))
  BY <1>3 DEF below
<1>5. CASE l = 1
  BY <1>4, <1>5 DEF places
<1>6. CASE l = 2
  BY <1>4, <1>6 DEF places
<1> QED BY <1>5, <1>6

-----------------------------------------------------------------------------
(* The TLBs hold nothing that is older than the last fence.                *)

\* What a cycle does to the record of page tables since the last fence.
LEMMA SinceStep ==
  ASSUME NEW x \in Env, Cycle(x)
  PROVE  /\ hist' = hist /\ pt' = pt /\ tables' = tables
         /\ \A p \in Page : since'[p] = IF p \in x.fence THEN {pt} ELSE since[p]
         /\ \A p \in Page : p \notin x.fence => tablesSince(p)' = tablesSince(p)
         /\ ~x.flush => x.fence = {}
         /\ \A p \in Page : p \notin misread' /\ p \notin x.fence => p \notin misread /\ ~(looksAt /\ answer.crossed)
BY EnvFacts DEF Cycle, tables, tablesSince

\* Reads and answers stay fresh.
LEMMA ReadsFreshStep ==
  ASSUME Shape, ReadsFresh, NEW x \in Env, Cycle(x)
  PROVE  ReadsFresh'
<1>1. \A p \in Page : pt' \in since'[p]
  BY SinceStep DEF ReadsFresh
<1>2. ASSUME port'.busy, ~port'.late, NEW p \in Page
      PROVE  port'.sees \subseteq since'[p]
  <2>1. CASE x.gnt
    <3>1. ~x.flush /\ port'.sees = {pt}
      BY <1>2, <2>1, PortStep, EnvFacts
    <3> QED BY <3>1, SinceStep DEF ReadsFresh
  <2>2. CASE ~x.gnt
    <3>1. ~x.answered
      BY <1>2, <2>2, PortStep, EnvFacts
    <3>2. port.busy /\ ~port.late /\ ~x.flush /\ port'.sees = port.sees
      BY <1>2, <2>2, <3>1, PortStep
    <3> QED BY <3>2, SinceStep DEF ReadsFresh
  <2> QED BY <2>1, <2>2
<1>3. ASSUME answer'.valid, ~answer'.late, NEW p \in Page
      PROVE  \E t \in since'[p] : answer'.pte = tables'[t][answer'.addr]
  <2>1. x.answered
    BY <1>3, PortStep
  <2>2. ~port.late /\ ~x.flush /\ answer'.addr = port.addr
    BY <1>3, <2>1, PortStep
  <2>3. PICK t \in port.sees : answer'.pte = tables[t][port.addr]
    BY <2>1, PortStep
  <2>4. t \in since[p]
    BY <2>1, <2>2, EnvFacts DEF ReadsFresh
  <2> QED BY <2>2, <2>3, <2>4, SinceStep
<1> QED BY <1>1, <1>2, <1>3 DEF ReadsFresh

\* The entry that the walker looks at is in one of the page tables since the
\* last fence, for all pages that it leads to.
LEMMA LookFresh ==
  ASSUME ReadInv, ReadsFresh, WalkFresh, looksAt, ~answer.crossed,
         NEW p \in Page \ misread, sameWay(p), p[walker.lvl] = walker.page[walker.lvl]
  PROVE  /\ walker.ppn \in places(p, tablesSince(p), walker.lvl)
         /\ \E T \in tablesSince(p) : answer.pte = T[<<walker.ppn, p[walker.lvl]>>]
<1>1. answer.addr = <<walker.ppn, p[walker.lvl]>> /\ ~answer.late /\ answer.valid
  BY DEF ReadInv, OneRead, own, looksAt, pptr
<1>2. PICK t \in since[p] : answer.pte = tables[t][answer.addr]
  BY <1>1 DEF ReadsFresh
<1>3. tables[t] \in tablesSince(p)
  BY <1>2 DEF tablesSince
<1> QED BY <1>1, <1>2, <1>3 DEF WalkFresh, looksAt

\* The walk stays fresh.
LEMMA WalkFreshStep ==
  ASSUME ReadInv, ReadsFresh, WalkFresh, NEW x \in Env, Cycle(x)
  PROVE  WalkFresh'
<1> SUFFICES ASSUME walker'.state \in {"WAIT_GRANT", "PTE_LOOKUP"}, NEW p \in Page \ misread',
                    \A l \in 1 .. walker'.lvl - 1 : p[l] = walker'.page[l]
             PROVE  walker'.ppn \in places(p, tablesSince(p)', walker'.lvl)
  BY DEF WalkFresh, sameWay
<1>1. Shape /\ OneRead
  BY DEF ReadInv
<1>2. ~x.flush
  BY <1>1, WalkerStep, AfterFlush
<1>3. tablesSince(p)' = tablesSince(p) /\ p \notin misread /\ ~(looksAt /\ answer.crossed)
  BY <1>2, SinceStep
<1>a. PICK T : T = tablesSince(p)
  OBVIOUS
<1> SUFFICES walker'.ppn \in places(p, T, walker'.lvl)
  BY <1>3, <1>a
<1>4. CASE walker.state = "IDLE"
  <2>1. walker' = start
    BY <1>1, <1>2, <1>4, WalkerStep
  <2>2. walker'.lvl = 1 /\ walker'.ppn = 0
    BY <2>1, Start DEF NoWalk, begin
  <2> QED BY <2>2 DEF places
<1>5. CASE \/ walker.state = "WAIT_GRANT"
           \/ walker.state = "PTE_LOOKUP" /\ ~answer.valid
  <2>1. walker' = walker \/ walker' = [walker EXCEPT !.state = "PTE_LOOKUP"]
    BY <1>1, <1>2, <1>5, WalkerStep
  <2>2. walker'.lvl = walker.lvl /\ walker'.ppn = walker.ppn /\ walker'.page = walker.page
    BY <1>1, <2>1 DEF Shape
  <2> QED BY <1>3, <1>5, <1>a, <2>2 DEF WalkFresh, sameWay
<1>6. CASE walker.state = "PTE_LOOKUP" /\ answer.valid
  <2>1. walker' = afterLook
    BY <1>1, <1>2, <1>6, WalkerStep
  <2>2. /\ [walker EXCEPT !.state = "PROPAGATE_ACCESS_ERROR"].state = "PROPAGATE_ACCESS_ERROR"
        /\ [walker EXCEPT !.state = "PROPAGATE_ERROR"].state = "PROPAGATE_ERROR"
        /\ NoWalk.state = "IDLE"
    BY <1>1 DEF Shape, NoWalk
  <2>3. /\ result(answer.pte, walker, store_i) = "pointer" /\ walker.lvl \in {1, 2}
        /\ walker' = [walker EXCEPT !.state = "WAIT_GRANT", !.lvl = walker.lvl + 1, !.ppn = answer.pte.ppn]
    BY <1>1, <2>1, <2>2, AfterLook
  <2>4. walker'.lvl = walker.lvl + 1 /\ walker'.ppn = answer.pte.ppn /\ walker'.page = walker.page
    BY <1>1, <2>3 DEF Shape
  <2>5. \A l \in 1 .. walker.lvl : p[l] = walker.page[l]
    BY <2>3, <2>4
  <2>6. sameWay(p) /\ p[walker.lvl] = walker.page[walker.lvl]
    BY <2>3, <2>5 DEF sameWay
  <2>7. /\ walker.ppn \in places(p, T, walker.lvl)
        /\ \E t \in T : answer.pte = t[<<walker.ppn, p[walker.lvl]>>]
    BY <1>3, <1>6, <1>a, <2>6, LookFresh DEF looksAt
  <2>8. PICK t \in T : answer.pte = t[<<walker.ppn, p[walker.lvl]>>]
    BY <2>7
  <2>9. answer.pte.ppn \in places(p, T, walker.lvl + 1)
    <3>1. /\ walker.lvl \in {1, 2} /\ walker.ppn \in places(p, T, walker.lvl)
          /\ answer.pte = t[<<walker.ppn, p[walker.lvl]>>]
      BY <2>3, <2>7, <2>8
    <3>2. goesOn(answer.pte, walker)
      BY <2>3 DEF goesOn, result
    <3> QED BY <3>1, <3>2, PlacesNext
  <2> QED BY <2>4, <2>9
<1>7. CASE walker.state = "WAIT_RVALID" \/ raises
  <2>1. walker' = NoWalk \/ (walker.state = "WAIT_RVALID" /\ walker' = walker)
    BY <1>1, <1>2, <1>7, WalkerStep
  <2> QED BY <2>1 DEF NoWalk
<1> QED BY <1>1, <1>4, <1>5, <1>6, <1>7 DEF Shape, States, raises

\* What a walk writes to a TLB is in the page tables since the last fence, for
\* every page that it covers, if the answer is not crossed.
LEMMA FoundFresh ==
  ASSUME ReadInv, ReadsFresh, WalkFresh, NEW e \in found
  PROVE  /\ e.lvl \in Level /\ looksAt
         /\ ~answer.crossed => \A p \in Page \ misread :
               covers(e, p) => e.pte \in ends(p, tablesSince(p), e.lvl, "leaf", walker.instr, FALSE)
<1>1. /\ looksAt /\ result(answer.pte, walker, store_i) = "leaf"
      /\ e = [page |-> walker.page, lvl |-> walker.lvl, pte |-> answer.pte]
  BY DEF found
<1>2. e.page = walker.page /\ e.lvl = walker.lvl /\ e.pte = answer.pte /\ e.lvl \in 1 .. 3
  BY <1>1 DEF ReadInv, Shape, Level
<1>3. ASSUME ~answer.crossed, NEW p \in Page \ misread, covers(e, p)
      PROVE  e.pte \in ends(p, tablesSince(p), e.lvl, "leaf", walker.instr, FALSE)
  <2>1. \A l \in 1 .. walker.lvl : p[l] = walker.page[l]
    BY <1>2, <1>3 DEF covers
  <2>2. sameWay(p) /\ p[walker.lvl] = walker.page[walker.lvl]
    BY <1>2, <2>1 DEF sameWay
  <2>3. /\ walker.ppn \in places(p, tablesSince(p), walker.lvl)
        /\ \E t \in tablesSince(p) : answer.pte = t[<<walker.ppn, p[walker.lvl]>>]
    BY <1>1, <1>3, <2>2, LookFresh
  <2> DEFINE v == [lvl |-> walker.lvl, ppn |-> walker.ppn, instr |-> walker.instr]
  <2>4. result(answer.pte, walker, FALSE) = "leaf"
    BY <1>1, ResultLeaf
  <2>5. v.lvl = walker.lvl /\ v.ppn = walker.ppn /\ v.instr = walker.instr
    OBVIOUS
  <2>6. result(answer.pte, v, FALSE) = "leaf"
    <3> HIDE DEF v
    <3> QED BY <2>4, <2>5 DEF result, leafOk
  <2>7. answer.pte \in reads(p, tablesSince(p), walker.lvl, places(p, tablesSince(p), walker.lvl),
                              "leaf", walker.instr, FALSE)
    <3>1. \E t \in tablesSince(p), ppn \in places(p, tablesSince(p), walker.lvl) :
             /\ answer.pte = t[<<ppn, p[walker.lvl]>>]
             /\ result(answer.pte, [lvl |-> walker.lvl, ppn |-> ppn, instr |-> walker.instr], FALSE) = "leaf"
      BY <2>3, <2>6
    <3> QED BY <3>1, ReadsIff
  <2> QED BY <1>2, <2>7 DEF ends
<1> QED BY <1>1, <1>2, <1>3 DEF Level

\* What is in a TLB after a cycle was there before or comes from a walk.
LEMMA TlbNext ==
  ASSUME NEW tlb, NEW updates, NEW fence, NEW next \in tlb_next(tlb, updates, fence), NEW e \in next
  PROVE  \/ e \in tlb /\ \A p \in fence : ~covers(e, p)
         \/ e \in updates /\ fence = {}
<1>1. CASE fence # {}
  BY <1>1 DEF tlb_next, flushed
<1>2. CASE fence = {} /\ updates = {}
  BY <1>2 DEF tlb_next
<1>3. CASE fence = {} /\ updates # {}
  <2>1. PICK u \in updates : next \in updated(tlb, u)
    BY <1>3 DEF tlb_next
  <2>2. next \subseteq tlb \union {u}
    BY <2>1 DEF updated
  <2> QED BY <1>3, <2>2
<1> QED BY <1>1, <1>2, <1>3

\* The leaf of a TLB entry can be found in the page tables T.
leafIn(page, T, e, instr) == e.pte \in ends(page, T, e.lvl, "leaf", instr, FALSE)

\* An entry of a TLB, for fetches or not, is fresh for all pages it covers.
entryFresh(e, instr) ==
    e.lvl \in Level /\ \A p \in Page \ misread : covers(e, p) => leafIn(p, tablesSince(p), e, instr)

\* TlbFresh, entry by entry.
LEMMA FreshByEntry ==
  EntryLevels /\ TlbFresh <=> (\A e \in itlb : entryFresh(e, TRUE)) /\ (\A e \in dtlb : entryFresh(e, FALSE))
<1>1. TlbFresh <=> /\ \A p \in Page \ misread : \A e \in itlb : covers(e, p) => leafIn(p, tablesSince(p), e, TRUE)
                   /\ \A p \in Page \ misread : \A e \in dtlb : covers(e, p) => leafIn(p, tablesSince(p), e, FALSE)
  BY Zenon DEF TlbFresh, leafIn
<1> QED BY <1>1, Zenon DEF EntryLevels, entryFresh

\* More page tables, more leaves.
LEMMA LeafMonotone ==
  ASSUME NEW page, NEW T, NEW U, NEW e, NEW instr, e.lvl \in Level, T \subseteq U, leafIn(page, T, e, instr)
  PROVE  leafIn(page, U, e, instr)
BY EndsMonotone DEF leafIn

\* A cycle keeps the entries fresh.
LEMMA TlbFreshStep ==
  ASSUME ReadInv, ReadsFresh, WalkFresh, EntryLevels, TlbFresh, NEW x \in Env, Cycle(x)
  PROVE  EntryLevels' /\ TlbFresh'
<1>1. (\A e \in itlb : entryFresh(e, TRUE)) /\ (\A e \in dtlb : entryFresh(e, FALSE))
  BY FreshByEntry
<1>2. ASSUME NEW e, NEW instr \in BOOLEAN, entryFresh(e, instr), \A p \in x.fence : ~covers(e, p)
      PROVE  entryFresh(e, instr)'
  <2>1. e.lvl \in Level /\ \A p \in Page \ misread : covers(e, p) => leafIn(p, tablesSince(p), e, instr)
    BY <1>2 DEF entryFresh
  <2>2. \A p \in Page \ misread' : covers(e, p) => leafIn(p, tablesSince(p)', e, instr)
    BY <1>2, <2>1, SinceStep
  <2> QED BY <2>1, <2>2 DEF entryFresh
<1>3. ASSUME NEW e \in found, NEW instr, instr = walker.instr, x.fence = {}
      PROVE  entryFresh(e, instr)'
  <2>1. e.lvl \in Level /\ looksAt
    BY <1>3, FoundFresh
  <2>2. ASSUME NEW p \in Page \ misread', covers(e, p)
        PROVE  leafIn(p, tablesSince(p)', e, instr)
    <3>1. tablesSince(p)' = tablesSince(p) /\ p \notin misread /\ ~answer.crossed
      BY <1>3, <2>1, <2>2, SinceStep
    <3>2. leafIn(p, tablesSince(p), e, instr)
      BY <1>3, <2>2, <3>1, FoundFresh DEF leafIn
    <3> QED BY <3>1, <3>2
  <2> QED BY <2>1, <2>2 DEF entryFresh
<1>4. walker.instr \in BOOLEAN
  BY DEF ReadInv, Shape
<1>5. ASSUME NEW e \in itlb'
      PROVE  entryFresh(e, TRUE)'
  <2>1. \/ e \in itlb /\ \A p \in x.fence : ~covers(e, p)
        \/ e \in itlb_update /\ x.fence = {}
    BY <1>5, TlbNext DEF Cycle
  <2>2. e \in itlb_update /\ x.fence = {} => entryFresh(e, TRUE)'
    BY <1>3, <1>4 DEF itlb_update
  <2> QED BY <1>1, <1>2, <2>1, <2>2
<1>6. ASSUME NEW e \in dtlb'
      PROVE  entryFresh(e, FALSE)'
  <2>1. \/ e \in dtlb /\ \A p \in x.fence : ~covers(e, p)
        \/ e \in dtlb_update /\ x.fence = {}
    BY <1>6, TlbNext DEF Cycle
  <2>2. e \in dtlb_update /\ x.fence = {} => entryFresh(e, FALSE)'
    BY <1>3, <1>4 DEF dtlb_update
  <2> QED BY <1>1, <1>2, <2>1, <2>2
<1>7. (EntryLevels /\ TlbFresh <=> (\A e \in itlb : entryFresh(e, TRUE)) /\ (\A e \in dtlb : entryFresh(e, FALSE)))'
  BY FreshByEntry, PTL
<1> QED BY <1>5, <1>6, <1>7

\* A change of the page tables only adds to what a page may be translated with.
LEMMA RemapGrows ==
  ASSUME Remap
  PROVE  /\ tables' = tables /\ misread' = misread
         /\ \A p \in Page : since[p] \subseteq since'[p] /\ pt' \in since'[p]
         /\ \A p \in Page : tablesSince(p) \subseteq tablesSince(p)'
<1>1. tables' = tables /\ misread' = misread /\ \A p \in Page : since'[p] = since[p] \union {pt'}
  BY DEF Remap, tables
<1> QED BY <1>1 DEF tablesSince

\* It keeps walk, reads and TLBs fresh.
LEMMA FreshRemap ==
  ASSUME ReadInv, FreshInv, Remap
  PROVE  FreshInv'
<1>1. ReadsFresh'
  <2>1. /\ port'.busy = port.busy /\ port'.late = port.late /\ answer' = answer
        /\ port'.busy => port'.sees = port.sees \union {pt'}
    BY DEF Remap, ReadInv, Shape
  <2> QED BY <2>1, RemapGrows DEF FreshInv, ReadsFresh
<1>2. WalkFresh'
  <2>1. walker' = walker
    BY DEF Remap
  <2>2. walker.lvl \in Level
    BY DEF ReadInv, Shape
  <2>3. \A p \in Page : places(p, tablesSince(p), walker.lvl) \subseteq places(p, tablesSince(p)', walker.lvl)
    BY <2>2, RemapGrows, PlacesMonotone
  <2> QED BY <2>1, <2>3, RemapGrows DEF FreshInv, WalkFresh, sameWay
<1>3. EntryLevels' /\ TlbFresh'
  <2>1. (\A e \in itlb : entryFresh(e, TRUE)) /\ (\A e \in dtlb : entryFresh(e, FALSE))
    BY FreshByEntry DEF FreshInv
  <2>2. ASSUME NEW e, NEW instr \in BOOLEAN, entryFresh(e, instr)
        PROVE  entryFresh(e, instr)'
    <3>1. e.lvl \in Level /\ \A p \in Page \ misread : covers(e, p) => leafIn(p, tablesSince(p), e, instr)
      BY <2>2 DEF entryFresh
    <3>2. \A p \in Page \ misread' : covers(e, p) => leafIn(p, tablesSince(p)', e, instr)
      BY <3>1, RemapGrows, LeafMonotone
    <3> QED BY <3>1, <3>2 DEF entryFresh
  <2>3. itlb' = itlb /\ dtlb' = dtlb
    BY DEF Remap
  <2>4. (EntryLevels /\ TlbFresh <=> (\A e \in itlb : entryFresh(e, TRUE)) /\ (\A e \in dtlb : entryFresh(e, FALSE)))'
    BY FreshByEntry, PTL
  <2> QED BY <2>1, <2>2, <2>3, <2>4
<1> QED BY <1>1, <1>2, <1>3 DEF FreshInv

\* Walk, reads and TLBs are fresh in every reachable state.
LEMMA FreshAlways ==
  Spec => []FreshInv
<1>1. Init => FreshInv
  BY DEF Init, FreshInv, ReadsFresh, WalkFresh, EntryLevels, TlbFresh, NoWalk, NoAnswer, NoRead
<1>2. ReadInv /\ FreshInv /\ [Next]_vars => FreshInv'
  <2> SUFFICES ASSUME ReadInv, FreshInv, [Next]_vars
               PROVE  FreshInv'
    OBVIOUS
  <2>1. ASSUME NEW x \in Env, Cycle(x)
        PROVE  FreshInv'
    BY <2>1, ReadsFreshStep, WalkFreshStep, TlbFreshStep DEF FreshInv, ReadInv
  <2>2. CASE Remap
    BY <2>2, FreshRemap
  <2>3. CASE UNCHANGED vars
    <3>1. ReadsFresh' /\ EntryLevels'
      BY <2>3 DEF vars, FreshInv, ReadsFresh, EntryLevels, tables
    <3>2. \A p : tablesSince(p)' = tablesSince(p)
      BY <2>3 DEF vars, tablesSince, tables
    <3>3. WalkFresh'
      BY <2>3, <3>2 DEF vars, FreshInv, WalkFresh, sameWay
    <3>4. TlbFresh'
      BY <2>3, <3>2 DEF vars, FreshInv, TlbFresh
    <3> QED BY <3>1, <3>3, <3>4 DEF FreshInv
  <2> QED BY <2>1, <2>2, <2>3 DEF Next
<1> QED BY <1>1, <1>2, ReadsInOrder, PTL DEF Spec

\* An sfence.vma is effective for all page tables, page sizes and TLBs: nothing
\* that ptw.sv writes to a TLB, however walks, flushes, fences and changes to
\* the page table interleave, is older than the last fence for a page it
\* translates.  Excepted is a page since whose last fence the walker has looked
\* at a crossed answer.
THEOREM TranslationsFresh ==
  Spec => []TlbFresh
<1>1. FreshInv => TlbFresh
  BY DEF FreshInv
<1> QED BY <1>1, FreshAlways, PTL

-----------------------------------------------------------------------------
(* Faults.                                                                 *)

\* The requests of the load/store unit.
ReqType ==
    [st : {"none", "request", "wait", "abort"}, page : Page \union {NoReq.page}, store : BOOLEAN, mis : BOOLEAN]

\* The request is the same, perhaps in another state of the load unit.
Kept(r) ==
    /\ r \in ReqType /\ r.st # "none" /\ r.page = dreq.page /\ r.store = dreq.store
    /\ r.st = "abort" => ~r.store

\* A request of the load/store unit stays, or another one takes its place; one
\* that is neither translated nor gets an exception stays.
LEMMA LsuMoves ==
  ASSUME Requests, NEW n \in lsu_next
  PROVE  /\ \/ n.dreq = NoReq
            \/ n.dreq \in ReqType /\ n.dreq.st = "request" /\ n.dreq.page \in Page
            \/ dreq.st # "none" /\ Kept(n.dreq)
         /\ dreq.st = "abort" \/ (dtlb_access /\ ~lsu_exception_o /\ ~lsu_dtlb_hit_o) => Kept(n.dreq)
<1>1. /\ dreq \in ReqType
      /\ dreq.st = "abort" => ~dreq.store
  BY DEF Requests, ReqType
<1>2. \A a \in another : \/ a.dreq = NoReq
                         \/ a.dreq \in ReqType /\ a.dreq.st = "request" /\ a.dreq.page \in Page
  <2> SUFFICES ASSUME NEW a \in another, a.dreq # NoReq
               PROVE  a.dreq \in ReqType /\ a.dreq.st = "request" /\ a.dreq.page \in Page
    OBVIOUS
  <2>1. PICK b \in Scenarios[hist].accesses :
          a = [dreq |-> [st |-> "request", page |-> b.page, store |-> b.store, mis |-> b.mis], fuel |-> fuel - 1]
    BY DEF another, same
  <2>2. b \in [page : Page, store : BOOLEAN, mis : BOOLEAN]
    BY <2>1, ScenarioAssumption DEF Requests
  <2> QED BY <2>1, <2>2 DEF ReqType
<1>3. ASSUME NEW st \in {"request", "wait", "abort"}, st = "abort" => ~dreq.store
      PROVE  Kept([dreq EXCEPT !.st = st])
  BY <1>1, <1>3 DEF ReqType, Kept
<1>4. dreq.st # "none" => Kept(dreq)
  BY <1>1 DEF ReqType, Kept
<1>5. \A r : \A a \in same(r) : a.dreq = r
  BY DEF same
<1>6. CASE dreq.st = "none"
  <2>1. lsu_next = another
    BY <1>6 DEF lsu_next, dtlb_access
  <2> QED BY <1>2, <1>6, <2>1 DEF dtlb_access
<1>7. CASE dreq.st = "abort"
  <2>1. lsu_next = same([dreq EXCEPT !.st = IF lsu_exception_o THEN "request" ELSE "wait"])
    BY <1>7 DEF lsu_next, dtlb_access
  <2>2. Kept([dreq EXCEPT !.st = IF lsu_exception_o THEN "request" ELSE "wait"])
    BY <1>3, Zenon
  <2> QED BY <1>5, <1>7, <2>1, <2>2
<1>8. CASE dtlb_access
  <2>1. dreq.st # "none" /\ dreq.st # "abort"
    BY <1>8 DEF dtlb_access
  <2>2. CASE lsu_exception_o
    <3>1. lsu_next = another
      BY <1>8, <2>1, <2>2 DEF lsu_next
    <3> QED BY <1>2, <2>1, <2>2, <3>1
  <2>3. CASE ~lsu_exception_o /\ lsu_dtlb_hit_o
    <3>1. lsu_next = same(dreq) \union another
      BY <1>8, <2>1, <2>3 DEF lsu_next
    <3> QED BY <1>2, <1>4, <1>5, <2>1, <2>3, <3>1
  <2>4. CASE ~lsu_exception_o /\ ~lsu_dtlb_hit_o
    <3>1. lsu_next = IF dreq.store \/ dreq.st = "wait" THEN same([dreq EXCEPT !.st = "wait"])
                     ELSE same(dreq) \union same([dreq EXCEPT !.st = "abort"])
      BY <1>8, <2>1, <2>4 DEF lsu_next
    <3>2. \/ n.dreq = [dreq EXCEPT !.st = "wait"]
          \/ n.dreq = dreq
          \/ ~dreq.store /\ n.dreq = [dreq EXCEPT !.st = "abort"]
      BY <1>5, <3>1
    <3>3. Kept(n.dreq)
      BY <1>3, <1>4, <2>1, <3>2
    <3> QED BY <2>1, <3>3
  <2> QED BY <2>2, <2>3, <2>4
<1> QED BY <1>1, <1>6, <1>7, <1>8 DEF ReqType, dtlb_access

\* The clients' requests keep their types.
LEMMA RequestsStep ==
  ASSUME Requests, NEW x \in Env, Cycle(x)
  PROVE  Requests'
<1>1. /\ fetch' \in [on : BOOLEAN, page : Page \union {NoFetch.page}]
      /\ fetch'.on => fetch'.page \in Page
  <2>1. fetch' = fetch \/ fetch' = NoFetch \/ \E p \in Code : fetch' = [on |-> TRUE, page |-> p]
    BY DEF Cycle, fetch_next, fetches
  <2> DEFINE Held(r) == r \in [on : BOOLEAN, page : Page \union {NoFetch.page}] /\ (r.on => r.page \in Page)
  <2>2. Held(fetch)
    BY DEF Requests
  <2>3. Held(NoFetch)
    BY DEF NoFetch
  <2>4. \A p \in Code : Held([on |-> TRUE, page |-> p])
    BY CodeAssumption
  <2> HIDE DEF Held
  <2>5. Held(fetch')
    BY <2>1, <2>2, <2>3, <2>4
  <2> QED BY <2>5 DEF Held
<1>2. \/ dreq' = NoReq
      \/ dreq' \in ReqType /\ dreq'.st = "request" /\ dreq'.page \in Page
      \/ dreq.st # "none" /\ Kept(dreq')
  <2>1. PICK n \in IF x.flush THEN {[dreq |-> NoReq, fuel |-> 0]} ELSE lsu_next : dreq' = n.dreq
    BY DEF Cycle
  <2>2. CASE x.flush
    BY <2>1, <2>2
  <2>3. CASE ~x.flush
    BY <2>1, <2>3, LsuMoves
  <2> QED BY <2>2, <2>3
<1>3. /\ dreq' \in ReqType
      /\ dreq'.st # "none" => dreq'.page \in Page
      /\ dreq'.st = "abort" => ~dreq'.store
  <2>1. NoReq \in ReqType /\ NoReq.st = "none"
    BY DEF NoReq, ReqType
  <2> QED BY <1>2, <2>1 DEF Requests, Kept
<1>4. hist' \in DOMAIN Scenarios
  BY SinceStep DEF Requests
<1> QED BY <1>1, <1>3, <1>4 DEF Requests, ReqType

\* A walk that goes on, or reports a fault, is wanted.
LEMMA WalkGoesOn ==
  ASSUME ReadInv, WalkWanted, NEW x \in Env, Cycle(x), busy'
  PROVE  /\ ~x.flush /\ ~raises /\ found = {}
         /\ walker'.instr \in BOOLEAN
         /\ walker'.instr => fetch.on /\ en.i /\ ~itlb_hit /\ fetch.page = walker'.page
         /\ ~walker'.instr /\ ~doomed =>
              dreq.st # "none" /\ en.d /\ ~dtlb_hit /\ dreq.page = walker'.page
<1>1. Shape /\ Shape'
  BY ShapeStep DEF ReadInv
<1>2. ~x.flush
  BY <1>1, WalkerStep, AfterFlush DEF busy
<1>3. walker.state # "WAIT_RVALID" /\ ~raises
  <2>1. NoWalk.state = "IDLE"
    BY DEF NoWalk
  <2> QED BY <1>1, <1>2, <2>1, WalkerStep DEF busy
<1>4. CASE walker.state = "IDLE"
  <2>1. walker' = start
    BY <1>1, <1>2, <1>4, WalkerStep
  <2>2. found = {}
    BY <1>4 DEF found, looksAt
  <2>3. start # NoWalk
    BY <2>1 DEF busy, NoWalk
  <2>4. CASE start = begin(fetch.page, TRUE) /\ en.i /\ fetch.on /\ ~itlb_hit
    BY <1>2, <1>3, <2>1, <2>2, <2>4 DEF begin
  <2>5. CASE start = begin(dreq.page, FALSE) /\ en.d /\ dtlb_access /\ ~dtlb_hit
    BY <1>2, <1>3, <2>1, <2>2, <2>5 DEF begin, dtlb_access
  <2> QED BY <2>3, <2>4, <2>5, Start
<1>5. CASE walker.state \in {"WAIT_GRANT", "PTE_LOOKUP"}
  <2>1. walker'.instr = walker.instr /\ walker'.page = walker.page /\ found = {}
    <3>1. CASE ~looksAt
      <4>1. walker' = walker \/ walker' = [walker EXCEPT !.state = "PTE_LOOKUP"]
        BY <1>1, <1>2, <1>5, <3>1, WalkerStep DEF looksAt
      <4> QED BY <1>1, <3>1, <4>1 DEF Shape, found
    <3>2. CASE looksAt
      <4>1. walker' = afterLook
        BY <1>1, <1>2, <3>2, WalkerStep DEF looksAt
      <4>2. afterLook # NoWalk
        BY <4>1 DEF busy, NoWalk
      <4>3. result(answer.pte, walker, store_i) # "leaf"
        BY <1>1, <4>2, AfterLook
      <4>4. /\ [walker EXCEPT !.state = "PROPAGATE_ACCESS_ERROR"].instr = walker.instr
            /\ [walker EXCEPT !.state = "PROPAGATE_ACCESS_ERROR"].page = walker.page
            /\ [walker EXCEPT !.state = "PROPAGATE_ERROR"].instr = walker.instr
            /\ [walker EXCEPT !.state = "PROPAGATE_ERROR"].page = walker.page
            /\ [walker EXCEPT !.state = "WAIT_GRANT", !.lvl = walker.lvl + 1, !.ppn = answer.pte.ppn].instr = walker.instr
            /\ [walker EXCEPT !.state = "WAIT_GRANT", !.lvl = walker.lvl + 1, !.ppn = answer.pte.ppn].page = walker.page
        BY <1>1 DEF Shape
      <4>5. afterLook.instr = walker.instr /\ afterLook.page = walker.page
        BY <1>1, <4>3, <4>4, AfterLook
      <4> QED BY <4>1, <4>3, <4>5 DEF found
    <3> QED BY <3>1, <3>2
  <2>2. busy
    BY <1>5 DEF busy
  <2> QED BY <1>1, <1>2, <1>3, <2>1, <2>2 DEF WalkWanted, Shape
<1> QED BY <1>1, <1>3, <1>4, <1>5 DEF Shape, States, raises

\* The request of a load or store that waits for its walk stays as long as no
\* exception has been reported.
LEMMA DataStays ==
  ASSUME Requests, NEW x \in Env, Cycle(x), ~x.flush, ~doomed', dreq.st # "none", en.d, ~dtlb_hit
  PROVE  dreq'.st # "none" /\ dreq'.page = dreq.page /\ dreq'.store = dreq.store
<1>1. PICK n \in lsu_next : dreq' = n.dreq
  BY DEF Cycle
<1>2. ~(lsu_exception_o /\ dreq.st # "abort")
  BY DEF Cycle
<1>3. ~lsu_dtlb_hit_o
  BY DEF lsu_dtlb_hit_o
<1>4. dreq.st = "abort" \/ dtlb_access
  BY DEF Requests, dtlb_access
<1>5. Kept(n.dreq)
  BY <1>2, <1>3, <1>4, LsuMoves DEF dtlb_access
<1> QED BY <1>1, <1>5 DEF Kept

\* Walks stay wanted.
LEMMA WalkWantedStep ==
  ASSUME ReadInv, Requests, WalkWanted, NEW x \in Env, Cycle(x)
  PROVE  WalkWanted'
<1> SUFFICES ASSUME busy'
             PROVE  WalkWanted'
  BY DEF WalkWanted
<1>1. ~x.flush /\ ~raises /\ found = {} /\ x.fence = {}
  BY WalkGoesOn, EnvFacts
<1>2. itlb' = itlb /\ dtlb' = dtlb /\ en' = en
  BY <1>1 DEF Cycle, itlb_update, dtlb_update, tlb_next
<1>3. ASSUME walker'.instr
      PROVE  fetch'.on /\ en'.i /\ ~itlb_hit' /\ fetch'.page = walker'.page
  <2>1. fetch.on /\ en.i /\ ~itlb_hit /\ fetch.page = walker'.page
    BY <1>3, WalkGoesOn
  <2>2. ~x.taken
    BY <1>1, <2>1, EnvFacts DEF fetch_valid
  <2>3. fetch' = fetch
    BY <2>1, <2>2 DEF Cycle, fetch_next
  <2> QED BY <1>2, <2>1, <2>3 DEF itlb_hit
<1>4. ASSUME ~walker'.instr, ~doomed'
      PROVE  dreq'.st # "none" /\ en'.d /\ ~dtlb_hit' /\ dreq'.page = walker'.page
  <2>1. ~doomed
    BY <1>1, <1>4 DEF Cycle
  <2>2. dreq.st # "none" /\ en.d /\ ~dtlb_hit /\ dreq.page = walker'.page
    BY <1>4, <2>1, WalkGoesOn
  <2>3. dreq'.st # "none" /\ dreq'.page = dreq.page
    BY <1>1, <1>4, <2>2, DataStays
  <2> QED BY <1>2, <2>2, <2>3 DEF dtlb_hit
<1> QED BY <1>3, <1>4 DEF WalkWanted

\* The page tables T can give result k to a fetch, a load or a store.
fetchEnds(page, T, k) == \E l \in Level : ends(page, T, l, k, TRUE, FALSE) # {}

dataEnds(page, T, k, store) == \E l \in Level : ends(page, T, l, k, FALSE, store) # {}

\* More page tables, more results.
LEMMA FaultMonotone ==
  ASSUME NEW page, NEW T, NEW U, NEW k, NEW store, T \subseteq U
  PROVE  /\ fetchEnds(page, T, k) => fetchEnds(page, U, k)
         /\ dataEnds(page, T, k, store) => dataEnds(page, U, k, store)
<1>1. \A l \in Level : /\ ends(page, T, l, k, TRUE, FALSE) \subseteq ends(page, U, l, k, TRUE, FALSE)
                       /\ ends(page, T, l, k, FALSE, store) \subseteq ends(page, U, l, k, FALSE, store)
  BY EndsMonotone
<1> QED BY <1>1 DEF fetchEnds, dataEnds

\* A walk at one of its places that reads entry pte with result k.
LEMMA EndsNow ==
  ASSUME NEW page, NEW T, NEW l \in Level, NEW ppn \in places(page, T, l), NEW pte, NEW t \in T,
         pte = t[<<ppn, page[l]>>], NEW k, NEW instr, NEW store,
         result(pte, [lvl |-> l, ppn |-> ppn, instr |-> instr], store) = k
  PROVE  ends(page, T, l, k, instr, store) # {}
<1>1. pte \in reads(page, T, l, places(page, T, l), k, instr, store)
  BY ReadsIff
<1> QED BY <1>1 DEF ends

\* The page tables justify the fault in which a walk ends.
LEMMA FaultFound ==
  ASSUME ReadInv, ReadsFresh, WalkFresh, looksAt, ~answer.crossed,
         NEW p \in Page \ misread, p = walker.page, NEW k, k = result(answer.pte, walker, store_i)
  PROVE  /\ walker.instr => fetchEnds(p, tablesSince(p), k)
         /\ ~walker.instr /\ (store_i <=> dreq.store) => dataEnds(p, tablesSince(p), k, dreq.store)
<1>1. sameWay(p) /\ walker.lvl \in Level
  BY DEF sameWay, ReadInv, Shape
<1>2. /\ walker.ppn \in places(p, tablesSince(p), walker.lvl)
      /\ \E t \in tablesSince(p) : answer.pte = t[<<walker.ppn, p[walker.lvl]>>]
  BY <1>1, LookFresh
<1>3. PICK t \in tablesSince(p) : answer.pte = t[<<walker.ppn, p[walker.lvl]>>]
  BY <1>2
<1>4. ASSUME walker.instr
      PROVE  fetchEnds(p, tablesSince(p), k)
  <2>1. result(answer.pte, [lvl |-> walker.lvl, ppn |-> walker.ppn, instr |-> TRUE], FALSE) = k
    BY <1>4 DEF result, leafOk
  <2>2. ends(p, tablesSince(p), walker.lvl, k, TRUE, FALSE) # {}
    BY <1>1, <1>2, <1>3, <2>1, EndsNow
  <2> QED BY <1>1, <2>2 DEF fetchEnds
<1>5. ASSUME ~walker.instr, store_i <=> dreq.store
      PROVE  dataEnds(p, tablesSince(p), k, dreq.store)
  <2>1. result(answer.pte, [lvl |-> walker.lvl, ppn |-> walker.ppn, instr |-> FALSE], dreq.store) = k
    BY <1>5 DEF result, leafOk
  <2>2. ends(p, tablesSince(p), walker.lvl, k, FALSE, dreq.store) # {}
    BY <1>1, <1>2, <1>3, <2>1, EndsNow
  <2> QED BY <1>1, <2>2 DEF dataEnds
<1> QED BY <1>4, <1>5

\* FaultJustified, in these terms.
LEMMA FaultJustifiedIs ==
  FaultJustified <=>
    (raises /\ walker.page \notin misread =>
       /\ walker.instr => fetchEnds(walker.page, tablesSince(walker.page), kind)
       /\ ~walker.instr /\ ~doomed =>
            dataEnds(walker.page, tablesSince(walker.page), kind, dreq.store))
BY DEF FaultJustified, faults, fetchEnds, dataEnds

\* The walker reports only faults that the page tables justify.
LEMMA FaultJustifiedStep ==
  ASSUME ReadInv, FreshInv, Requests, WalkWanted, NEW x \in Env, Cycle(x)
  PROVE  FaultJustified'
<1>1. (FaultJustified <=>
        (raises /\ walker.page \notin misread =>
           /\ walker.instr => fetchEnds(walker.page, tablesSince(walker.page), kind)
           /\ ~walker.instr /\ ~doomed =>
                dataEnds(walker.page, tablesSince(walker.page), kind, dreq.store)))'
  BY FaultJustifiedIs, PTL
<1> SUFFICES ASSUME raises', walker'.page \notin misread'
             PROVE  /\ walker'.instr => fetchEnds(walker'.page, tablesSince(walker.page)', kind')
                    /\ ~walker'.instr /\ ~doomed' =>
                         dataEnds(walker'.page, tablesSince(walker.page)', kind', dreq'.store)
  BY <1>1
<1>2. busy'
  BY DEF raises, busy
<1>3. ~x.flush /\ ~raises /\ x.fence = {}
  BY <1>2, WalkGoesOn, EnvFacts
<1>4. Shape
  BY DEF ReadInv
<1>5. walker'.state \in {"PROPAGATE_ERROR", "PROPAGATE_ACCESS_ERROR"}
  BY DEF raises
<1>6. looksAt /\ walker' = afterLook
  <2>1. start.state \in {"IDLE", "WAIT_GRANT"}
    BY Start DEF NoWalk, begin
  <2>2. [walker EXCEPT !.state = "PTE_LOOKUP"].state = "PTE_LOOKUP" /\ NoWalk.state = "IDLE"
    BY <1>4 DEF Shape, NoWalk
  <2> QED BY <1>3, <1>4, <1>5, <2>1, <2>2, WalkerStep DEF looksAt, Shape, States, raises
<1>7. /\ kind' = result(answer.pte, walker, store_i)
      /\ walker'.page = walker.page /\ walker'.instr = walker.instr
  <2>1. /\ [walker EXCEPT !.state = "WAIT_GRANT", !.lvl = walker.lvl + 1, !.ppn = answer.pte.ppn].state = "WAIT_GRANT"
        /\ NoWalk.state = "IDLE"
    BY <1>4 DEF Shape, NoWalk
  <2>2. \/ /\ result(answer.pte, walker, store_i) = "access"
           /\ walker' = [walker EXCEPT !.state = "PROPAGATE_ACCESS_ERROR"]
        \/ /\ result(answer.pte, walker, store_i) = "fault"
           /\ walker' = [walker EXCEPT !.state = "PROPAGATE_ERROR"]
    BY <1>4, <1>5, <1>6, <2>1, AfterLook
  <2>3. CASE /\ result(answer.pte, walker, store_i) = "access"
             /\ walker' = [walker EXCEPT !.state = "PROPAGATE_ACCESS_ERROR"]
    <3>1. walker'.state = "PROPAGATE_ACCESS_ERROR" /\ walker'.page = walker.page /\ walker'.instr = walker.instr
      BY <1>4, <2>3 DEF Shape
    <3> QED BY <2>3, <3>1 DEF kind
  <2>4. CASE /\ result(answer.pte, walker, store_i) = "fault"
             /\ walker' = [walker EXCEPT !.state = "PROPAGATE_ERROR"]
    <3>1. walker'.state = "PROPAGATE_ERROR" /\ walker'.page = walker.page /\ walker'.instr = walker.instr
      BY <1>4, <2>4 DEF Shape
    <3> QED BY <2>4, <3>1 DEF kind
  <2> QED BY <2>2, <2>3, <2>4
<1>8. walker.page \in Page => tablesSince(walker.page)' = tablesSince(walker.page)
  <2>1. \A p \in Page : tablesSince(p)' = tablesSince(p)
    BY <1>3, SinceStep
  <2>2. tablesSince(walker.page)' = {tables'[t] : t \in since'[walker'.page]}
    BY DEF tablesSince
  <2>3. \A p \in Page : {tables'[t] : t \in since'[p]} = {tables[t] : t \in since[p]}
    BY <2>1 DEF tablesSince
  <2> QED BY <1>7, <2>2, <2>3 DEF tablesSince
<1>a. walker.page \in Page => walker.page \notin misread /\ ~answer.crossed
  BY <1>3, <1>6, <1>7, SinceStep
<1>9. ASSUME walker'.instr
      PROVE  fetchEnds(walker'.page, tablesSince(walker.page)', kind')
  <2>1. walker.page \in Page
    BY <1>2, <1>7, <1>9, WalkGoesOn DEF Requests
  <2>2. fetchEnds(walker.page, tablesSince(walker.page), kind')
    BY <1>6, <1>7, <1>9, <1>a, <2>1, FaultFound DEF FreshInv
  <2> QED BY <1>7, <1>8, <2>1, <2>2
<1>10. ASSUME ~walker'.instr, ~doomed'
       PROVE  dataEnds(walker'.page, tablesSince(walker.page)', kind', dreq'.store)
  <2>1. ~doomed
    BY <1>3, <1>10 DEF Cycle
  <2>2. dreq.st # "none" /\ en.d /\ ~dtlb_hit /\ dreq.page = walker'.page
    BY <1>2, <1>10, <2>1, WalkGoesOn
  <2>3. walker.page \in Page /\ (store_i <=> dreq.store)
    BY <1>7, <2>2 DEF Requests, store_i, dtlb_access
  <2>4. dreq'.store = dreq.store
    BY <1>3, <1>10, <2>2, DataStays
  <2>5. dataEnds(walker.page, tablesSince(walker.page), kind', dreq.store)
    BY <1>6, <1>7, <1>10, <1>a, <2>3, FaultFound DEF FreshInv
  <2> QED BY <1>7, <1>8, <2>3, <2>4, <2>5
<1> QED BY <1>9, <1>10

\* A change of the page tables leaves requests and walks as they are.
LEMMA FaultRemap ==
  ASSUME ReadInv, FreshInv, FaultInv, Remap
  PROVE  FaultInv'
<1>1. /\ walker' = walker /\ fetch' = fetch /\ dreq' = dreq /\ en' = en /\ doomed' = doomed
      /\ itlb' = itlb /\ dtlb' = dtlb /\ hist' = hist /\ misread' = misread
  BY DEF Remap
<1>2. Requests' /\ WalkWanted'
  BY <1>1 DEF FaultInv, Requests, WalkWanted, busy, itlb_hit, dtlb_hit
<1>3. (FaultJustified <=>
        (raises /\ walker.page \notin misread =>
           /\ walker.instr => fetchEnds(walker.page, tablesSince(walker.page), kind)
           /\ ~walker.instr /\ ~doomed =>
                dataEnds(walker.page, tablesSince(walker.page), kind, dreq.store)))'
  BY FaultJustifiedIs, PTL
<1>4. raises' = raises /\ kind' = kind
  BY <1>1 DEF raises, kind
<1>5. raises /\ (walker.instr \/ ~doomed) => walker.page \in Page
  BY DEF FaultInv, Requests, WalkWanted, busy, raises
<1>6. walker.page \in Page => tablesSince(walker.page) \subseteq tablesSince(walker.page)'
  <2>1. \A p \in Page : {tables[t] : t \in since[p]} \subseteq {tables'[t] : t \in since'[p]}
    BY RemapGrows DEF tablesSince
  <2> QED BY <1>1, <2>1 DEF tablesSince
<1>7. FaultJustified'
  BY <1>1, <1>3, <1>4, <1>5, <1>6, FaultJustifiedIs, FaultMonotone DEF FaultInv
<1> QED BY <1>2, <1>7 DEF FaultInv

\* Faults are wanted and justified in every reachable state.
LEMMA FaultsAlways ==
  Spec => []FaultInv
<1>1. Init => FaultInv
  BY DEF Init, FaultInv, Requests, WalkWanted, FaultJustified, raises, busy, NoWalk, NoReq, NoFetch
<1>2. ReadInv /\ FreshInv /\ FaultInv /\ [Next]_vars => FaultInv'
  <2> SUFFICES ASSUME ReadInv, FreshInv, FaultInv, [Next]_vars
               PROVE  FaultInv'
    OBVIOUS
  <2>1. ASSUME NEW x \in Env, Cycle(x)
        PROVE  FaultInv'
    BY <2>1, RequestsStep, WalkWantedStep, FaultJustifiedStep DEF FaultInv
  <2>2. CASE Remap
    BY <2>2, FaultRemap
  <2>3. CASE UNCHANGED vars
    <3>1. Requests' /\ WalkWanted'
      BY <2>3 DEF vars, FaultInv, Requests, WalkWanted, busy, itlb_hit, dtlb_hit
    <3>2. FaultJustified'
      BY <2>3 DEF vars, FaultInv, FaultJustified, raises, faults, kind, tablesSince, tables
    <3> QED BY <3>1, <3>2 DEF FaultInv
  <2> QED BY <2>1, <2>2, <2>3 DEF Next
<1> QED BY <1>1, <1>2, ReadsInOrder, FreshAlways, PTL DEF Spec

\* The fault of a walk, which mmu.sv gives to whatever request is up, goes to
\* the fetch, load or store that it was walked for, and the page tables since
\* the last fence justify it unless the walker has looked at a crossed answer
\* since then.
THEOREM FaultsOwn ==
  Spec => []FaultOwn
<1>1. FaultInv => FaultOwn
  <2> SUFFICES ASSUME FaultInv
               PROVE  FaultOwn
    OBVIOUS
  <2>1. raises => busy
    BY DEF raises, busy
  <2>2. raises /\ walker.instr =>
          /\ fetch.on /\ en.i /\ ~itlb_hit /\ fetch.page = walker.page
          /\ fetch.page \notin misread => faults(fetch.page, TRUE, FALSE)
    BY <2>1 DEF FaultInv, WalkWanted, FaultJustified
  <2>3. walkFault /\ ~doomed =>
          /\ dreq.st # "none" /\ dreq.page = walker.page /\ ~walker.instr
          /\ dreq.page \notin misread => faults(dreq.page, FALSE, dreq.store)
    BY <2>1 DEF FaultInv, WalkWanted, FaultJustified, walkFault
  <2> QED BY <2>2, <2>3 DEF FaultOwn
<1> QED BY <1>1, FaultsAlways, PTL
=============================================================================
