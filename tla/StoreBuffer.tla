---------------------------- MODULE StoreBuffer -----------------------------
(***************************************************************************)
(* The store buffer of the load/store unit (store_buffer.sv): a            *)
(* speculative ring buffer that executed stores enter and a commit ring    *)
(* buffer that they move to when the commit stage retires them, drained    *)
(* into the data cache.  One step is one clock cycle.  The operators       *)
(* core_if and store_if are the combinational processes of the same name:  *)
(* they map the registers and the inputs of the cycle to the registers of  *)
(* the next one.                                                           *)
(*                                                                         *)
(* A store is its page number, its double word within the page (bits 11:3  *)
(* of the address, which is what loads are compared with) and what it      *)
(* writes there (data, byte enables and size).                             *)
(***************************************************************************)
EXTENDS Integers, Sequences

CONSTANTS
    DEPTH_SPEC,     \* entries of the speculative queue
    DEPTH_COMMIT,   \* entries of the commit queue
    Page, Dword, Data

ASSUME DepthAssumption ==
    /\ DEPTH_SPEC \in Nat \ {0}
    /\ DEPTH_COMMIT \in Nat \ {0}

ASSUME StoreAssumption == Page # {} /\ Dword # {} /\ Data # {}

Store == [page : Page, dword : Dword, data : Data]

Entry == [st : Store, valid : BOOLEAN]

\* The contents of a cleared entry; no one may rely on them.
NullEntry == [st |-> CHOOSE s \in Store : TRUE, valid |-> FALSE]

-----------------------------------------------------------------------------
(* Pointers are $clog2(depth) bits and status counters one bit more: both  *)
(* wrap around.                                                            *)

\* Mutant: the pointer register is one bit too wide.
IncPtr_NoWrap(p, depth) == IF p = 2 * depth - 1 THEN 0 ELSE p + 1

IncPtr(p, depth) == IF p = depth - 1 THEN 0 ELSE p + 1

IncCnt(c, depth) == IF c = 2 * depth - 1 THEN 0 ELSE c + 1

DecCnt(c, depth) == IF c = 0 THEN 2 * depth - 1 ELSE c - 1

Ring(depth) ==
    [queue : [0 .. depth - 1 -> Entry],
     rd    : 0 .. depth - 1,
     wr    : 0 .. depth - 1,
     cnt   : 0 .. 2 * depth - 1]

ResetRing(depth) ==
    [queue |-> [i \in 0 .. depth - 1 |-> NullEntry], rd |-> 0, wr |-> 0, cnt |-> 0]

-----------------------------------------------------------------------------
(* The inputs of a cycle.  valid: the store unit pushes store `st'; commit *)
(* : the commit stage retires the oldest store; flush: the controller      *)
(* flushes the execute stage; gnt: the data cache grants a request, if     *)
(* there is one.                                                           *)

Input == [valid : BOOLEAN, st : Store, commit : BOOLEAN, flush : BOOLEAN, gnt : BOOLEAN]

ready_o(s, commit) == s.cnt < DEPTH_SPEC - 1 \/ commit

commit_ready_o(c) == c.cnt < DEPTH_COMMIT

no_st_pending_o(c) == c.cnt = 0

store_buffer_empty_o(s, c) == s.cnt = 0 /\ no_st_pending_o(c)

\* Mutant: a full queue waits for space before it requests.
data_req_NotWhenFull(c) == c.queue[c.rd].valid /\ c.cnt < DEPTH_COMMIT

data_req(c) == c.queue[c.rd].valid

\* Mutant: a flush resets the write pointer and forgets the read pointer.
FlushPtr_Zero(s) == 0

\* Where the speculative queue is written after a flush.
FlushPtr(s) == s.rd

\* Mutant: the store that was pushed last is retired, as the comment on port
\* commit_i has it.
Oldest_Youngest(s) == s.queue[IF s.wr = 0 THEN DEPTH_SPEC - 1 ELSE s.wr - 1]

\* The entry that the commit queue takes over when a store retires.
Oldest(s) == s.queue[s.rd]

\* The speculative queue in the next cycle.
core_if(s, in) ==
    LET pushed  == IF in.valid
                   THEN [s.queue EXCEPT ![s.wr] = [st |-> in.st, valid |-> TRUE]]
                   ELSE s.queue
        evicted == IF in.commit
                   THEN [pushed EXCEPT ![s.rd] = [st |-> pushed[s.rd].st, valid |-> FALSE]]
                   ELSE pushed
        cntPush == IF in.valid THEN IncCnt(s.cnt, DEPTH_SPEC) ELSE s.cnt
        cnt     == IF in.commit THEN DecCnt(cntPush, DEPTH_SPEC) ELSE cntPush
    IN  [queue |-> IF in.flush
                   THEN [i \in 0 .. DEPTH_SPEC - 1 |-> [st |-> evicted[i].st, valid |-> FALSE]]
                   ELSE evicted,
         rd    |-> IF in.commit THEN IncPtr(s.rd, DEPTH_SPEC) ELSE s.rd,
         wr    |-> IF in.flush THEN FlushPtr(s)
                   ELSE IF in.valid THEN IncPtr(s.wr, DEPTH_SPEC) ELSE s.wr,
         cnt   |-> IF in.flush THEN 0 ELSE cnt]

\* The commit queue in the next cycle.
store_if(s, c, in) ==
    LET grant   == data_req(c) /\ in.gnt
        drained == IF grant
                   THEN [c.queue EXCEPT ![c.rd] = [st |-> c.queue[c.rd].st, valid |-> FALSE]]
                   ELSE c.queue
        cntPop  == IF grant THEN DecCnt(c.cnt, DEPTH_COMMIT) ELSE c.cnt
    IN  [queue |-> IF in.commit
                   THEN [drained EXCEPT ![c.wr] = Oldest(s)]
                   ELSE drained,
         rd    |-> IF grant THEN IncPtr(c.rd, DEPTH_COMMIT) ELSE c.rd,
         wr    |-> IF in.commit THEN IncPtr(c.wr, DEPTH_COMMIT) ELSE c.wr,
         cnt   |-> IF in.commit THEN IncCnt(cntPop, DEPTH_COMMIT) ELSE cntPop]

\* Mutant: the last place of the speculative queue is not compared.
page_offset_matches_o_OffByOne(s, c, putting, dword) ==
    \/ \E i \in 0 .. DEPTH_COMMIT - 1 : c.queue[i].valid /\ c.queue[i].st.dword = dword
    \/ \E i \in 0 .. DEPTH_SPEC - 2 : s.queue[i].valid /\ s.queue[i].st.dword = dword
    \/ \E st \in putting : st.dword = dword

\* The answer to a load that asks whether its double word is in the buffer
\* or is being put there: `putting' is the set with the store in the store
\* unit's output register, empty when there is none.
page_offset_matches_o(s, c, putting, dword) ==
    \/ \E i \in 0 .. DEPTH_COMMIT - 1 : c.queue[i].valid /\ c.queue[i].st.dword = dword
    \/ \E i \in 0 .. DEPTH_SPEC - 1 : s.queue[i].valid /\ s.queue[i].st.dword = dword
    \/ \E st \in putting : st.dword = dword

-----------------------------------------------------------------------------
VARIABLES
    spec,   \* speculative_queue_q and its pointers and counter
    comm    \* commit_queue_q and its pointers and counter

vars == <<spec, comm>>

Init ==
    /\ spec = ResetRing(DEPTH_SPEC)
    /\ comm = ResetRing(DEPTH_COMMIT)

\* What the assertions at the end of store_buffer.sv ask of the inputs, and that
\* the store unit pushes nothing in the cycle of a flush (store_unit.sv:111).
\* (LoadStoreUnit shows which of them the surrounding logic keeps.)
InputContract(in) ==
    /\ in.flush => ~in.commit
    /\ in.flush => ~in.valid
    /\ spec.cnt = DEPTH_SPEC => ~in.valid
    /\ spec.cnt = 0 => ~in.commit
    /\ comm.cnt = DEPTH_COMMIT => ~in.commit

Cycle(in) ==
    /\ InputContract(in)
    /\ spec' = core_if(spec, in)
    /\ comm' = store_if(spec, comm, in)

Next == \E in \in Input : Cycle(in)

\* The cache keeps granting: there is a next cycle in which it does.
Fairness ==
    WF_vars(\E in \in Input : data_req(comm) /\ in.gnt /\ Cycle(in))

Spec == Init /\ [][Next]_vars

FairSpec == Spec /\ Fairness

-----------------------------------------------------------------------------
(* The view of a ring buffer as a queue: its cnt entries from rd on.       *)

At(p, i, depth) == IF p + i < depth THEN p + i ELSE p + i - depth

Contents(r, depth) == [i \in 1 .. r.cnt |-> r.queue[At(r.rd, i - 1, depth)].st]

specq == Contents(spec, DEPTH_SPEC)
commq == Contents(comm, DEPTH_COMMIT)

Queue == INSTANCE StoreQueue

-----------------------------------------------------------------------------
(* Properties.                                                             *)

\* The registers hold values of their type.
TypeOK ==
    /\ spec \in Ring(DEPTH_SPEC)
    /\ comm \in Ring(DEPTH_COMMIT)

\* A ring's pointers, counter and valid flags agree: the write pointer is cnt
\* places after the read pointer and exactly the places between them are valid.
RingConsistent(r, depth) ==
    /\ r.cnt <= depth
    /\ r.wr = At(r.rd, r.cnt, depth)
    /\ \A i \in 0 .. depth - 1 : r.queue[At(r.rd, i, depth)].valid <=> i < r.cnt

\* Pointers, counters and flags, which the code updates independently of one
\* another, never drift apart, whatever mixture of pushes, retirements, grants
\* and flushes happens in one cycle.
Consistent ==
    /\ RingConsistent(spec, DEPTH_SPEC)
    /\ RingConsistent(comm, DEPTH_COMMIT)

\* The buffer is the abstract pair of queues: no store is lost, duplicated or
\* reordered between execution and the cache, and a flush drops the
\* speculative stores and nothing else.
Refinement == Queue!Spec

\* A store that is on its way to memory is seen by every load to its double
\* word: the address checker looks at flags only, yet misses no queued store.
Pending == {specq[i] : i \in DOMAIN specq} \union {commq[i] : i \in DOMAIN commq}

CheckerComplete ==
    \A dword \in Dword :
        page_offset_matches_o(spec, comm, {}, dword) <=> \E st \in Pending : st.dword = dword

\* Every retired store reaches the cache: a place of the commit queue that
\* becomes valid becomes free again, which is what fences wait for.
Drains ==
    \A i \in 0 .. DEPTH_COMMIT - 1 : comm.queue[i].valid ~> ~comm.queue[i].valid
=============================================================================
