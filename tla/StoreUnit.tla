----------------------------- MODULE StoreUnit ------------------------------
(***************************************************************************)
(* The store unit's control (store_unit.sv), the one-entry AMO buffer      *)
(* (amo_buffer.sv) and the two-entry queue in front of load and store unit *)
(* (module lsu_bypass of load_store_unit.sv), as functions of their        *)
(* registers and the inputs of a cycle.                                    *)
(***************************************************************************)
EXTENDS Naturals

StoreState == {"IDLE", "VALID_STORE", "WAIT_TRANSLATION", "WAIT_STORE_READY"}

(* Inputs of the store unit:                                               *)
(*   valid, amo  the instruction at the head of the LSU is a store, an AMO *)
(*   hit         the data TLB translates its address                       *)
(*   st_ready    store buffer and AMO buffer have room                     *)
(*   ex          the MMU reports an exception                              *)
(*   flush       from the controller                                       *)

\* A store that is looked at in this cycle: an AMO is not taken while the
\* store before it is being pushed, the AMO buffer has only one entry.
taken(state, in) ==
    in.valid /\ (state = "IDLE" \/ (state = "VALID_STORE" /\ ~in.amo))

\* Mutant: the exception of a load is taken for one of the idle store unit.
trap_AnyState(state, in) == in.ex

\* An exception of the MMU belongs to the store unit if it is busy.
trap(state, in) == in.ex /\ state # "IDLE"

\* Mutant: a store that finds the buffer full goes on.
afterTake_NotReady(in) == IF in.hit THEN "VALID_STORE" ELSE "WAIT_TRANSLATION"

afterTake(in) ==
    IF ~in.st_ready THEN "WAIT_STORE_READY"
    ELSE IF ~in.hit THEN "WAIT_TRANSLATION" ELSE "VALID_STORE"

store_next(state, in) ==
    IF in.flush \/ trap(state, in) THEN "IDLE"
    ELSE IF taken(state, in) THEN afterTake(in)
    ELSE CASE state = "WAIT_STORE_READY" -> IF in.st_ready /\ in.hit THEN "IDLE" ELSE state
           [] state = "WAIT_TRANSLATION" -> IF in.hit THEN "IDLE" ELSE state
           [] OTHER -> "IDLE"

\* The instruction leaves the LSU's queue.
pop_st_o(state, in) ==
    (taken(state, in) /\ in.hit /\ in.st_ready) \/ trap(state, in)

\* The store is reported to the scoreboard.
valid_o(state, in) == state = "VALID_STORE" \/ trap(state, in)

\* The store is put into the store buffer or the AMO buffer.
st_valid(state, in) == state = "VALID_STORE" /\ ~in.flush /\ ~trap(state, in)

st_translation_req(state, in) ==
    taken(state, in) \/ state \in {"WAIT_STORE_READY", "WAIT_TRANSLATION"}

-----------------------------------------------------------------------------
(* The AMO buffer: a FIFO of depth one, `a' is the set of its elements.    *)

\* Mutant: the atomic is performed before the commit stage has reached it.
amo_req_o_Speculative(a, no_st_pending, amo_valid_commit) == no_st_pending /\ a # {}

amo_req_o(a, no_st_pending, amo_valid_commit) ==
    no_st_pending /\ amo_valid_commit /\ a # {}

\* Mutant: the buffer is not flushed.
amo_flush_Never(flush, amo_valid_commit) == FALSE

\* An AMO that the commit stage works on is not speculative any more.
amo_flush(flush, amo_valid_commit) == flush /\ ~amo_valid_commit

amo_next(a, push, item, ack, flush) ==
    IF flush THEN {}
    ELSE IF push /\ a = {} THEN {item}
    ELSE IF ack THEN {} ELSE a

-----------------------------------------------------------------------------
(* lsu_bypass: q has the two places mem, one-bit pointers rp and wp and    *)
(* the two-bit counter cnt.  A place is a request: valid, and what it asks *)
(* for.  Null is the empty request.                                        *)

\* What the units see: the oldest queued request, or the incoming one.
lsu_ctrl_o(q, req) == IF q.cnt = 0 THEN req ELSE q.mem[q.rp]

lsu_ready_o(q) == q.cnt = 0

Invalid(r) == [r EXCEPT !.valid = FALSE]

\* Mutant: the counter does not wrap when it is decremented.
status_cnt_NoWrap(cnt, push, pops) == cnt + push - pops

\* The two-bit counter.  It wraps below zero when an exception of the store
\* unit pops the queue although the store has left it already.
status_cnt(cnt, push, pops) == (cnt + push + 4 - pops) % 4

lsu_bypass_next(q, req, pop_ld, pop_st, flush, Null) ==
    LET pops  == (IF pop_ld THEN 1 ELSE 0) + (IF pop_st THEN 1 ELSE 0)
        push  == IF req.valid THEN 1 ELSE 0
        wrote == IF req.valid THEN [q.mem EXCEPT ![q.wp] = req] ELSE q.mem
        empty == [i \in {0, 1} |-> Null]
    IN  IF flush
        THEN [mem |-> empty, rp |-> 0, wp |-> 0, cnt |-> 0]
        ELSE [mem |-> CASE pops = 2 -> empty
                        [] pops = 1 -> [wrote EXCEPT ![q.rp] = Invalid(@)]
                        [] OTHER    -> wrote,
              rp  |-> (q.rp + pops) % 2,
              wp  |-> (q.wp + push) % 2,
              cnt |-> status_cnt(q.cnt, push, pops)]
=============================================================================
