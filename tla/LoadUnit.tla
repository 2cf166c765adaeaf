------------------------------ MODULE LoadUnit ------------------------------
(***************************************************************************)
(* The load unit (load_unit.sv) and the data cache controller on its port  *)
(* (wt_dcache_ctrl.sv), as functions from their registers and the inputs   *)
(* of a cycle to their outputs and next registers.                         *)
(*                                                                         *)
(* A load first presents its index to the cache, which grants it, and one  *)
(* cycle later the tag, when the address has been translated.  It can      *)
(* still be killed then: by a TLB miss, an exception or a flush.           *)
(***************************************************************************)
EXTENDS Naturals

LoadState == {"IDLE", "WAIT_GNT", "SEND_TAG", "WAIT_PAGE_OFFSET", "ABORT_TRANSACTION",
              "ABORT_TRANSACTION_NI", "WAIT_TRANSLATION", "WAIT_FLUSH", "WAIT_WB_EMPTY"}

(* Inputs of the load unit:                                                *)
(*   valid    the instruction at the head of the LSU is a load             *)
(*   matches  a pending store has its page offset                          *)
(*   hit      the data TLB translates its address                          *)
(*   stall_ni it reads a non-idempotent location and is not yet the oldest *)
(*            instruction, or stores are in flight                         *)
(*   wb_ok    no non-idempotent store is in the cache's write buffer       *)
(*   ex       the MMU reports an exception                                 *)
(*   gnt, rvalid  from the cache;  flush  from the controller              *)

\* Mutant: the page offset is not compared while a tag is being sent.
mayRequest_SendTagUnchecked(state, in) ==
    in.valid /\ state \in {"IDLE", "SEND_TAG"} /\ (in.matches => state = "SEND_TAG")

\* A new load may be presented to the cache in this cycle.
mayRequest(state, in) == in.valid /\ state \in {"IDLE", "SEND_TAG"} /\ ~in.matches

\* req_port_o.data_req
data_req_o(state, in) == mayRequest(state, in) \/ state = "WAIT_GNT"

kill_req_o(state, in) ==
    \/ state \in {"ABORT_TRANSACTION", "ABORT_TRANSACTION_NI", "WAIT_FLUSH"}
    \/ state = "SEND_TAG" /\ in.ex

translation_req_o(state, in) ==
    \/ in.valid /\ state \in {"IDLE", "SEND_TAG"}
    \/ state \in {"WAIT_TRANSLATION", "WAIT_GNT"}

\* Where a request goes, depending on grant and translation.
afterRequest(in) ==
    CASE ~in.gnt                -> "WAIT_GNT"
      [] in.gnt /\ ~in.hit      -> "ABORT_TRANSACTION"
      [] in.gnt /\ in.hit       -> IF in.stall_ni THEN "ABORT_TRANSACTION_NI" ELSE "SEND_TAG"

\* Mutant: after a flush the unit goes back to work at once.
afterFlush_Idle == "IDLE"

\* A flush sends the unit through a cycle in which it kills its request.
afterFlush == "WAIT_FLUSH"

\* An exception ends the current round.  It may be the exception of a store
\* that was translated in the cycle before; then the load is younger.
trapped(in) == in.ex /\ in.valid

load_next(state, in) ==
    IF in.flush THEN afterFlush
    ELSE IF trapped(in) THEN "IDLE"
    ELSE CASE state \in {"IDLE", "SEND_TAG"} ->
                IF ~in.valid THEN "IDLE"
                ELSE IF mayRequest(state, in) THEN afterRequest(in) ELSE "WAIT_PAGE_OFFSET"
           [] state = "WAIT_GNT"             -> afterRequest(in)
           [] state = "WAIT_PAGE_OFFSET"     -> IF in.matches THEN state ELSE "WAIT_GNT"
           [] state = "ABORT_TRANSACTION"    -> "WAIT_TRANSLATION"
           [] state = "ABORT_TRANSACTION_NI" -> "WAIT_WB_EMPTY"
           [] state = "WAIT_WB_EMPTY"        -> IF in.wb_ok THEN "WAIT_TRANSLATION" ELSE state
           [] state = "WAIT_TRANSLATION"     -> IF in.hit THEN "WAIT_GNT" ELSE state
           [] state = "WAIT_FLUSH"           -> "IDLE"

\* The load leaves the LSU's queue.
pop_ld_o(state, in) ==
    \/ data_req_o(state, in) /\ in.gnt /\ in.hit /\ ~in.stall_ni
    \/ trapped(in) /\ ~in.rvalid

\* Its transaction id is kept until the data arrives.
save_load_data(state, in) == pop_ld_o(state, in) /\ ~in.ex

(* rvalid_output: which result is written back, if any: that of the load   *)
(* in the cache ("data"), its exception ("ex"), the exception of the load  *)
(* at the head of the queue ("head_ex"), or nothing.                       *)
rvalid_output(state, in) ==
    CASE in.valid /\ in.ex /\ ~in.rvalid -> "head_ex"
      [] in.rvalid /\ state \notin {"WAIT_FLUSH", "WAIT_TRANSLATION"} /\ in.ex /\ state = "SEND_TAG" -> "ex"
      [] in.rvalid /\ state \notin {"WAIT_FLUSH", "WAIT_TRANSLATION"} /\ ~kill_req_o(state, in) -> "data"
      [] OTHER -> "none"

-----------------------------------------------------------------------------
(* The cache controller.  `ev' is what the tag and data memories and the   *)
(* miss unit do in this cycle:                                             *)
(*   ack      the memories accept the read (rd_ack_i)                      *)
(*   hit      the line is there (rd_hit_oh_i)                              *)
(*   again    the look-up must be repeated (wr_cl_vld_i or ~rd_ack_q)      *)
(*   miss_ack, miss_replay, miss_rtrn  from the miss unit                  *)

CtrlState == {"IDLE", "READ", "MISS_REQ", "MISS_WAIT", "KILL_MISS", "KILL_MISS_ACK",
              "REPLAY_REQ", "REPLAY_READ"}

CtrlEvent == {"none", "ack", "hit", "hit_ack", "again", "miss_ack", "miss_replay", "miss_rtrn"}

looksUp(c, tag_valid) == (c = "READ" /\ tag_valid) \/ c = "REPLAY_READ"

ctrl_rvalid(c, kill, tag_valid, ev) ==
    \/ kill /\ c \in {"READ", "REPLAY_READ", "MISS_REQ", "MISS_WAIT", "REPLAY_REQ"}
    \/ looksUp(c, tag_valid) /\ ev \in {"hit", "hit_ack"}
    \/ c = "MISS_WAIT" /\ ev = "miss_rtrn"

ctrl_gnt(c, req, kill, tag_valid, ev) ==
    /\ req
    /\ \/ c = "IDLE" /\ ev = "ack"
       \/ looksUp(c, tag_valid) /\ ~kill /\ ev = "hit_ack"

ctrl_next(c, req, kill, tag_valid, ev) ==
    CASE c = "IDLE" -> IF req /\ ev = "ack" THEN "READ" ELSE "IDLE"
      [] c \in {"READ", "REPLAY_READ"} ->
           IF kill THEN "IDLE"
           ELSE IF ~looksUp(c, tag_valid) THEN c
           ELSE IF ev = "again" THEN "REPLAY_REQ"
           ELSE IF ev = "hit" THEN "IDLE"
           ELSE IF ev = "hit_ack" THEN (IF req THEN "READ" ELSE "IDLE")
           ELSE "MISS_REQ"
      [] c = "MISS_REQ" ->
           IF kill THEN (IF ev = "miss_ack" THEN "KILL_MISS" ELSE "KILL_MISS_ACK")
           ELSE IF ev = "miss_replay" THEN "REPLAY_REQ"
           ELSE IF ev = "miss_ack" THEN "MISS_WAIT" ELSE c
      [] c = "MISS_WAIT" ->
           IF ev = "miss_rtrn" THEN "IDLE" ELSE IF kill THEN "KILL_MISS" ELSE c
      [] c = "REPLAY_REQ" ->
           IF kill THEN "IDLE" ELSE IF ev = "ack" THEN "REPLAY_READ" ELSE c
      [] c = "KILL_MISS_ACK" ->
           IF ev = "miss_replay" THEN "IDLE" ELSE IF ev = "miss_ack" THEN "KILL_MISS" ELSE c
      [] c = "KILL_MISS" -> IF ev = "miss_rtrn" THEN "IDLE" ELSE c

\* The events that make a difference in a state of the controller.
ctrl_events(c) ==
    CASE c \in {"IDLE", "REPLAY_REQ"}         -> {"none", "ack"}
      [] c \in {"READ", "REPLAY_READ"}        -> {"none", "hit", "hit_ack", "again"}
      [] c \in {"MISS_REQ", "KILL_MISS_ACK"}  -> {"none", "miss_ack", "miss_replay"}
      [] c \in {"MISS_WAIT", "KILL_MISS"}     -> {"none", "miss_rtrn"}
=============================================================================
