----------------------------- MODULE StoreQueue -----------------------------
(***************************************************************************)
(* What the store buffer promises to the rest of the load/store unit,      *)
(* without pointers, valid flags or counters.                              *)
(*                                                                         *)
(* Stores wait in program order, first speculatively, then, once the       *)
(* commit stage has retired them, unconditionally.  A pipeline flush drops *)
(* the speculative ones and no other; the memory takes the retired ones    *)
(* one at a time, oldest first.                                            *)
(***************************************************************************)
EXTENDS Sequences

CONSTANT Store  \* what a store carries to the memory

VARIABLES
    specq,   \* executed, not yet retired stores, oldest first
    commq    \* retired stores the data cache has not granted yet

vars == <<specq, commq>>

Init ==
    /\ specq = <<>>
    /\ commq = <<>>

\* The stores that are left once the cache has granted the head, if it did.
Drained(grant) == IF grant THEN Tail(commq) ELSE commq

\* A clock cycle without a flush: a store may be executed, the oldest
\* speculative store may retire, the oldest retired store may be granted.
Advance(pushed, retire, grant) ==
    /\ retire => specq # <<>>
    /\ grant => commq # <<>>
    /\ specq' = (IF retire THEN Tail(specq) ELSE specq) \o pushed
    /\ commq' = IF retire THEN Append(Drained(grant), Head(specq))
                          ELSE Drained(grant)

\* A clock cycle with a flush: nothing retires and nothing is executed.
Flush(grant) ==
    /\ grant => commq # <<>>
    /\ specq' = <<>>
    /\ commq' = Drained(grant)

Next ==
    \E grant \in BOOLEAN :
        \/ Flush(grant)
        \/ \E retire \in BOOLEAN,
              pushed \in {<<>>} \union {<<s>> : s \in Store} :
              Advance(pushed, retire, grant)

Spec == Init /\ [][Next]_vars
=============================================================================
