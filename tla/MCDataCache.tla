---------------------------- MODULE MCDataCache -----------------------------
(* Instances of the data cache for model checking.                         *)
EXTENDS DataCache

\* Words of two lines, one of them in another bank, and a non-idempotent one.
x0 == <<0, 0>>
x1 == <<0, 1>>
y0 == <<1, 0>>
n0 == <<2, 0>>

loads(ptw, lsu) == [p \in Port |-> IF p = 0 THEN ptw ELSE lsu]

stores(w, bs) == {<<w, {b}>> : b \in bs}

Workloads ==
    { \* Two bytes of a word that do not fit into one transaction, atomics on the
      \* word, loads of it that may be killed.
      [loads |-> loads({}, {x0}), stores |-> stores(x0, Byte), amos |-> {x0},
       en |-> {TRUE}, kill |-> BOOLEAN],
      \* Both read ports miss on one line.
      [loads |-> loads({x0}, {x0}), stores |-> stores(x0, {1}), amos |-> {},
       en |-> {TRUE}, kill |-> {FALSE}],
      \* Lines replace each other; banks are read and written at the same time.
      [loads |-> loads({}, {x0, y0}), stores |-> stores(x0, {1}), amos |-> {},
       en |-> {TRUE}, kill |-> {FALSE}],
      [loads |-> loads({}, {x0, x1}), stores |-> stores(x0, {1}), amos |-> {},
       en |-> {TRUE}, kill |-> {FALSE}],
      \* The cache is switched off and on.
      [loads |-> loads({}, {x0}), stores |-> stores(x0, {1}), amos |-> {},
       en |-> BOOLEAN, kill |-> {FALSE}],
      \* Two words in the write buffer, one of them non-idempotent.
      [loads |-> loads({}, {n0}), stores |-> stores(x0, {1}) \union stores(n0, {1}), amos |-> {},
       en |-> {TRUE}, kill |-> {FALSE}] }

-----------------------------------------------------------------------------
(* The two values of a byte are interchangeable: a state is explored once  *)
(* for all ways of naming them, by recording of every copy of a byte only  *)
(* whether it is the current one.  (TypeOK is in the view because TLC only *)
(* writes functions to disk that it has evaluated.)                        *)

same(w, d) == {b \in Byte : b \in d <=> b \in ref[w]}

line(l, d) == [o \in Off |-> same(<<l, o>>, d[o])]

View ==
    <<work, [e \in Entry |-> IF wbuffer[e].valid = {} THEN <<>>
                       ELSE [wbuffer[e] EXCEPT !.data = same(wbuffer[e].wtag, @) \intersect wbuffer[e].valid,
                                               !.hit = IF wbuffer[e].checked THEN @ ELSE {}]],
      ni_pending,
      [t \in Tx |-> IF tx[t].vld THEN tx[t] ELSE <<>>],
      rtrn,
      [lookup EXCEPT !.data = IF lookup.who \in Port THEN same(port[lookup.who].word, @) ELSE {}],
      check, wr_cl_q,
      [y \in Way |-> IF ways[y].vld THEN <<ways[y].line, line(ways[y].line, ways[y].data)>> ELSE <<>>],
      IF mu.vld \/ mu.vld1 THEN mu ELSE [mu EXCEPT !.word = NoWord, !.nc = FALSE, !.way = 0, !.port = W],
      [p \in Port |-> [port[p] EXCEPT !.legal = {same(port[p].word, d) : d \in @}]],
      [k \in DOMAIN writes |-> [writes[k] EXCEPT !.data = same(writes[k].word, @) \intersect writes[k].be]],
      IF read.st = "done" THEN line(lineOf(mu.word), read.data) ELSE read.st,
      amo, [w \in Word |-> same(w, mem[w])], stale, owed, TypeOK>>
=============================================================================
