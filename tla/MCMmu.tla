------------------------------- MODULE MCMmu --------------------------------
(* An instance of the MMU for model checking.                              *)
EXTENDS Mmu

pointer(ppn) == [NoPte EXCEPT !.v = TRUE, !.ppn = ppn]

leaf(ppn, x, w) ==
    [v |-> TRUE, leaf |-> TRUE, x |-> x, r |-> TRUE, w |-> w, aligned |-> TRUE, ppn |-> ppn]

\* A small page has an address that no superpage can have.
small(ppn, x, w) == [leaf(ppn, x, w) EXCEPT !.aligned = FALSE]

\* Two pages that differ in the last level, so that a superpage can hold both.
Pages == {<<0, 0, 0>>, <<0, 0, 1>>}

\* A page table from the entries that are valid.
table(e00, e10, e20, e21) ==
    [a \in {0, 1, 2, 3} \X {0, 1} |->
        CASE a = <<0, 0>> -> e00 [] a = <<1, 0>> -> e10 [] a = <<2, 0>> -> e20 [] a = <<2, 1>> -> e21
          [] OTHER -> NoPte]

\* Small pages: an executable and a writable one.
Small == table(pointer(1), pointer(2), small(10, TRUE, FALSE), small(11, FALSE, TRUE))

\* A superpage over both.
Super == table(pointer(1), leaf(12, TRUE, TRUE), NoPte, NoPte)

\* A superpage that is not aligned.
Misaligned == table([leaf(13, TRUE, TRUE) EXCEPT !.aligned = FALSE], NoPte, NoPte, NoPte)

\* One page is mapped, for the other there is a pointer in the last level.
Partial == table(pointer(1), pointer(2), small(14, TRUE, TRUE), pointer(1))

\* The second level is in a page that the walker may not read.
Denied == table(pointer(3), NoPte, NoPte, NoPte)

\* Everything is translated, or nothing.
On == [i |-> TRUE, d |-> TRUE]
Off == [i |-> FALSE, d |-> FALSE]

\* Aligned and misaligned loads and stores.
access(page, mis) == {[page |-> page, store |-> st, mis |-> mis] : st \in BOOLEAN}
Aligned == UNION {access(p, FALSE) : p \in Pages}
Any == Aligned \union access(<<0, 0, 0>>, TRUE)

scenario(ts, ms, as, crossing) == [tables |-> ts, modes |-> ms, accesses |-> as, crossing |-> crossing]

\* Flushes can follow each other in all of them.  What the crossed answers of
\* the last three leave in the TLBs multiplies the states, hence their tables
\* and accesses are few.
Changes == << scenario(<<Super, Small>>, {On}, Aligned, FALSE),
              scenario(<<Denied, Partial>>, {On}, Any, FALSE),
              scenario(<<Misaligned>>, {On, Off}, Any, TRUE),
              scenario(<<Denied, Misaligned>>, {On}, Aligned, TRUE),
              scenario(<<Super>>, {On}, access(<<0, 0, 0>>, FALSE), TRUE) >>

CodePages == {<<0, 0, 0>>}
=============================================================================
