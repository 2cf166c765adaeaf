----------------------------- MODULE MCFrontend -----------------------------
(* Instances of the front end for model checking.                          *)
EXTENDS Frontend

plain(c) == [comp |-> c, kind |-> "none", target |-> 0]
flow(c, k, t) == [comp |-> c, kind |-> k, target |-> t]

memory(m) == [a \in 0..SIZE |-> IF a = SIZE THEN Blank ELSE m[a + 1]]

\* Compressed and uncompressed instructions at both alignments, instructions
\* across words, control flow in the first, the second and in both slots, with
\* targets at both alignments.
Mixed == <<
    memory(<<plain(TRUE), flow(FALSE, "branch", 5), plain(TRUE), flow(TRUE, "return", 0),
             plain(FALSE), flow(FALSE, "jump", 3), plain(TRUE), flow(TRUE, "branch", 1)>>),
    memory(<<flow(TRUE, "branch", 3), flow(TRUE, "jump", 4), plain(FALSE), plain(FALSE),
             plain(TRUE), flow(FALSE, "jalr", 0), flow(FALSE, "branch", 2), plain(TRUE)>>),
    memory(<<plain(FALSE), plain(TRUE), plain(TRUE), plain(TRUE),
             plain(TRUE), flow(TRUE, "branch", 0), plain(TRUE), plain(FALSE)>>)>>
=============================================================================
