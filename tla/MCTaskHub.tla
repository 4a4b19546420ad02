----------------------------- MODULE MCTaskHub ------------------------------
(***************************************************************************)
(* TaskHub on a small instance.                                            *)
(***************************************************************************)
EXTENDS TaskHub, TLC

\* The counter is about to wrap: the next numbers are IdSpan - 1, 1, 2.
MCBootIds == {IdSpan - 1}

\* The HTTP threads all do the same.
MCSymmetry == Permutations(HttpThreads)
=============================================================================
