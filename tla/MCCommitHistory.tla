--------------------------- MODULE MCCommitHistory ---------------------------
(***************************************************************************)
(* CommitHistory for TLC: the threads are interchangeable, every action    *)
(* and every property treats them alike.                                   *)
(***************************************************************************)
EXTENDS CommitHistory

ThreadSymmetry == Permutations(Threads)
=============================================================================
