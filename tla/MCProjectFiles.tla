--------------------------- MODULE MCProjectFiles ---------------------------
(* Symmetry for the runs of ProjectFiles.                                  *)
EXTENDS ProjectFiles

Symmetry == Permutations(Threads) \cup Permutations(Dirs)
=============================================================================
