---------------------------- MODULE MCAtomicFile ----------------------------
(* Two tasks, one on each core, saving one of two versions of a file. *)
EXTENDS AtomicFile, TLC

Symmetric == Permutations(Tasks) \cup Permutations(Contents)

=============================================================================
