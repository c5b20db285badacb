---------------------------- MODULE MCAtomicFile ----------------------------
(* AtomicFile for TLC: processes, contents and inodes are interchangeable. *)
EXTENDS AtomicFile, TLC

FileSymmetry ==
  Permutations(Writers) \cup Permutations(Values) \cup Permutations(Inodes)
=============================================================================
