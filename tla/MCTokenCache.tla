---------------------------- MODULE MCTokenCache ----------------------------
(* TokenCache for TLC: the goroutines are interchangeable. *)
EXTENDS TokenCache, TLC

CallerSymmetry == Permutations(Goroutines)
=============================================================================
