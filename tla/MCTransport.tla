----------------------------- MODULE MCTransport -----------------------------
(* Transport for TLC: the goroutines are interchangeable. *)
EXTENDS Transport, TLC

CallerSymmetry == Permutations(Goroutines)
=============================================================================
