------------------------------ MODULE MCSession -----------------------------
(* Session for TLC: the processes are interchangeable. *)
EXTENDS Session, TLC

ProcessSymmetry == Permutations(Processes)
=============================================================================
