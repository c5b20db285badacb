--------------------------- MODULE MCEnvCommands ----------------------------
(* EnvCommands for TLC: invocations are interchangeable. *)
EXTENDS EnvCommands, TLC

InvocationSymmetry == Permutations(Invocations)
=============================================================================
