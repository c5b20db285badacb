------------------------------ MODULE MCLogin -------------------------------
(* Login for TLC: what Auth0 may send with a device code. *)
EXTENDS Login

MCIntervals == {0, 1, 3}
MCLifetimes == {0, 11}
=============================================================================
