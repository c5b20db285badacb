----------------------------- MODULE MCWaitPoll -----------------------------
(* WaitPoll for TLC: the option records and time bounds of the runs. *)
EXTENDS WaitPoll

\* Zero means unset: the defaults stand in.
MCDefaults == [initial |-> 1, max |-> 4, total |-> 9, mult |-> 2]
MCOptions  == [initial : {0, 2}, max : {0, 3}, total : {0, 7}, mult : {0, 1, 3}]
=============================================================================
