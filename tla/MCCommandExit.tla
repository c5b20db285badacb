--------------------------- MODULE MCCommandExit ----------------------------
(* CommandExit for TLC: a problem's status member, if any, repeats the response's. *)
EXTENDS CommandExit

MCTried == {r \in Responses : r.body.status \in {NoMember, r.status}}
=============================================================================
