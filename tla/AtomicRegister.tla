--------------------------- MODULE AtomicRegister ---------------------------
(***************************************************************************)
(* What the comments on writeCredentials, writeCache and SaveFile promise   *)
(* of a file that is replaced "atomically": a write that succeeds replaces  *)
(* the whole content, one that fails changes nothing, and a read returns    *)
(* the content that was last written in full.                               *)
(***************************************************************************)
CONSTANTS Writers, Readers, Values,
          Absent          \* the file does not exist

VARIABLES stored,         \* the content of the file
          want,           \* the content each writer was last asked to store
          result,         \* how each writer's last write ended
          seen            \* the content each reader last obtained

vars == <<stored, want, result, seen>>

Init ==
  /\ stored \in Values \cup {Absent}
  /\ want \in [Writers -> Values]
  /\ result = [w \in Writers |-> "none"]
  /\ seen = [r \in Readers |-> Absent]

Ask(w, v) ==
  /\ want' = [want EXCEPT ![w] = v]
  /\ UNCHANGED <<stored, result, seen>>

Write(w) ==
  /\ stored' = want[w]
  /\ result' = [result EXCEPT ![w] = "ok"]
  /\ UNCHANGED <<want, seen>>

Fail(w) ==
  /\ result' = [result EXCEPT ![w] = "error"]
  /\ UNCHANGED <<stored, want, seen>>

Read(r) ==
  /\ seen' = [seen EXCEPT ![r] = stored]
  /\ UNCHANGED <<stored, want, result>>

Next ==
  \/ \E w \in Writers : (\E v \in Values : Ask(w, v)) \/ Write(w) \/ Fail(w)
  \/ \E r \in Readers : Read(r)

Spec == Init /\ [][Next]_vars
=============================================================================
