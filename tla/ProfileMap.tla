----------------------------- MODULE ProfileMap -----------------------------
(***************************************************************************)
(* What keychain.Store, Load and Delete promise: one profile per            *)
(* organization, each operation touching the profile of its own             *)
(* organization only, at one moment between its call and its return.        *)
(***************************************************************************)
CONSTANTS Processes, Orgs, Profiles,
          NotFound           \* no profile is stored

VARIABLES stored,            \* the profile of each organization
          task,              \* what each process was last asked to do
          result             \* what each process's last operation returned

vars == <<stored, task, result>>

Tasks == [op : {"store"}, org : Orgs, profile : Profiles]
           \cup [op : {"load", "delete"}, org : Orgs, profile : {NotFound}]

Results == Profiles \cup {NotFound, "none", "ok", "error"}

Init ==
  /\ stored \in [Orgs -> Profiles \cup {NotFound}]
  /\ task \in [Processes -> Tasks]
  /\ result = [p \in Processes |-> "none"]

Call(p, t) ==
  /\ task' = [task EXCEPT ![p] = t]
  /\ result' = [result EXCEPT ![p] = "none"]
  /\ UNCHANGED stored

Return(p, r) == result' = [result EXCEPT ![p] = r] /\ UNCHANGED task

Load(p) ==
  /\ task[p].op = "load"
  /\ Return(p, stored[task[p].org])
  /\ UNCHANGED stored

Store(p) ==
  /\ task[p].op = "store"
  /\ stored' = [stored EXCEPT ![task[p].org] = task[p].profile]
  /\ Return(p, "ok")

Delete(p) ==
  /\ task[p].op = "delete"
  /\ \/ stored[task[p].org] = NotFound /\ Return(p, NotFound) /\ UNCHANGED stored
     \/ /\ stored[task[p].org] # NotFound /\ Return(p, "ok")
        /\ stored' = [stored EXCEPT ![task[p].org] = NotFound]

Fail(p) == Return(p, "error") /\ UNCHANGED stored

Operate(p) == result[p] = "none" /\ (Load(p) \/ Store(p) \/ Delete(p) \/ Fail(p))

Next == \E p \in Processes : (\E t \in Tasks : Call(p, t)) \/ Operate(p)

Spec == Init /\ [][Next]_vars
=============================================================================
