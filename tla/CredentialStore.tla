-------------------------- MODULE CredentialStore ---------------------------
(***************************************************************************)
(* Package keychain: the profiles of all organizations, in the OS keyring   *)
(* or, with the file fallback, together in one credentials file that every  *)
(* Store and Delete reads, changes in memory and writes back.  The file is  *)
(* read and replaced as a whole, which is what AtomicFile is about.         *)
(***************************************************************************)
EXTENDS Integers

CONSTANTS
  Processes,   \* CLI processes that use the store
  Orgs,        \* organization slugs
  Profiles,
  NotFound,    \* keychain.ErrNotFound; also: no profile in the file
  TakeTurns    \* with the file, operations start when no other is under way

ASSUME StoreAssumption ==
  /\ NotFound \notin Profiles
  /\ (Profiles \cup {NotFound}) \cap {"none", "ok", "error"} = {}
  /\ TakeTurns \in BOOLEAN

VARIABLES
  fallback,  \* CYODA_KEYCHAIN_FILE_FALLBACK=1; set once for all processes
  profiles,  \* the keyring's items, or the profiles in the file
  task,      \* what each process was last asked to do
  result,    \* what its last operation returned, "none" until it does
  pc,        \* where each process is in the operation
  copy       \* the profiles it read from the file

vars == <<fallback, profiles, task, result, pc, copy>>

Tasks == [op : {"store"}, org : Orgs, profile : Profiles]
           \cup [op : {"load", "delete"}, org : Orgs, profile : {NotFound}]

Results == Profiles \cup {NotFound, "none", "ok", "error"}
Maps    == [Orgs -> Profiles \cup {NotFound}]

TypeOK ==
  /\ fallback \in BOOLEAN
  /\ profiles \in Maps
  /\ task \in [Processes -> Tasks]
  /\ result \in [Processes -> Results]
  /\ pc \in [Processes -> {"out", "begin", "write"}]
  /\ copy \in [Processes -> Maps]

Init ==
  /\ fallback \in BOOLEAN
  /\ profiles \in Maps
  /\ task \in [Processes -> Tasks]
  /\ result = [p \in Processes |-> "none"]
  /\ pc = [p \in Processes |-> "out"]
  /\ copy = [p \in Processes |-> [o \in Orgs |-> NotFound]]

-----------------------------------------------------------------------------
Call(p, t) ==
  /\ pc[p] = "out"
  /\ fallback /\ TakeTurns => \A q \in Processes : pc[q] = "out"
  /\ pc' = [pc EXCEPT ![p] = "begin"]
  /\ task' = [task EXCEPT ![p] = t]
  /\ result' = [result EXCEPT ![p] = "none"]
  /\ UNCHANGED <<fallback, profiles, copy>>

Return(p, r) ==
  /\ pc' = [pc EXCEPT ![p] = "out"]
  /\ result' = [result EXCEPT ![p] = r]
  /\ UNCHANGED <<fallback, task, copy>>

\* The file cannot be read, decoded or replaced; the keyring is locked.
Fail(p) ==
  /\ pc[p] \in {"begin", "write"}
  /\ Return(p, "error")
  /\ UNCHANGED profiles

\* Load, from either place, and a Delete that finds nothing.
Load(p) ==
  /\ pc[p] = "begin" /\ task[p].op = "load"
  /\ Return(p, profiles[task[p].org])
  /\ UNCHANGED profiles

DeleteNothing(p) ==
  /\ pc[p] = "begin" /\ task[p].op = "delete"
  /\ profiles[task[p].org] = NotFound
  /\ Return(p, NotFound)
  /\ UNCHANGED profiles

MustWrite(p) ==
  task[p].op = "store" \/ (task[p].op = "delete" /\ profiles[task[p].org] # NotFound)

\* Bug: the file is written with the new profile alone.
OnlyThis(map, t) == [o \in Orgs |-> IF o = t.org THEN t.profile ELSE NotFound]

\* What the operation makes of the map it read; Delete's profile is NotFound.
Changed(map, t) == [map EXCEPT ![t.org] = t.profile]

KeyringWrite(p) ==
  /\ ~fallback /\ pc[p] = "begin" /\ MustWrite(p)
  /\ profiles' = Changed(profiles, task[p])
  /\ Return(p, "ok")

\* readCredentials: the whole file, into memory.
FileRead(p) ==
  /\ fallback /\ pc[p] = "begin" /\ MustWrite(p)
  /\ copy' = [copy EXCEPT ![p] = profiles]
  /\ pc' = [pc EXCEPT ![p] = "write"]
  /\ UNCHANGED <<fallback, profiles, task, result>>

\* writeCredentials: the map as it was read, with the one change.
FileWrite(p) ==
  /\ pc[p] = "write"
  /\ profiles' = Changed(copy[p], task[p])
  /\ Return(p, "ok")

Step(p) == \/ Fail(p) \/ Load(p) \/ DeleteNothing(p) \/ KeyringWrite(p)
           \/ FileRead(p) \/ FileWrite(p)

Next == \E p \in Processes : (\E t \in Tasks : Call(p, t)) \/ Step(p)

Spec == Init /\ [][Next]_vars

-----------------------------------------------------------------------------
(* Properties *)

Map == INSTANCE ProfileMap WITH stored <- profiles

\* The store is a map with atomic operations: in the keyring always, in the
\* file as long as one process uses it at a time.
ImplementsProfileMap == Map!Spec

\* "Store persists the profile under p.Org": a profile changes only while a
\* process stores or deletes under that organization, and into what it asked.
OnlyOwnProfileChanges ==
  [][\A o \in Orgs :
       profiles'[o] # profiles[o] =>
         \E p \in Processes : pc[p] # "out" /\ task[p].org = o
                              /\ profiles'[o] = task[p].profile]_vars

\* The strengthening the proof uses: where the file is in use and processes
\* take turns, the copy of the one at work is the file.
OneAtATime ==
  fallback => \A p, q \in Processes : pc[p] # "out" /\ pc[q] # "out" => p = q

CopyIsFile ==
  \A p \in Processes :
    pc[p] = "write" => fallback /\ copy[p] = profiles /\ MustWrite(p)

PendingIsOpen == \A p \in Processes : pc[p] # "out" => result[p] = "none"

IInv == TypeOK /\ OneAtATime /\ CopyIsFile /\ PendingIsOpen
=============================================================================
