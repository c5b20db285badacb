------------------------ MODULE CredentialStoreProofs -----------------------
(***************************************************************************)
(* Proofs about CredentialStore, for any processes, organizations and       *)
(* profiles: the keyring, or the file used by one process at a time, is the *)
(* map of profiles the package promises.                                    *)
(***************************************************************************)
EXTENDS CredentialStore, TLAPS

LEMMA ChangedIsMap ==
  ASSUME NEW map \in Maps, NEW t \in Tasks
  PROVE  Changed(map, t) \in Maps
  BY DEF Changed, Maps, Tasks

LEMMA InitEstablishes == Init => IInv
  BY DEF Init, IInv, TypeOK, OneAtATime, CopyIsFile, PendingIsOpen, Results, Maps

LEMMA StepPreserves == ASSUME TakeTurns PROVE IInv /\ [Next]_vars => IInv'
  <1> SUFFICES ASSUME IInv, [Next]_vars PROVE IInv'
    OBVIOUS
  <1> USE DEF IInv, TypeOK, OneAtATime, CopyIsFile, PendingIsOpen
  <1>1. ASSUME NEW p \in Processes, NEW t \in Tasks, Call(p, t) PROVE IInv'
    <2>1. TypeOK'
      BY <1>1 DEF Call, Results
    <2>2. (OneAtATime /\ CopyIsFile /\ PendingIsOpen)'
      BY <1>1, TakeTurns DEF Call, MustWrite, Results
    <2>3. QED
      BY <2>1, <2>2
  <1>2. ASSUME NEW p \in Processes, Fail(p) PROVE IInv'
    BY <1>2 DEF Fail, Return, MustWrite, Results
  <1>3. ASSUME NEW p \in Processes, Load(p) PROVE IInv'
    <2>1. profiles[task[p].org] \in Results
      BY DEF Tasks, Maps, Results
    <2>2. QED
      BY <1>3, <2>1 DEF Load, Return, MustWrite
  <1>4. ASSUME NEW p \in Processes, DeleteNothing(p) PROVE IInv'
    BY <1>4 DEF DeleteNothing, Return, MustWrite, Results
  <1>5. ASSUME NEW p \in Processes, KeyringWrite(p) PROVE IInv'
    <2>1. Changed(profiles, task[p]) \in Maps
      BY ChangedIsMap
    <2>2. \A q \in Processes : pc[q] # "write"
      BY <1>5 DEF KeyringWrite
    <2>3. QED
      BY <1>5, <2>1, <2>2 DEF KeyringWrite, Return, Results
  <1>6. ASSUME NEW p \in Processes, FileRead(p) PROVE IInv'
    BY <1>6 DEF FileRead, MustWrite
  <1>7. ASSUME NEW p \in Processes, FileWrite(p) PROVE IInv'
    <2>1. Changed(copy[p], task[p]) \in Maps
      BY ChangedIsMap
    <2>2. \A q \in Processes : pc[q] = "write" => q = p
      BY <1>7 DEF FileWrite
    <2>3. QED
      BY <1>7, <2>1, <2>2 DEF FileWrite, Return, Results
  <1>8. CASE UNCHANGED vars
    BY <1>8 DEF vars, MustWrite
  <1>9. QED
    BY <1>1, <1>2, <1>3, <1>4, <1>5, <1>6, <1>7, <1>8 DEF Next, Step

LEMMA Invariance == ASSUME TakeTurns PROVE Spec => []IInv
  BY InitEstablishes, StepPreserves, PTL DEF Spec

\* Every step of the store is an operation of the map, or none: the read of
\* the file is invisible, its write is the operation.
LEMMA StepRefines == IInv /\ [Next]_vars => [Map!Next]_(Map!vars)
  <1> SUFFICES ASSUME IInv, [Next]_vars PROVE Map!Next \/ UNCHANGED Map!vars
    OBVIOUS
  <1> USE DEF Map!Next, Map!vars
  <1>1. ASSUME NEW p \in Processes, NEW t \in Tasks, Call(p, t) PROVE Map!Next
    BY <1>1 DEF Call, Map!Call, Tasks, Map!Tasks
  <1>2. ASSUME NEW p \in Processes, Fail(p) PROVE Map!Next
    BY <1>2 DEF IInv, PendingIsOpen, Fail, Return, Map!Operate, Map!Fail, Map!Return
  <1>3. ASSUME NEW p \in Processes, Load(p) PROVE Map!Next
    BY <1>3 DEF IInv, PendingIsOpen, Load, Return, Map!Operate, Map!Load, Map!Return
  <1>4. ASSUME NEW p \in Processes, DeleteNothing(p) PROVE Map!Next
    BY <1>4 DEF IInv, PendingIsOpen, DeleteNothing, Return, Map!Operate,
                Map!Delete, Map!Return
  <1>5. ASSUME NEW p \in Processes, result[p] = "none", MustWrite(p), Return(p, "ok"),
               profiles' = Changed(profiles, task[p])
        PROVE  Map!Next
    <2>1. CASE task[p].op = "store"
      BY <1>5, <2>1 DEF Changed, Return, Map!Operate, Map!Store, Map!Return
    <2>2. CASE task[p].op = "delete"
      <3>1. task[p].profile = NotFound
        BY <2>2 DEF IInv, TypeOK, Tasks
      <3>2. QED
        BY <1>5, <2>2, <3>1
        DEF MustWrite, Changed, Return, Map!Operate, Map!Delete, Map!Return
    <2>3. QED
      BY <1>5, <2>1, <2>2 DEF MustWrite
  <1>6. ASSUME NEW p \in Processes, KeyringWrite(p) PROVE Map!Next
    BY <1>5, <1>6 DEF KeyringWrite, IInv, PendingIsOpen
  <1>7. ASSUME NEW p \in Processes, FileRead(p) PROVE UNCHANGED Map!vars
    BY <1>7 DEF FileRead
  <1>8. ASSUME NEW p \in Processes, FileWrite(p) PROVE Map!Next
    <2>1. copy[p] = profiles /\ MustWrite(p) /\ result[p] = "none"
      BY <1>8 DEF FileWrite, IInv, CopyIsFile, PendingIsOpen
    <2>2. QED
      BY <1>5, <1>8, <2>1 DEF FileWrite
  <1>9. CASE UNCHANGED vars
    BY <1>9 DEF vars
  <1>10. QED
    BY <1>1, <1>2, <1>3, <1>4, <1>6, <1>7, <1>8, <1>9 DEF Next, Step

\* The keyring, and the file in turns, implement the abstract map.
THEOREM StoreIsAMap == TakeTurns => (Spec => ImplementsProfileMap)
  <1>1. Init => Map!Init
    BY DEF Init, Map!Init, Maps, Tasks, Map!Tasks
  <1>2. SUFFICES ASSUME TakeTurns PROVE Spec => ImplementsProfileMap
    OBVIOUS
  <1>3. Spec => []IInv
    BY <1>2, Invariance
  <1>4. QED
    BY <1>1, <1>3, StepRefines, PTL DEF Spec, ImplementsProfileMap, Map!Spec

\* No organization loses or changes its profile by an operation on another's.
THEOREM OthersKeepTheirs == TakeTurns => (Spec => OnlyOwnProfileChanges)
  <1>1. SUFFICES ASSUME TakeTurns PROVE Spec => OnlyOwnProfileChanges
    OBVIOUS
  <1>2. Spec => []IInv
    BY <1>1, Invariance
  <1>3. IInv /\ [Next]_vars =>
          [\A o \in Orgs :
             profiles'[o] # profiles[o] =>
               \E p \in Processes : pc[p] # "out" /\ task[p].org = o
                                    /\ profiles'[o] = task[p].profile]_vars
    <2> SUFFICES ASSUME IInv, [Next]_vars, NEW o \in Orgs, profiles'[o] # profiles[o]
                 PROVE  \E p \in Processes : pc[p] # "out" /\ task[p].org = o
                                             /\ profiles'[o] = task[p].profile
      OBVIOUS
    <2>1. PICK p \in Processes : KeyringWrite(p) \/ FileWrite(p)
      BY DEF Next, Step, Call, Fail, Load, DeleteNothing, FileRead, vars
    <2>2. pc[p] # "out" /\ profiles' = Changed(profiles, task[p])
      BY <2>1 DEF KeyringWrite, FileWrite, IInv, CopyIsFile
    <2>3. task[p].org = o /\ profiles'[o] = task[p].profile
      BY <2>2 DEF Changed, IInv, TypeOK, Maps
    <2>4. QED
      BY <2>2, <2>3
  <1>4. QED
    BY <1>2, <1>3, PTL DEF Spec, OnlyOwnProfileChanges
=============================================================================
