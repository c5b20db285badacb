-------------------------- MODULE AtomicFileProofs --------------------------
(***************************************************************************)
(* With writers that take turns, AtomicFile implements AtomicRegister: for  *)
(* any number of writers and readers, contents and inodes.                  *)
(***************************************************************************)
EXTENDS AtomicFile, TLAPS

LEMMA WholeFacts ==
  /\ \A v \in Values : Whole(v) \in Contents /\ Whole(v) # Empty /\ Decode(Whole(v)) = v
  /\ Empty \in Contents
  /\ \A v, x \in Values : Whole(v) = Whole(x) => v = x
<1>1. \A v : Whole(v)[1] = v /\ Whole(v)[2] = v
  BY DEF Whole
<1>2. Empty[1] = Blank
  BY DEF Empty
<1> QED
  BY <1>1, <1>2, ValueAssumption DEF Whole, Empty, Contents, Decode

LEMMA DecodeType == \A c \in Contents : Decode(c) \in Decoded
BY DEF Decode, Decoded

LEMMA InitIInv == Init => IInv
<1> SUFFICES ASSUME Init PROVE IInv
  OBVIOUS
<1>1. data \in [Inodes -> Contents] /\ \A i \in Inodes : data[i] = Empty \/ \E v \in Values : data[i] = Whole(v)
  <2>1. {Empty} \cup {Whole(v) : v \in Values} \subseteq Contents
    BY WholeFacts
  <2> QED
    BY <2>1 DEF Init
<1>2. TypeOK
  BY <1>1 DEF Init, TypeOK, Names, Decoded
<1>3. OneWriterAtWork /\ TmpIsPrivate /\ WriterHoldsTmp
  BY DEF Init, OneWriterAtWork, AtWork, TmpIsPrivate, WriterHoldsTmp
<1>4. PublishedIsWhole
  BY <1>1, ValueAssumption DEF Init, PublishedIsWhole
<1> QED
  BY <1>2, <1>3, <1>4 DEF IInv

\* What each step of the writer at work keeps of the invariant.
LEMMA WriterIInv ==
  ASSUME TakeTurns, IInv, NEW w \in Writers, WriterStep(w)
  PROVE  IInv'
<1>1. TypeOK /\ OneWriterAtWork /\ TmpIsPrivate /\ WriterHoldsTmp /\ PublishedIsWhole
  BY DEF IInv
<1>2. AtWork(w) => \A x \in Writers : x # w => pc[x] = "idle"
  BY <1>1 DEF OneWriterAtWork, AtWork
<1> USE ValueAssumption
<1>3. ASSUME NEW v \in Values, Ask(w, v) PROVE IInv'
  BY <1>1, <1>3 DEF Ask, IInv, TypeOK, OneWriterAtWork, AtWork, TmpIsPrivate,
     WriterHoldsTmp, PublishedIsWhole, fsVars, readerVars
<1>4. CASE OpenFails(w)
  BY <1>1, <1>2, <1>4 DEF OpenFails, Return, IInv, TypeOK, Names, OneWriterAtWork, AtWork,
     TmpIsPrivate, WriterHoldsTmp, PublishedIsWhole, fsVars, readerVars
<1>5. CASE Open(w)
  <2>1. PICK i \in Inodes : /\ IF tmp = NoInode THEN i \notin InUse ELSE i = tmp
                            /\ tmp' = i
                            /\ data' = [data EXCEPT ![i] = Empty]
                            /\ fd' = [fd EXCEPT ![w] = i]
    BY <1>5 DEF Open
  <2>2. pc' = [pc EXCEPT ![w] = "write"] /\ pc[w] = "open"
        /\ UNCHANGED <<path, want, result, rfd, obtained, abandoned>>
    BY <1>5 DEF Open, readerVars
  <2>3. i # path /\ \A r \in Readers : rfd[r] # i
    BY <1>1, <2>1 DEF InUse, TmpIsPrivate
  <2>4. TypeOK'
    BY <1>1, <2>1, <2>2, WholeFacts DEF TypeOK, Names
  <2>5. OneWriterAtWork' /\ TmpIsPrivate' /\ WriterHoldsTmp'
    BY <1>1, <1>2, <2>1, <2>2, <2>3 DEF OneWriterAtWork, AtWork, TmpIsPrivate, WriterHoldsTmp, TypeOK
  <2>6. PublishedIsWhole'
    BY <1>1, <2>1, <2>2, <2>3 DEF PublishedIsWhole, TypeOK, Names
  <2> QED
    BY <2>4, <2>5, <2>6 DEF IInv
<1>6. ASSUME NEW h \in {1, 2}, PutHalf(w, h), pc[w] \in {"write", "rest"},
             UNCHANGED <<tmp, path, fd, want, result, rfd, obtained, abandoned>>
      PROVE  /\ data' = [data EXCEPT ![tmp] = [data[tmp] EXCEPT ![h] = want[w]]]
             /\ tmp \in Inodes
             /\ data' \in [Inodes -> Contents]
             /\ TmpIsPrivate' /\ PublishedIsWhole'
  <2>1. fd[w] = tmp /\ tmp \in Inodes
    BY <1>1, <1>6 DEF WriterHoldsTmp, TypeOK, Names
  <2>2. data' = [data EXCEPT ![tmp] = [data[tmp] EXCEPT ![h] = want[w]]]
    BY <1>6, <2>1 DEF PutHalf
  <2>3. data' \in [Inodes -> Contents]
    BY <1>1, <2>1, <2>2 DEF TypeOK, Contents
  <2>4. TmpIsPrivate' /\ PublishedIsWhole'
    BY <1>1, <1>6, <2>1, <2>2 DEF TmpIsPrivate, PublishedIsWhole, TypeOK, Names
  <2> QED
    BY <2>1, <2>2, <2>3, <2>4
<1>7. CASE Write(w)
  <2>1. /\ pc[w] = "write" /\ PutHalf(w, 1)
        /\ pc' = [pc EXCEPT ![w] = "rest"]
        /\ UNCHANGED <<tmp, path, fd, want, result, rfd, obtained, abandoned>>
    BY <1>7 DEF Write, readerVars
  <2>2. /\ data' = [data EXCEPT ![tmp] = [data[tmp] EXCEPT ![1] = want[w]]]
        /\ tmp \in Inodes
        /\ data' \in [Inodes -> Contents]
        /\ TmpIsPrivate' /\ PublishedIsWhole'
    BY <1>6, <2>1
  <2>3. data'[tmp][1] = want[w]
    BY <1>1, <2>2 DEF TypeOK, Contents
  <2>4. TypeOK'
    BY <1>1, <2>1, <2>2 DEF TypeOK
  <2>5. OneWriterAtWork' /\ WriterHoldsTmp'
    BY <1>1, <1>2, <2>1, <2>2, <2>3 DEF OneWriterAtWork, AtWork, WriterHoldsTmp, TypeOK
  <2> QED
    BY <2>2, <2>4, <2>5 DEF IInv
<1>8. CASE WriteRest(w)
  <2>1. /\ pc[w] = "rest" /\ PutHalf(w, 2)
        /\ pc' = [pc EXCEPT ![w] = "close"]
        /\ UNCHANGED <<tmp, path, fd, want, result, rfd, obtained, abandoned>>
    BY <1>8 DEF WriteRest, readerVars
  <2>2. /\ data' = [data EXCEPT ![tmp] = [data[tmp] EXCEPT ![2] = want[w]]]
        /\ tmp \in Inodes
        /\ data' \in [Inodes -> Contents]
        /\ TmpIsPrivate' /\ PublishedIsWhole'
    BY <1>6, <2>1
  <2>3. data'[tmp] = Whole(want[w])
    BY <1>1, <2>1, <2>2 DEF TypeOK, Contents, WriterHoldsTmp, Whole
  <2>4. TypeOK'
    BY <1>1, <2>1, <2>2 DEF TypeOK
  <2>5. OneWriterAtWork' /\ WriterHoldsTmp'
    BY <1>1, <1>2, <2>1, <2>2, <2>3 DEF OneWriterAtWork, AtWork, WriterHoldsTmp, TypeOK
  <2> QED
    BY <2>2, <2>4, <2>5 DEF IInv
<1>9. CASE Close(w)
  BY <1>1, <1>2, <1>9 DEF Close, IInv, TypeOK, Names, OneWriterAtWork, AtWork, TmpIsPrivate,
     WriterHoldsTmp, PublishedIsWhole, fsVars, readerVars
<1>10. CASE Rename(w)
  <2>1. /\ pc[w] = "rename" /\ tmp # NoInode /\ path' = tmp /\ tmp' = NoInode
        /\ pc' = [pc EXCEPT ![w] = "idle"] /\ fd' = [fd EXCEPT ![w] = NoInode]
        /\ result' = [result EXCEPT ![w] = "ok"]
        /\ UNCHANGED <<data, want, rfd, obtained>> /\ abandoned' = FALSE
    BY <1>10 DEF Rename, Return, readerVars
  <2>2. data[tmp] = Whole(want[w]) /\ want[w] \in Values
    BY <1>1, <2>1 DEF WriterHoldsTmp, TypeOK
  <2>3. TypeOK' /\ TmpIsPrivate'
    BY <1>1, <2>1 DEF TypeOK, Names, TmpIsPrivate
  <2>4. OneWriterAtWork' /\ WriterHoldsTmp'
    BY <1>1, <1>2, <2>1 DEF OneWriterAtWork, AtWork, WriterHoldsTmp, TypeOK
  <2>5. PublishedIsWhole'
    BY <1>1, <2>1, <2>2 DEF PublishedIsWhole
  <2> QED
    BY <2>3, <2>4, <2>5 DEF IInv
<1>11. CASE StepFails(w)
  BY <1>1, <1>2, <1>11 DEF StepFails, IInv, TypeOK, Names, OneWriterAtWork, AtWork,
     TmpIsPrivate, WriterHoldsTmp, PublishedIsWhole, fsVars, readerVars
<1>12. CASE Remove(w)
  BY <1>1, <1>2, <1>12 DEF Remove, Return, IInv, TypeOK, Names, OneWriterAtWork, AtWork,
     TmpIsPrivate, WriterHoldsTmp, PublishedIsWhole, readerVars
<1>13. CASE RemoveFails(w)
  BY <1>1, <1>2, <1>13 DEF RemoveFails, Return, IInv, TypeOK, Names, OneWriterAtWork, AtWork,
     TmpIsPrivate, WriterHoldsTmp, PublishedIsWhole, fsVars, readerVars
<1>14. CASE Crash(w)
  BY <1>1, <1>2, <1>14 DEF Crash, IInv, TypeOK, Names, OneWriterAtWork, AtWork,
     TmpIsPrivate, WriterHoldsTmp, PublishedIsWhole, fsVars, readerVars
<1> QED
  BY <1>3, <1>4, <1>5, <1>7, <1>8, <1>9, <1>10, <1>11, <1>12, <1>13, <1>14
     DEF WriterStep

LEMMA ReaderIInv ==
  ASSUME IInv, NEW r \in Readers, ReaderStep(r)
  PROVE  IInv'
<1>1. TypeOK /\ OneWriterAtWork /\ TmpIsPrivate /\ WriterHoldsTmp /\ PublishedIsWhole
  BY DEF IInv
<1>2. OneWriterAtWork' /\ WriterHoldsTmp'
  BY <1>1 DEF ReaderStep, ReadOpen, ReadAbsent, Read, OneWriterAtWork, AtWork,
     WriterHoldsTmp, fsVars, writerVars
<1> USE ValueAssumption
<1>3. CASE ReadOpen(r)
  BY <1>1, <1>2, <1>3 DEF ReadOpen, IInv, TypeOK, Names, TmpIsPrivate, PublishedIsWhole,
     fsVars, writerVars
<1>4. CASE ReadAbsent(r)
  BY <1>1, <1>2, <1>4 DEF ReadAbsent, IInv, TypeOK, Decoded, TmpIsPrivate, PublishedIsWhole,
     fsVars, writerVars
<1>5. CASE Read(r)
  <2>1. PICK v \in Values : data[rfd[r]] = Whole(v)
    BY <1>1, <1>5 DEF Read, PublishedIsWhole
  <2>2. Decode(data[rfd[r]]) = v
    BY <2>1, WholeFacts
  <2> QED
    BY <1>1, <1>2, <1>5, <2>2 DEF Read, IInv, TypeOK, Names, Decoded, TmpIsPrivate,
       PublishedIsWhole, fsVars, writerVars
<1> QED
  BY <1>3, <1>4, <1>5 DEF ReaderStep

\* When writers take turns the inductive invariant holds in every state.
THEOREM Invariance == ASSUME TakeTurns PROVE Spec => []IInv
<1>1. Init => IInv
  BY InitIInv
<1>2. IInv /\ UNCHANGED vars => IInv'
  BY DEF IInv, TypeOK, OneWriterAtWork, AtWork, TmpIsPrivate, WriterHoldsTmp,
     PublishedIsWhole, vars, fsVars, writerVars, readerVars
<1>3. IInv /\ [Next]_vars => IInv'
  BY <1>2, WriterIInv, ReaderIInv DEF Next
<1> QED
  BY <1>1, <1>3, PTL DEF Spec

\* When writers take turns nobody ever finds half a file or a mixed one.
THEOREM NobodySeesATornFile == ASSUME TakeTurns PROVE Spec => []NeverTorn
<1>1. IInv => NeverTorn
  BY WholeFacts, ValueAssumption DEF IInv, PublishedIsWhole, NeverTorn, FileContent
<1> QED
  BY <1>1, Invariance, PTL
-----------------------------------------------------------------------------
(* The refinement *)

\* A step that leaves the published inodes alone leaves the register alone.
LEMMA RegisterUnchanged ==
  ASSUME IInv, UNCHANGED <<path, rfd, obtained>>,
         \/ UNCHANGED data
         \/ \E i \in Inodes : \E c : /\ i # path /\ \A r \in Readers : rfd[r] # i
                                    /\ data' = [data EXCEPT ![i] = c]
  PROVE  UNCHANGED <<FileContent, Seen>>
<1>1. data \in [Inodes -> Contents] /\ path \in Names /\ rfd \in [Readers -> Names]
  BY DEF IInv, TypeOK
<1>2. path # NoInode => data'[path] = data[path]
  BY <1>1 DEF Names
<1>3. \A r \in Readers : rfd[r] # NoInode => data'[rfd[r]] = data[rfd[r]]
  BY <1>1 DEF Names
<1>4. FileContent' = FileContent
  BY <1>2 DEF FileContent
<1>5. Seen' = Seen
  BY <1>3 DEF Seen
<1> QED
  BY <1>4, <1>5

LEMMA WriterRefines ==
  ASSUME TakeTurns, IInv, NEW w \in Writers, WriterStep(w)
  PROVE  [Register!Next]_Register!vars
<1>1. TypeOK /\ TmpIsPrivate /\ WriterHoldsTmp
  BY DEF IInv
<1> USE DEF Register!Next, Register!vars
<1>2. ASSUME NEW v \in Values, Ask(w, v) PROVE [Register!Next]_Register!vars
  <2>1. /\ want' = [want EXCEPT ![w] = v]
        /\ UNCHANGED <<data, path, rfd, obtained, result>>
    BY <1>2 DEF Ask, fsVars, readerVars
  <2> QED
    BY <2>1, RegisterUnchanged DEF Register!Ask
<1>3. CASE OpenFails(w)
  <2>1. /\ result' = [result EXCEPT ![w] = "error"]
        /\ UNCHANGED <<data, path, rfd, obtained, want>>
    BY <1>3 DEF OpenFails, Return, fsVars, readerVars
  <2> QED
    BY <2>1, RegisterUnchanged DEF Register!Fail
<1>4. CASE Open(w)
  <2>1. UNCHANGED <<path, rfd, obtained, want, result>>
    BY <1>4 DEF Open, readerVars
  <2>2. PICK i \in Inodes : /\ IF tmp = NoInode THEN i \notin InUse ELSE i = tmp
                            /\ data' = [data EXCEPT ![i] = Empty]
    BY <1>4 DEF Open
  <2>3. i # path /\ \A r \in Readers : rfd[r] # i
    BY <1>1, <2>2 DEF InUse, TmpIsPrivate
  <2> QED
    BY <2>1, <2>2, <2>3, RegisterUnchanged
<1>5. ASSUME NEW h \in {1, 2}, PutHalf(w, h), pc[w] \in {"write", "rest"},
             UNCHANGED <<path, rfd, obtained, want, result>>
      PROVE  [Register!Next]_Register!vars
  <2>1. fd[w] = tmp /\ tmp \in Inodes /\ tmp # path /\ \A r \in Readers : rfd[r] # tmp
    BY <1>1, <1>5 DEF WriterHoldsTmp, TmpIsPrivate, TypeOK, Names
  <2>2. data' = [data EXCEPT ![tmp] = [data[tmp] EXCEPT ![h] = want[w]]]
    BY <1>5, <2>1 DEF PutHalf
  <2> QED
    BY <1>5, <2>1, <2>2, RegisterUnchanged
<1>6. CASE Write(w)
  BY <1>5, <1>6 DEF Write, readerVars
<1>7. CASE WriteRest(w)
  BY <1>5, <1>7 DEF WriteRest, readerVars
<1>8. CASE Close(w) \/ StepFails(w) \/ Crash(w)
  <2>1. UNCHANGED <<data, path, rfd, obtained, want, result>>
    BY <1>8 DEF Close, StepFails, Crash, fsVars, readerVars
  <2> QED
    BY <2>1, RegisterUnchanged
<1>9. CASE Rename(w)
  <2>1. /\ tmp # NoInode /\ path' = tmp /\ data[tmp] = Whole(want[w])
        /\ result' = [result EXCEPT ![w] = "ok"]
        /\ UNCHANGED <<data, want, rfd, obtained>>
    BY <1>1, <1>9 DEF Rename, Return, WriterHoldsTmp, readerVars
  <2>2. FileContent' = want[w]
    BY <1>1, <2>1, WholeFacts DEF FileContent, TypeOK
  <2>3. Seen' = Seen
    BY <2>1 DEF Seen
  <2> QED
    BY <2>1, <2>2, <2>3 DEF Register!Write
<1>10. CASE Remove(w) \/ RemoveFails(w)
  <2>1. /\ result' = [result EXCEPT ![w] = "error"]
        /\ UNCHANGED <<data, path, rfd, obtained, want>>
    BY <1>10 DEF Remove, RemoveFails, Return, fsVars, readerVars
  <2> QED
    BY <2>1, RegisterUnchanged DEF Register!Fail
<1> QED
  BY <1>2, <1>3, <1>4, <1>6, <1>7, <1>8, <1>9, <1>10 DEF WriterStep

LEMMA ReaderRefines ==
  ASSUME IInv, NEW r \in Readers, ReaderStep(r)
  PROVE  [Register!Next]_Register!vars
<1>1. TypeOK
  BY DEF IInv
<1>2. /\ UNCHANGED <<data, path, want, result>>
      /\ FileContent' = FileContent
  BY DEF ReaderStep, ReadOpen, ReadAbsent, Read, fsVars, writerVars, FileContent
<1>3. CASE ReadOpen(r)
  <2>1. Seen' = [Seen EXCEPT ![r] = FileContent]
    BY <1>1, <1>3, ValueAssumption DEF ReadOpen, Seen, FileContent, TypeOK, Names, fsVars
  <2> QED
    BY <1>2, <2>1 DEF Register!Next, Register!Read
<1>4. CASE ReadAbsent(r)
  <2>1. Seen' = [Seen EXCEPT ![r] = FileContent]
    BY <1>1, <1>4 DEF ReadAbsent, Seen, FileContent, TypeOK, fsVars
  <2> QED
    BY <1>2, <2>1 DEF Register!Next, Register!Read
<1>5. CASE Read(r)
  <2>1. Seen' = Seen
    BY <1>1, <1>5 DEF Read, Seen, TypeOK, fsVars
  <2> QED
    BY <1>2, <2>1 DEF Register!vars
<1> QED
  BY <1>3, <1>4, <1>5 DEF ReaderStep

\* Writers that take turns, each failing or dying where it may, and readers at
\* any moment see a register: a replacement happens in one step or not at all.
THEOREM FileIsARegister == ASSUME TakeTurns PROVE Spec => ImplementsRegister
<1>1. Init => Register!Init
  <2> SUFFICES ASSUME Init PROVE Register!Init
    OBVIOUS
  <2>1. FileContent \in Values \cup {Absent}
    BY InitIInv, WholeFacts DEF IInv, PublishedIsWhole, FileContent
  <2>2. Seen = [r \in Readers |-> Absent]
    BY DEF Init, Seen
  <2> QED
    BY <2>1, <2>2 DEF Init, Register!Init
<1>2. IInv /\ UNCHANGED vars => UNCHANGED Register!vars
  BY DEF vars, fsVars, writerVars, readerVars, FileContent, Seen, Register!vars
<1>3. IInv /\ [Next]_vars => [Register!Next]_Register!vars
  BY <1>2, WriterRefines, ReaderRefines DEF Next
<1> QED
  BY <1>1, <1>3, Invariance, PTL DEF Spec, Register!Spec, ImplementsRegister

(***************************************************************************)
(* No temporary file is left.                                               *)
(***************************************************************************)
WriterStages == {"idle", "open", "write", "rest", "close", "rename", "remove"}

TendedInv == pc \in [Writers -> WriterStages] /\ TmpIsTended

\* A writer that goes on tends the file itself; one that stops tending it has
\* renamed or removed it, or had not opened it yet.
LEMMA WriterTends ==
  ASSUME TendedInv, NEW w \in Writers, WriterStep(w)
  PROVE  TendedInv'
<1> USE DEF WriterStages
<1>1. ASSUME NEW v \in Values, Ask(w, v)  PROVE TendedInv'
  BY <1>1 DEF Ask, TendedInv, TmpIsTended, fsVars
<1>2. CASE OpenFails(w)
  BY <1>2 DEF OpenFails, Return, TendedInv, TmpIsTended, fsVars
<1>3. CASE Open(w)
  BY <1>3 DEF Open, TendedInv, TmpIsTended
<1>4. CASE Write(w) \/ WriteRest(w) \/ Close(w) \/ StepFails(w)
  BY <1>4 DEF Write, WriteRest, Close, StepFails, TendedInv, TmpIsTended, fsVars
<1>5. CASE Rename(w) \/ Remove(w)
  BY <1>5 DEF Rename, Remove, Return, TendedInv, TmpIsTended
<1>6. CASE RemoveFails(w) \/ Crash(w)
  BY <1>6 DEF RemoveFails, Crash, Return, TendedInv, TmpIsTended, fsVars
<1> QED  BY <1>1, <1>2, <1>3, <1>4, <1>5, <1>6 DEF WriterStep

\* Any number of writers, overlapping or not, leave no temporary file between
\* their writes unless, since the last that succeeded, one of them died or its
\* removal failed.
THEOREM NothingIsLeftBehind == Spec => []NoLitter
<1>1. Init => TendedInv
  BY DEF Init, TendedInv, WriterStages, TmpIsTended
<1>2. TendedInv /\ [Next]_vars => TendedInv'
  <2>1. ASSUME TendedInv, UNCHANGED <<tmp, pc, abandoned>>  PROVE TendedInv'
    BY <2>1 DEF TendedInv, TmpIsTended
  <2>2. ASSUME NEW r \in Readers, ReaderStep(r)  PROVE UNCHANGED <<tmp, pc, abandoned>>
    BY <2>2 DEF ReaderStep, ReadOpen, ReadAbsent, Read, fsVars, writerVars
  <2>3. UNCHANGED vars => UNCHANGED <<tmp, pc, abandoned>>
    BY DEF vars, fsVars, writerVars
  <2> QED  BY <2>1, <2>2, <2>3, WriterTends DEF Next
<1>3. TendedInv => NoLitter
  BY DEF TendedInv, TmpIsTended, NoLitter
<1> QED  BY <1>1, <1>2, <1>3, PTL DEF Spec
=============================================================================
