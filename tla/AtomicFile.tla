----------------------------- MODULE AtomicFile -----------------------------
(***************************************************************************)
(* How the CLI replaces a file: open a temporary name next to it, truncate, *)
(* write, close, rename over the file; remove the temporary name when a     *)
(* step fails.  The credentials file, the configuration file and the two    *)
(* caches are all written this way, and the temporary name is fixed: every  *)
(* process that writes the same file uses the same one.                     *)
(*                                                                          *)
(* Names refer to inodes; an open file keeps its inode when the name moves. *)
(* Content has two halves, so that a write may be seen half done: a half is *)
(* Blank, or belongs to the value some writer put there.                    *)
(***************************************************************************)
EXTENDS Naturals

CONSTANTS Writers,     \* processes (or goroutines) that replace the file
          Readers,     \* processes that read it
          Values,      \* contents the file is meant to have
          Blank,       \* half of a content, not yet written
          Garbled,     \* what a reader gets that is no whole content
          Absent,      \* the file does not exist
          Inodes,
          NoInode,
          TakeTurns    \* a writer starts only when no other is at work

ASSUME ValueAssumption ==
  /\ Blank \notin Values /\ Garbled \notin Values /\ Absent \notin Values
  /\ Absent # Garbled
  /\ NoInode \notin Inodes
  /\ TakeTurns \in BOOLEAN

VARIABLES
  data,      \* content of each inode
  tmp,       \* inode the temporary name refers to, or NoInode
  path,      \* inode the file's name refers to, or NoInode
  pc,        \* next step of each writer
  fd,        \* inode each writer has open
  want,      \* content each writer was asked to store
  result,    \* how its last write ended
  rfd,       \* inode each reader has open
  obtained,  \* what its last read returned
  abandoned  \* history: since the last write that succeeded, a writer has died
             \* or could not remove the temporary file

fsVars == <<data, tmp, path>>
writerVars == <<pc, fd, want, result>>
readerVars == <<rfd, obtained>>
vars == <<fsVars, writerVars, readerVars, abandoned>>

Contents == [{1, 2} -> Values \cup {Blank}]
Empty    == [h \in {1, 2} |-> Blank]
Whole(v) == [h \in {1, 2} |-> v]
Names    == Inodes \cup {NoInode}
Decoded  == Values \cup {Garbled, Absent}

\* What json.Unmarshal or toml.Unmarshal makes of a content: half a document
\* does not parse, nor does a mixture of two.
Decode(content) ==
  IF content[1] = content[2] /\ content[1] \in Values THEN content[1] ELSE Garbled

FileContent == IF path = NoInode THEN Absent ELSE Decode(data[path])

TypeOK ==
  /\ data \in [Inodes -> Contents]
  /\ tmp \in Names /\ path \in Names
  /\ pc \in [Writers -> {"idle", "open", "write", "rest", "close", "rename", "remove"}]
  /\ fd \in [Writers -> Names]
  /\ want \in [Writers -> Values]
  /\ result \in [Writers -> {"none", "ok", "error"}]
  /\ rfd \in [Readers -> Names]
  /\ obtained \in [Readers -> Decoded]
  /\ abandoned \in BOOLEAN

\* No file, or a file some earlier process wrote in full.
Init ==
  /\ tmp = NoInode
  /\ data \in [Inodes -> {Empty} \cup {Whole(v) : v \in Values}]
  /\ path \in {i \in Inodes : data[i] # Empty} \cup {NoInode}
  /\ pc = [w \in Writers |-> "idle"]
  /\ fd = [w \in Writers |-> NoInode]
  /\ want \in [Writers -> Values]
  /\ result = [w \in Writers |-> "none"]
  /\ rfd = [r \in Readers |-> NoInode]
  /\ obtained = [r \in Readers |-> Absent]
  /\ abandoned = FALSE

-----------------------------------------------------------------------------
(* The writer *)

\* A command is about to replace the file.
Ask(w, v) ==
  /\ pc[w] = "idle"
  /\ TakeTurns => \A x \in Writers : pc[x] = "idle"
  /\ pc' = [pc EXCEPT ![w] = "open"]
  /\ want' = [want EXCEPT ![w] = v]
  /\ UNCHANGED <<fsVars, fd, result, readerVars, abandoned>>

Return(w, how) ==
  /\ pc' = [pc EXCEPT ![w] = "idle"]
  /\ fd' = [fd EXCEPT ![w] = NoInode]
  /\ result' = [result EXCEPT ![w] = how]

\* The directory cannot be made, or the temporary file not be opened.
OpenFails(w) ==
  /\ pc[w] = "open"
  /\ Return(w, "error")
  /\ UNCHANGED <<fsVars, want, readerVars, abandoned>>

InUse == {tmp, path} \cup {fd[w] : w \in Writers} \cup {rfd[r] : r \in Readers}

\* Bug: the file itself is truncated and written in place.
OpenInPlace(w) ==
  /\ pc[w] = "open" /\ path # NoInode
  /\ tmp' = path
  /\ data' = [data EXCEPT ![path] = Empty]
  /\ fd' = [fd EXCEPT ![w] = path]
  /\ pc' = [pc EXCEPT ![w] = "write"]
  /\ UNCHANGED <<path, want, result, readerVars, abandoned>>

\* O_CREATE|O_TRUNC: the inode the name already refers to is emptied, whoever
\* else has it open; otherwise the name gets an inode nobody uses.
Open(w) ==
  /\ pc[w] = "open"
  /\ \E i \in Inodes :
       /\ IF tmp = NoInode THEN i \notin InUse ELSE i = tmp
       /\ tmp' = i
       /\ data' = [data EXCEPT ![i] = Empty]
       /\ fd' = [fd EXCEPT ![w] = i]
  /\ pc' = [pc EXCEPT ![w] = "write"]
  /\ UNCHANGED <<path, want, result, readerVars, abandoned>>

PutHalf(w, h) == data' = [data EXCEPT ![fd[w]][h] = want[w]]

\* Bug: a write that stopped half way is taken for done.
WriteHalfOnly(w) ==
  /\ pc[w] = "write"
  /\ PutHalf(w, 1)
  /\ pc' = [pc EXCEPT ![w] = "close"]
  /\ UNCHANGED <<tmp, path, fd, want, result, readerVars, abandoned>>

Write(w) ==
  /\ pc[w] = "write"
  /\ PutHalf(w, 1)
  /\ pc' = [pc EXCEPT ![w] = "rest"]
  /\ UNCHANGED <<tmp, path, fd, want, result, readerVars, abandoned>>

WriteRest(w) ==
  /\ pc[w] = "rest"
  /\ PutHalf(w, 2)
  /\ pc' = [pc EXCEPT ![w] = "close"]
  /\ UNCHANGED <<tmp, path, fd, want, result, readerVars, abandoned>>

Close(w) ==
  /\ pc[w] = "close"
  /\ fd' = [fd EXCEPT ![w] = NoInode]
  /\ pc' = [pc EXCEPT ![w] = "rename"]
  /\ UNCHANGED <<fsVars, want, result, readerVars, abandoned>>

\* The name moves, whatever inode it refers to by now.
Rename(w) ==
  /\ pc[w] = "rename" /\ tmp # NoInode
  /\ path' = tmp
  /\ tmp' = NoInode
  /\ abandoned' = FALSE
  /\ Return(w, "ok")
  /\ UNCHANGED <<data, want, readerVars>>

\* Disk full, I/O error, or nothing to rename any more: the file is closed
\* and the temporary name removed next.
StepFails(w) ==
  /\ pc[w] \in {"write", "rest", "close", "rename"}
  /\ fd' = [fd EXCEPT ![w] = NoInode]
  /\ pc' = [pc EXCEPT ![w] = "remove"]
  /\ UNCHANGED <<fsVars, want, result, readerVars, abandoned>>

\* Bug: the temporary name is left behind.
ReturnError(w) ==
  /\ pc[w] = "remove"
  /\ Return(w, "error")
  /\ UNCHANGED <<fsVars, want, readerVars, abandoned>>

Remove(w) ==
  /\ pc[w] = "remove"
  /\ tmp' = NoInode
  /\ Return(w, "error")
  /\ UNCHANGED <<data, path, want, readerVars, abandoned>>

\* The error of os.Remove is dropped.
RemoveFails(w) ==
  /\ pc[w] = "remove"
  /\ abandoned' = TRUE
  /\ Return(w, "error")
  /\ UNCHANGED <<fsVars, want, readerVars>>

\* The process dies; the kernel closes its file, the names stay.
Crash(w) ==
  /\ pc[w] # "idle"
  /\ pc' = [pc EXCEPT ![w] = "idle"]
  /\ fd' = [fd EXCEPT ![w] = NoInode]
  /\ abandoned' = TRUE
  /\ UNCHANGED <<fsVars, want, result, readerVars>>

-----------------------------------------------------------------------------
(* The reader: os.ReadFile opens the name, then reads what it opened. *)

ReadOpen(r) ==
  /\ rfd[r] = NoInode /\ path # NoInode
  /\ rfd' = [rfd EXCEPT ![r] = path]
  /\ UNCHANGED <<fsVars, writerVars, obtained, abandoned>>

ReadAbsent(r) ==
  /\ rfd[r] = NoInode /\ path = NoInode
  /\ obtained' = [obtained EXCEPT ![r] = Absent]
  /\ UNCHANGED <<fsVars, writerVars, rfd, abandoned>>

Read(r) ==
  /\ rfd[r] # NoInode
  /\ obtained' = [obtained EXCEPT ![r] = Decode(data[rfd[r]])]
  /\ rfd' = [rfd EXCEPT ![r] = NoInode]
  /\ UNCHANGED <<fsVars, writerVars, abandoned>>

-----------------------------------------------------------------------------
WriterStep(w) ==
  \/ \E v \in Values : Ask(w, v)
  \/ OpenFails(w) \/ Open(w) \/ Write(w) \/ WriteRest(w) \/ Close(w) \/ Rename(w)
  \/ StepFails(w) \/ Remove(w) \/ RemoveFails(w) \/ Crash(w)

ReaderStep(r) == ReadOpen(r) \/ ReadAbsent(r) \/ Read(r)

Next ==
  \/ \E w \in Writers : WriterStep(w)
  \/ \E r \in Readers : ReaderStep(r)

Spec == Init /\ [][Next]_vars

-----------------------------------------------------------------------------
(* Properties *)

\* A reader that has the file open will get what the inode it opened holds.
Seen == [r \in Readers |->
           IF rfd[r] = NoInode THEN obtained[r] ELSE Decode(data[rfd[r]])]

Register == INSTANCE AtomicRegister WITH stored <- FileContent, seen <- Seen

\* Through failures, crashes at any step and reads at any moment, the file is
\* a register that is written in one step or not at all.
ImplementsRegister == Register!Spec

\* "atomically replaces": nobody ever finds half a file, or two mixed.
NeverTorn == FileContent # Garbled /\ \A r \in Readers : obtained[r] # Garbled

\* "On any failure we best-effort remove the tmp file": a temporary file stays
\* between writes only where a writer died or its removal failed, and the next
\* write that succeeds, by whatever process, takes it away.
NoLitter == (\A w \in Writers : pc[w] = "idle") /\ ~abandoned => tmp = NoInode

\* The strengthening the proof uses, with writers that take turns: the inode
\* being written is no reader's and not the file; what is about to be renamed
\* is whole; what the file's name and the readers refer to is whole.
AtWork(w) == pc[w] # "idle"

OneWriterAtWork == \A w, x \in Writers : AtWork(w) /\ AtWork(x) => w = x

TmpIsPrivate ==
  tmp # NoInode => tmp # path /\ \A r \in Readers : rfd[r] # tmp

WriterHoldsTmp ==
  \A w \in Writers :
    /\ pc[w] \in {"write", "rest", "close"} => fd[w] = tmp /\ tmp # NoInode
    /\ pc[w] = "rest" => data[tmp][1] = want[w]
    /\ pc[w] = "close" => data[tmp] = Whole(want[w])
    /\ pc[w] = "rename" => tmp # NoInode /\ data[tmp] = Whole(want[w])

PublishedIsWhole ==
  /\ path # NoInode => \E v \in Values : data[path] = Whole(v)
  /\ \A r \in Readers : rfd[r] # NoInode => \E v \in Values : data[rfd[r]] = Whole(v)
  /\ \A r \in Readers : obtained[r] # Garbled

IInv ==
  TypeOK /\ OneWriterAtWork /\ TmpIsPrivate /\ WriterHoldsTmp /\ PublishedIsWhole

\* What keeps the directory clean, writers taking turns or not: a temporary
\* file that nobody has abandoned has a writer that will rename or remove it.
TmpIsTended ==
  tmp # NoInode /\ ~abandoned =>
    \E w \in Writers : pc[w] \in {"write", "rest", "close", "rename", "remove"}
=============================================================================
