-------------------------- MODULE FileStreamProofs --------------------------
(***************************************************************************)
(* Proofs about FileStream, for any number of chunks, any channel          *)
(* capacity, any number of rename retries and any --retry.                 *)
(*                                                                         *)
(* TypeOK is not inductive: that the temporary file never grows past the   *)
(* remote one needs the account of the chunks, and that the target is      *)
(* whole after a power loss needs that only a synced file is renamed.      *)
(***************************************************************************)
EXTENDS FileStream, TLAPS

\* What the attempt has written so far.
Written == IF tmp = Absent THEN 0 ELSE tmp

InHand == IF reader = "data" THEN 1 ELSE 0

\* The chunks the reader took are written, queued or in its hands.
Accounted == pc \notin Ended => pos = Written + queued + InHand

\* The end of the stream is announced by a reader that read everything.
EndsWhole == (reader = "eof" \/ ending = "eof") => pos = Chunks

\* How far the attempt is, and what exists of it by then.
Progress ==
  /\ pc \in {"open", "create"} => tmp = Absent
  /\ pc \in {"copy", "sync", "rename"} => tmp # Absent
  /\ pc \in {"sync", "rename"} => tmp = Chunks
  /\ pc = "rename" => "tmp" \in synced

\* The small-file loop has neither reader thread nor channel.
NoReader ==
  /\ ~pipelined => reader = "none" /\ queued = 0
  /\ pc = "open" => reader = "none"

\* What the final name leads to is whole and on the disk.
TargetWhole == NeverPartial /\ "target" \in synced

FInv ==
  /\ TypeOK
  /\ Accounted
  /\ EndsWhole
  /\ Progress
  /\ NoReader
  /\ TargetWhole

USE StreamAssumption DEF Absent, Old, Ended, pipelined
USE DEF streamVars, fileVars, vars

LEMMA InitInv == Init => FInv
<1>1. Init => TypeOK
  BY DEF Init, TypeOK
<1>2. Init => Accounted /\ EndsWhole /\ Progress
  BY DEF Init, Accounted, Written, InHand, EndsWhole, Progress
<1>3. Init => NoReader /\ TargetWhole
  BY DEF Init, NoReader, TargetWhole, NeverPartial
<1>. QED  BY <1>1, <1>2, <1>3 DEF FInv

\* An attempt that fails and leaves no temporary file starts over or is over.
LEMMA FailsInv ==
  ASSUME FInv, AttemptFails, tmp' = Absent
  PROVE  FInv'
<1>1. TypeOK'
  <2>1. orphans' \in Nat /\ attempt' \in Nat
    BY DEF FInv, TypeOK, AttemptFails
  <2>. QED  BY <2>1 DEF FInv, TypeOK, AttemptFails
<1>2. Accounted' /\ EndsWhole'
  BY DEF AttemptFails, Accounted, Written, InHand, EndsWhole
<1>3. Progress' /\ NoReader'
  BY DEF FInv, NoReader, Progress, AttemptFails
<1>4. TargetWhole'
  BY DEF FInv, TargetWhole, NeverPartial, AttemptFails
<1>. QED  BY <1>1, <1>2, <1>3, <1>4 DEF FInv

LEMMA WorkerInv == FInv /\ WorkerStep => FInv'
<1>. SUFFICES ASSUME FInv, WorkerStep PROVE FInv'
  OBVIOUS
<1>. USE DEF FInv
<1>1. CASE NeverAttempted
  <2>1. TypeOK'
    BY <1>1 DEF NeverAttempted, TypeOK, Progress
  <2>2. Accounted' /\ EndsWhole'
    BY <1>1 DEF NeverAttempted, TypeOK, Accounted, Written, InHand, EndsWhole, Progress, NoReader
  <2>3. Progress' /\ NoReader' /\ TargetWhole'
    BY <1>1 DEF NeverAttempted, TypeOK, Accounted, Written, InHand, EndsWhole,
         Progress, NoReader, TargetWhole, NeverPartial
  <2>. QED  BY <2>1, <2>2, <2>3
<1>2. CASE OpenRemote
  <2>1. TypeOK'
    BY <1>2 DEF OpenRemote, TypeOK, Progress
  <2>2. Accounted' /\ EndsWhole'
    BY <1>2 DEF OpenRemote, TypeOK, Accounted, Written, InHand, EndsWhole, Progress, NoReader
  <2>3. Progress' /\ NoReader' /\ TargetWhole'
    BY <1>2 DEF OpenRemote, TypeOK, Accounted, Written, InHand, EndsWhole,
         Progress, NoReader, TargetWhole, NeverPartial
  <2>. QED  BY <2>1, <2>2, <2>3
<1>3. CASE OpenFails
  BY <1>3, FailsInv DEF OpenFails, Progress
<1>4. CASE CreateTmp
  <2>1. TypeOK'
    BY <1>4 DEF CreateTmp, TypeOK, Progress
  <2>2. Accounted' /\ EndsWhole'
    BY <1>4 DEF CreateTmp, TypeOK, Accounted, Written, InHand, EndsWhole, Progress, NoReader
  <2>3. Progress' /\ NoReader' /\ TargetWhole'
    BY <1>4 DEF CreateTmp, TypeOK, Accounted, Written, InHand, EndsWhole,
         Progress, NoReader, TargetWhole, NeverPartial
  <2>. QED  BY <2>1, <2>2, <2>3
<1>5. CASE CreateFails
  BY <1>5, FailsInv DEF CreateFails, Progress
<1>6. CASE WriteChunk
  <2>1. pos = tmp + queued + InHand /\ pos \in 0 .. Chunks
    BY <1>6 DEF WriteChunk, TypeOK, Accounted, Written, Progress
  <2>2. tmp' \in 0 .. Chunks /\ pos' = tmp' + queued' + InHand'
    BY <1>6, <2>1 DEF WriteChunk, TypeOK, InHand, Progress
  <2>3. TypeOK'
    BY <1>6, <2>2 DEF WriteChunk, TypeOK
  <2>4. Accounted' /\ EndsWhole'
    BY <1>6, <2>1, <2>2 DEF WriteChunk, Accounted, Written, EndsWhole, NoReader, TypeOK
  <2>5. Progress' /\ NoReader' /\ TargetWhole'
    BY <1>6, <2>2 DEF WriteChunk, Progress, NoReader, TargetWhole, NeverPartial
  <2>. QED  BY <2>3, <2>4, <2>5
<1>7. CASE CopyFails
  BY <1>7, FailsInv DEF CopyFails, CleanupAndFail
<1>8. CASE CopyEnds
  <2>1. TypeOK'
    BY <1>8 DEF CopyEnds, TypeOK, Progress
  <2>2. Accounted' /\ EndsWhole'
    BY <1>8 DEF CopyEnds, TypeOK, Accounted, Written, InHand, EndsWhole, Progress, NoReader
  <2>3. Progress' /\ NoReader' /\ TargetWhole'
    BY <1>8 DEF CopyEnds, TypeOK, Accounted, Written, InHand, EndsWhole,
         Progress, NoReader, TargetWhole, NeverPartial
  <2>. QED  BY <2>1, <2>2, <2>3
<1>9. CASE SyncAll
  <2>1. TypeOK'
    BY <1>9 DEF SyncAll, TypeOK, Progress
  <2>2. Accounted' /\ EndsWhole'
    BY <1>9 DEF SyncAll, TypeOK, Accounted, Written, InHand, EndsWhole, Progress, NoReader
  <2>3. Progress' /\ NoReader' /\ TargetWhole'
    BY <1>9 DEF SyncAll, TypeOK, Accounted, Written, InHand, EndsWhole,
         Progress, NoReader, TargetWhole, NeverPartial
  <2>. QED  BY <2>1, <2>2, <2>3
<1>10. CASE SyncFails
  BY <1>10, FailsInv DEF SyncFails, CleanupAndFail
<1>11. CASE Rename
  <2>1. TypeOK'
    BY <1>11 DEF Rename, TypeOK, Progress
  <2>2. Accounted' /\ EndsWhole'
    BY <1>11 DEF Rename, TypeOK, Accounted, Written, InHand, EndsWhole, Progress, NoReader
  <2>3. Progress' /\ NoReader' /\ TargetWhole'
    BY <1>11 DEF Rename, TypeOK, Accounted, Written, InHand, EndsWhole,
         Progress, NoReader, TargetWhole, NeverPartial
  <2>. QED  BY <2>1, <2>2, <2>3
<1>12. CASE RenameRefused
  <2>1. TypeOK'
    BY <1>12 DEF RenameRefused, TypeOK, Progress
  <2>2. Accounted' /\ EndsWhole'
    BY <1>12 DEF RenameRefused, TypeOK, Accounted, Written, InHand, EndsWhole, Progress, NoReader
  <2>3. Progress' /\ NoReader' /\ TargetWhole'
    BY <1>12 DEF RenameRefused, TypeOK, Accounted, Written, InHand, EndsWhole,
         Progress, NoReader, TargetWhole, NeverPartial
  <2>. QED  BY <2>1, <2>2, <2>3
<1>13. CASE RenameFails
  BY <1>13, FailsInv DEF RenameFails, CleanupAndFail
<1>. QED  BY <1>1, <1>2, <1>3, <1>4, <1>5, <1>6, <1>7, <1>8, <1>9, <1>10, <1>11, <1>12, <1>13 DEF WorkerStep

LEMMA ReaderInv == FInv /\ ReaderStep => FInv'
<1>. SUFFICES ASSUME FInv, ReaderStep PROVE FInv'
  OBVIOUS
<1>. USE DEF FInv
<1>1. CASE ReadRemote
  <2>1. TypeOK'
    BY <1>1 DEF ReadRemote, TypeOK
  <2>2. Accounted' /\ EndsWhole'
    BY <1>1 DEF ReadRemote, TypeOK, Accounted, Written, InHand, EndsWhole
  <2>3. Progress' /\ NoReader' /\ TargetWhole'
    BY <1>1 DEF ReadRemote, TypeOK, Progress, NoReader, TargetWhole, NeverPartial
  <2>. QED  BY <2>1, <2>2, <2>3
<1>2. CASE SendData
  <2>1. TypeOK'
    BY <1>2 DEF SendData, TypeOK
  <2>2. Accounted' /\ EndsWhole'
    BY <1>2 DEF SendData, TypeOK, Accounted, Written, InHand, EndsWhole
  <2>3. Progress' /\ NoReader' /\ TargetWhole'
    BY <1>2 DEF SendData, TypeOK, Progress, NoReader, TargetWhole, NeverPartial
  <2>. QED  BY <2>1, <2>2, <2>3
<1>3. CASE SendEnding
  <2>1. TypeOK'
    BY <1>3 DEF SendEnding, TypeOK
  <2>2. Accounted' /\ EndsWhole'
    BY <1>3 DEF SendEnding, TypeOK, Accounted, Written, InHand, EndsWhole
  <2>3. Progress' /\ NoReader' /\ TargetWhole'
    BY <1>3 DEF SendEnding, TypeOK, Progress, NoReader, TargetWhole, NeverPartial
  <2>. QED  BY <2>1, <2>2, <2>3
<1>. QED  BY <1>1, <1>2, <1>3 DEF ReaderStep

\* Whole and synced content survives; of the rest a prefix is left.
LEMMA SurvivesWhole ==
  ASSUME FInv
  PROVE  /\ Survives(target, "target" \in synced) = {target}
         /\ Survives(tmp, "tmp" \in synced) \subseteq Absent .. Chunks
         /\ tmp = Absent => Survives(tmp, "tmp" \in synced) = {Absent}
BY DEF FInv, TypeOK, TargetWhole, NeverPartial, Survives

LEMMA StopInv == FInv /\ (Kill \/ PowerLoss \/ OrphanExits) => FInv'
<1>. SUFFICES ASSUME FInv, Kill \/ PowerLoss \/ OrphanExits PROVE FInv'
  OBVIOUS
<1>1. CASE Kill
  BY <1>1 DEF Kill, Killed, FInv, TypeOK, Accounted, EndsWhole, Progress,
       NoReader, TargetWhole, NeverPartial
<1>2. CASE PowerLoss
  <2>1. TypeOK' /\ TargetWhole'
    BY <1>2, SurvivesWhole DEF PowerLoss, Killed, FInv, TypeOK, TargetWhole,
         NeverPartial
  <2>2. Accounted' /\ EndsWhole' /\ Progress' /\ NoReader'
    BY <1>2 DEF PowerLoss, Killed, FInv, Accounted, EndsWhole, Progress, NoReader
  <2>. QED  BY <2>1, <2>2 DEF FInv
<1>3. CASE OrphanExits
  BY <1>3 DEF OrphanExits, FInv, TypeOK, Accounted, Written, InHand, EndsWhole,
       Progress, NoReader, TargetWhole, NeverPartial
<1>. QED  BY <1>1, <1>2, <1>3

LEMMA StepInv == FInv /\ [Next]_vars => FInv'
<1>. SUFFICES ASSUME FInv, [Next]_vars PROVE FInv'
  OBVIOUS
<1>1. CASE UNCHANGED vars
  BY <1>1 DEF FInv, TypeOK, Accounted, Written, InHand, EndsWhole, Progress,
       NoReader, TargetWhole, NeverPartial
<1>2. CASE Finished
  BY <1>1, <1>2 DEF Finished
<1>. QED  BY <1>1, <1>2, WorkerInv, ReaderInv, StopInv DEF Next

LEMMA Invariance == Spec => []FInv
BY InitInv, StepInv, PTL DEF Spec

\* The state of a download is always one the code can be in; in particular
\* the temporary file never grows past the remote one.
THEOREM StreamTypeCorrect == Spec => []TypeOK
<1>1. FInv => TypeOK
  BY DEF FInv
<1>. QED  BY <1>1, Invariance, PTL

\* No chunk is lost, duplicated or written after the end was seen, wherever
\* reader and writer are (spawn_file_reader and the receive loop).
THEOREM ChunksAccounted == Spec => []StreamAccounting
<1>1. FInv => StreamAccounting
  BY DEF FInv, Accounted, Written, InHand, EndsWhole, Progress, StreamAccounting
<1>. QED  BY <1>1, Invariance, PTL

\* The final name never leads to a part of the file, whatever fails, and
\* whenever the process or the machine stops.
THEOREM TargetNeverPartial == Spec => []NeverPartial
<1>1. FInv => NeverPartial
  BY DEF FInv, TargetWhole
<1>. QED  BY <1>1, Invariance, PTL
-----------------------------------------------------------------------------
USE DEF Replacement!vars

LEMMA RefinesInit == Init => Replacement!Init
BY DEF Init, Replacement!Init

\* A failed attempt is the failure of the download or nothing at all.
LEMMA FailRefines ==
  ASSUME FInv, AttemptFails, pc \notin Ended
  PROVE  [Replacement!Next]_Replacement!vars
BY DEF AttemptFails, Replacement!Next, Replacement!Fail

LEMMA WorkerRefines ==
  ASSUME FInv, WorkerStep
  PROVE  [Replacement!Next]_Replacement!vars
<1>1. CASE OpenFails \/ CreateFails \/ CopyFails \/ SyncFails \/ RenameFails
  <2>1. AttemptFails /\ pc \notin Ended
    BY <1>1 DEF OpenFails, CreateFails, CopyFails, SyncFails, RenameFails,
         CleanupAndFail
  <2>. QED  BY <2>1, FailRefines
<1>2. CASE NeverAttempted
  BY <1>2 DEF NeverAttempted, Replacement!Next, Replacement!Fail
<1>3. CASE Rename
  BY <1>3 DEF Rename, FInv, Progress, Replacement!Next, Replacement!Replace
<1>4. CASE RenameRefused
  BY <1>4 DEF RenameRefused, Replacement!Next, Replacement!Unlink
<1>5. CASE OpenRemote \/ CreateTmp \/ WriteChunk \/ CopyEnds \/ SyncAll
  BY <1>5 DEF OpenRemote, CreateTmp, WriteChunk, CopyEnds, SyncAll
<1>. QED  BY <1>1, <1>2, <1>3, <1>4, <1>5 DEF WorkerStep

LEMMA StopRefines ==
  ASSUME FInv, Kill \/ PowerLoss
  PROVE  Replacement!Interrupt
<1>1. target' = target /\ pc' = "killed"
  BY SurvivesWhole DEF Kill, PowerLoss, Killed
<1>. QED  BY <1>1 DEF Replacement!Interrupt

LEMMA StepRefines ==
  ASSUME FInv, [Next]_vars
  PROVE  [Replacement!Next]_Replacement!vars
<1>1. CASE WorkerStep
  BY <1>1, WorkerRefines
<1>2. CASE Kill \/ PowerLoss
  BY <1>2, StopRefines DEF Replacement!Next
<1>3. CASE ReaderStep \/ OrphanExits \/ Finished \/ UNCHANGED vars
  BY <1>3 DEF ReaderStep, ReadRemote, SendData, SendEnding, OrphanExits, Finished
<1>. QED  BY <1>1, <1>2, <1>3 DEF Next

\* A download is an atomic replacement: the final name changes once, from the
\* old file (or, after a refused rename, from none) to the whole new one, in
\* the step that ends it successfully.
THEOREM StreamReplaces == Spec => ReplacesAtomically
BY Invariance, RefinesInit, StepRefines, PTL DEF Spec, ReplacesAtomically, Replacement!Spec
=============================================================================
