----------------------------- MODULE FileStream -----------------------------
(***************************************************************************)
(* The download of one file by one worker, with its retries: the stream    *)
(* closure of run_download_workers (transfer/workers/download.rs), the     *)
(* reader thread of transfer/workers/pipeline.rs and                       *)
(* atomic_rename_with_retries.  The process may be killed and the machine  *)
(* may lose power at any moment.                                           *)
(*                                                                         *)
(* A file's content is the number of its chunks.  The chunk channel is     *)
(* FIFO and Eof or Err is the last message in it, so it is the number of   *)
(* Data messages and the ending behind them.                               *)
(***************************************************************************)
EXTENDS Integers

CONSTANTS
  Chunks,              \* chunks of the remote file
  Depth,               \* capacity of the chunk channel (PipelineConfig, 4)
  MaxRenames,          \* renames retried after a refusal (2)
  RetryBudgets         \* values of --retry to consider

ASSUME StreamAssumption ==
  /\ Chunks \in Nat
  /\ Depth \in Nat \ {0}
  /\ MaxRenames \in Nat
  /\ RetryBudgets \subseteq Nat

Absent == -1           \* no such file
Old == -2              \* the content the target had before

VARIABLES
  max_retries,
  size,                          \* "large": at least cfg.enable_min, or "small"
  \* the worker
  pc, attempt, attempts,         \* attempts: refused renames so far
  \* the reader thread of this attempt and its channel
  reader, pos, queued, ending,
  orphans,                       \* readers left running by failed attempts
  \* the local file system
  tmp,                           \* this attempt's temporary file
  target,
  synced                         \* which of the two are on the disk

streamVars == <<reader, pos, queued, ending>>
fileVars == <<tmp, target, synced>>
vars == <<max_retries, size, pc, attempt, attempts, streamVars, orphans,
          fileVars>>

Ended == {"done", "failed", "killed"}

pipelined == size = "large"

TypeOK ==
  /\ max_retries \in RetryBudgets
  /\ size \in {"large", "small"}
  /\ pc \in {"open", "create", "copy", "sync", "rename"} \union Ended
  /\ attempt \in Nat
  /\ attempts \in 0 .. MaxRenames
  /\ reader \in {"none", "read", "data", "eof", "err", "exited"}
  /\ pos \in 0 .. Chunks
  /\ queued \in 0 .. Depth
  /\ ending \in {"none", "eof", "err"}
  /\ orphans \in Nat
  /\ tmp \in Absent .. Chunks
  /\ target \in Old .. Chunks
  /\ synced \subseteq {"tmp", "target"}

Init ==
  /\ max_retries \in RetryBudgets
  /\ size \in {"large", "small"}
  /\ pc = "open" /\ attempt = 0 /\ attempts = 0
  /\ reader = "none" /\ pos = 0 /\ queued = 0 /\ ending = "none"
  /\ orphans = 0
  /\ tmp = Absent /\ target \in {Absent, Old} /\ synced = {"target"}
-----------------------------------------------------------------------------
\* The operation returns Err(WorkerIo), retriable in this phase.  Its locals
\* are dropped, chunk_rx with them; the reader thread is not joined.
AttemptFails ==
  /\ pc' = IF attempt + 1 < max_retries THEN "open" ELSE "failed"
  /\ attempt' = attempt + 1
  /\ attempts' = 0
  /\ orphans' = IF reader \in {"none", "exited"} THEN orphans ELSE orphans + 1
  /\ reader' = "none" /\ pos' = 0 /\ queued' = 0 /\ ending' = "none"
  /\ synced' = synced \ {"tmp"}
  /\ UNCHANGED <<max_retries, size, target>>

\* Mutant of CleanupAndFail: what was read is renamed into place anyway.
RenameAndFail ==
  /\ tmp # Absent
  /\ target' = tmp /\ tmp' = Absent
  /\ synced' = IF "tmp" \in synced THEN {"target"} ELSE {}
  /\ pc' = "failed"
  /\ UNCHANGED <<max_retries, size, attempt, attempts, streamVars,
                 orphans>>

\* cleanup_tmp_and_err.  If remove_file fails the file stays under a name that
\* nobody uses again: it is out of the model either way.
CleanupAndFail ==
  /\ tmp' = Absent
  /\ AttemptFails

NeverAttempted ==
  /\ pc = "open" /\ attempt >= max_retries
  /\ pc' = "failed"
  /\ UNCHANGED <<max_retries, size, attempt, attempts, streamVars,
                 orphans, fileVars>>

\* sftp.open_read, and above enable_min the reader thread.
OpenRemote ==
  /\ pc = "open" /\ attempt < max_retries
  /\ pc' = "create"
  /\ reader' = IF pipelined THEN "read" ELSE "none"
  /\ UNCHANGED <<max_retries, size, attempt, attempts, pos, queued,
                 ending, orphans, fileVars>>

OpenFails ==
  /\ pc = "open" /\ attempt < max_retries
  /\ AttemptFails
  /\ UNCHANGED tmp

\* File::create(tmp_path), a name no other attempt uses.
CreateTmp ==
  /\ pc = "create"
  /\ tmp' = 0
  /\ pc' = "copy"
  /\ UNCHANGED <<max_retries, size, attempt, attempts, streamVars,
                 orphans, synced, target>>

CreateFails ==
  /\ pc = "create"
  /\ AttemptFails
  /\ UNCHANGED tmp
-----------------------------------------------------------------------------
\* spawn_file_reader: read, then send what was read.  A send waits for room.
ReadRemote ==
  /\ reader = "read"
  /\ \/ /\ pos < Chunks
        /\ pos' = pos + 1
        /\ reader' = "data"
     \/ /\ pos = Chunks
        /\ reader' = "eof"
        /\ UNCHANGED pos
     \/ /\ reader' = "err"
        /\ UNCHANGED pos
  /\ UNCHANGED <<max_retries, size, pc, attempt, attempts, queued, ending,
                 orphans, fileVars>>

SendData ==
  /\ reader = "data" /\ queued < Depth
  /\ queued' = queued + 1
  /\ reader' = "read"
  /\ UNCHANGED <<max_retries, size, pc, attempt, attempts, pos, ending,
                 orphans, fileVars>>

\* Mutant of SendEnding: on a read error the thread just ends.
SendEofOnly ==
  /\ reader \in {"eof", "err"} /\ queued < Depth
  /\ ending' = IF reader = "eof" THEN "eof" ELSE "none"
  /\ reader' = "exited"
  /\ UNCHANGED <<max_retries, size, pc, attempt, attempts, pos, queued,
                 orphans, fileVars>>

\* Mutant of SendEnding: a read error ends the stream as Eof does.
ErrorAsEof ==
  /\ reader \in {"eof", "err"} /\ queued < Depth
  /\ ending' = "eof"
  /\ reader' = "exited"
  /\ UNCHANGED <<max_retries, size, pc, attempt, attempts, pos, queued,
                 orphans, fileVars>>

SendEnding ==
  /\ reader \in {"eof", "err"} /\ queued < Depth
  /\ ending' = reader
  /\ reader' = "exited"
  /\ UNCHANGED <<max_retries, size, pc, attempt, attempts, pos, queued,
                 orphans, fileVars>>

\* A reader whose chunk_rx is gone: the send after its current read fails.
OrphanExits ==
  /\ orphans > 0
  /\ orphans' = orphans - 1
  /\ UNCHANGED <<max_retries, size, pc, attempt, attempts, streamVars,
                 fileVars>>

ReaderStep == ReadRemote \/ SendData \/ SendEnding
-----------------------------------------------------------------------------
\* The copy loop, from the channel or, for small files, from the remote file.
WriteChunk ==
  /\ pc = "copy"
  /\ \/ /\ pipelined /\ queued > 0
        /\ queued' = queued - 1
        /\ UNCHANGED pos
     \/ /\ ~pipelined /\ pos < Chunks
        /\ pos' = pos + 1
        /\ UNCHANGED queued
  /\ tmp' = tmp + 1
  /\ UNCHANGED <<max_retries, size, pc, attempt, attempts, reader, ending,
                 orphans, synced, target>>

\* A write error, a ReadMsg::Err, or a read error of the small-file loop.
CopyFails ==
  /\ pc = "copy"
  /\ pipelined => queued > 0 \/ ending = "err"
  /\ CleanupAndFail

\* Eof; the reader thread, which has sent its last message, is joined.
CopyEnds ==
  /\ pc = "copy"
  /\ IF pipelined THEN queued = 0 /\ ending = "eof" /\ reader = "exited"
                  ELSE pos = Chunks
  /\ pc' = "sync"
  /\ UNCHANGED <<max_retries, size, attempt, attempts, streamVars, orphans,
                 fileVars>>

\* Mutant of SyncAll: the data is left in the page cache.
SkipSync ==
  /\ pc = "sync"
  /\ pc' = "rename"
  /\ UNCHANGED <<max_retries, size, attempt, attempts, streamVars, orphans,
                 fileVars>>

SyncAll ==
  /\ pc = "sync"
  /\ synced' = synced \union {"tmp"}
  /\ pc' = "rename"
  /\ UNCHANGED <<max_retries, size, attempt, attempts, streamVars, orphans,
                 tmp, target>>

SyncFails == pc = "sync" /\ CleanupAndFail
-----------------------------------------------------------------------------
\* atomic_rename_with_retries.
Rename ==
  /\ pc = "rename"
  /\ target' = tmp /\ tmp' = Absent
  /\ synced' = IF "tmp" \in synced THEN {"target"} ELSE {}
  /\ pc' = "done"
  /\ UNCHANGED <<max_retries, size, attempt, attempts, streamVars, orphans>>

\* Mutant of RenameRefused: one refusal more is retried.
RefusedOnceMore ==
  /\ pc = "rename" /\ attempts <= MaxRenames
  /\ attempts' = attempts + 1
  /\ target' \in {target, Absent}
  /\ UNCHANGED <<max_retries, size, pc, attempt, streamVars, orphans, tmp,
                 synced>>

\* AlreadyExists or PermissionDenied: delete the target, which may fail too,
\* and try again.
RenameRefused ==
  /\ pc = "rename" /\ attempts < MaxRenames
  /\ attempts' = attempts + 1
  /\ target' \in {target, Absent}
  /\ UNCHANGED <<max_retries, size, pc, attempt, streamVars, orphans, tmp,
                 synced>>

RenameFails == pc = "rename" /\ CleanupAndFail
-----------------------------------------------------------------------------
\* The process is killed: its threads are gone, the files stay.
Killed ==
  /\ pc' = "killed"
  /\ reader' = "none" /\ orphans' = 0
  /\ UNCHANGED <<max_retries, size, attempt, attempts, pos, queued, ending>>

Kill == pc # "killed" /\ Killed /\ UNCHANGED fileVars

\* The machine loses power: of a file that was not synced any prefix is left.
\* Renames and removals are taken to be durable when they return.
Survives(content, was_synced) ==
  IF was_synced \/ content < 0 THEN {content} ELSE 0 .. content

PowerLoss ==
  /\ pc # "killed"
  /\ Killed
  /\ tmp' \in Survives(tmp, "tmp" \in synced)
  /\ target' \in Survives(target, "target" \in synced)
  /\ UNCHANGED <<synced>>

WorkerStep ==
  \/ NeverAttempted \/ OpenRemote \/ OpenFails \/ CreateTmp \/ CreateFails
  \/ WriteChunk \/ CopyFails \/ CopyEnds \/ SyncAll \/ SyncFails
  \/ Rename \/ RenameRefused \/ RenameFails

\* The worker goes on to its next entry.
Finished == pc \in Ended /\ orphans = 0 /\ UNCHANGED vars

Next == WorkerStep \/ ReaderStep \/ OrphanExits \/ Kill \/ PowerLoss \/ Finished

Spec == Init /\ [][Next]_vars

\* The threads are scheduled and each call to the network or the disk ends.
FairSpec ==
  /\ Spec
  /\ WF_vars(WorkerStep)
  /\ WF_vars(ReaderStep)
  /\ WF_vars(OrphanExits)
-----------------------------------------------------------------------------
\* Every chunk the reader took from the remote file is in one place: written,
\* queued or in the reader's hands; none is lost, written twice or written
\* after the end of the stream was seen.
StreamAccounting ==
  /\ pc = "copy" =>
       pos = tmp + queued + (IF reader = "data" THEN 1 ELSE 0)
  /\ pc = "copy" /\ ending = "eof" => pos = Chunks
  /\ pc \in {"sync", "rename"} => tmp = Chunks

\* The final name never leads to a part of the file, whether the download
\* fails, is retried or killed, or the machine stops, before or after it.
NeverPartial == target \in {Absent, Old, Chunks}

\* The download of a file is an atomic replacement of the target.
Replacement == INSTANCE AtomicReplace WITH
  target  <- CASE target = Absent -> "absent"
               [] target = Old    -> "old"
               [] target = Chunks -> "new"
               [] OTHER           -> "partial",
  outcome <- CASE pc = "done"   -> "ok"
               [] pc = "failed" -> "failed"
               [] pc = "killed" -> "interrupted"
               [] OTHER         -> "running"
ReplacesAtomically == Replacement!Spec

\* The worker is not stuck on its channel, whoever stops first, and no reader
\* thread outlives the download for ever.
StreamEnds == <>[](pc \in Ended /\ orphans = 0)

\* TRANSFER.md:163: "if the transfer fails the temporary file is cleaned up
\* or kept for inspection, but the target file is not overwritten" - a file
\* that was there before a download that failed is there after it.
FailureKeepsTarget ==
  target = Old => [](pc = "failed" => target = Old)
=============================================================================
