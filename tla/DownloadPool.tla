---------------------------- MODULE DownloadPool ----------------------------
(***************************************************************************)
(* One download of `hp ts`: the Download branch of handle_ts               *)
(* (transfer.rs), the remote enumeration it runs (enumeration.rs) and      *)
(* run_download_workers (transfer/workers/download.rs).                    *)
(*                                                                         *)
(* The workers start first.  Main then walks the remote tree and pushes    *)
(* what it finds into a bounded channel, a directory before what is in it; *)
(* the workers take entries in that order but finish them in any order,    *)
(* and make local directories by looking first and creating afterwards.    *)
(*                                                                         *)
(* What one attempt does to a file's local path is FileStream's business;  *)
(* here an attempt is one step.  Remote and local paths are the nodes of   *)
(* one tree: node n is downloaded to the local path n.                     *)
(***************************************************************************)
EXTENDS Integers, FiniteSets, Sequences

CONSTANTS
  Nodes, Root,         \* what lies below the remote root; the root itself
  Parent, Kind,        \* Parent[n]; Kind[n]: "File" or "Dir" (EntryKind)
  Matches, SingleFile, \* what a glob on the root matches; a lone file source
  Requests,            \* the (source, target) pairs to consider
  InitialLocals,       \* what may lie below the local target beforehand
  Concurrency,         \* the -c option
  MaxAllowedWorkers,   \* 32 in the code
  DefaultWorkers,      \* 8 in the code, for -c 0
  QueuePerWorker,      \* 4 in the code
  PbSlots,             \* 8 in the code
  RetryBudgets,        \* values of --retry (max_retries) to consider
  MayFail              \* may the network, the host or the disk refuse a call?

min(a, b) == IF a < b THEN a ELSE b
max(a, b) == IF a < b THEN b ELSE a

calc_download_workers(concurrency, max_allowed_workers) ==
  min(IF concurrency = 0 THEN DefaultWorkers ELSE concurrency,
      max_allowed_workers)

workers == calc_download_workers(Concurrency, MaxAllowedWorkers)
Workers == 0 .. (workers - 1)
cap == max(QueuePerWorker, Concurrency * QueuePerWorker)

\* A request: how the source is written, and whether the local target is a
\* directory, a file, or a file named without any directory ("bare").
\* prepare_local_target and the multi-entry rule refuse a glob or a trailing
\* slash with a file as target, and nothing else.
AllRequests ==
  {r \in [source : {"dir/", "dir", "glob", "file"},
          target : {"dir", "file", "bare"}] :
     r.target = "dir" \/ r.source \in {"dir", "file"}}

NoEntry == "no entry"

\* What may be at a local path: nothing, a directory, some file that was there
\* before, or the file downloaded from a node.
Contents == {"Absent", "Dir", "Other"} \union Nodes

\* The remote entries are a tree: no node lies below itself.
ASSUME TreeAssumption ==
  /\ Root \notin Nodes
  /\ Parent \in [Nodes -> Nodes \union {Root}]
  /\ Kind \in [Nodes -> {"File", "Dir"}]
  /\ \A n \in Nodes : Parent[n] # Root => Kind[Parent[n]] = "Dir"
  /\ \A S \in SUBSET Nodes : S # {} => \E n \in S : Parent[n] \notin S
  /\ Nodes \intersect {"Absent", "Dir", "Other", NoEntry} = {}
  /\ Matches \subseteq {n \in Nodes : Parent[n] = Root}
  /\ SingleFile \in Nodes /\ Kind[SingleFile] = "File"
  /\ Parent[SingleFile] = Root
ASSUME ParametersAssumption ==
  /\ Requests \subseteq AllRequests
  /\ InitialLocals \subseteq [Nodes -> {"Absent", "Dir", "Other"}]
  /\ Concurrency \in Nat
  /\ MaxAllowedWorkers \in Nat \ {0}
  /\ DefaultWorkers \in Nat \ {0}
  /\ QueuePerWorker \in Nat \ {0}
  /\ PbSlots \in Nat
  /\ RetryBudgets \subseteq Nat
  /\ MayFail \in BOOLEAN
-----------------------------------------------------------------------------
VARIABLES
  request, max_retries,
  \* main thread
  main_pc, walk_q, listing,   \* directories to read; the rest of this one
  discovered, unread,         \* entries pushed; directories readdir refused
  report,
  \* channels
  queue, failures, metrics, pb_slots,
  \* the local file system
  local,
  \* worker threads
  pc, entry, attempt, has_pb_slot, maybe_sess, maybe_sftp,
  wasted                      \* entries failed on a session that was dead

inputVars == <<request, max_retries>>
mainVars == <<main_pc, walk_q, listing, discovered, unread, report>>
chanVars == <<failures, metrics>>
slotVars == <<pb_slots, has_pb_slot>>
sessVars == <<maybe_sess, maybe_sftp, wasted>>
taskVars == <<pc, entry, attempt>>
vars == <<inputVars, mainVars, queue, chanVars, slotVars, local, sessVars,
          taskVars>>

InHand == {"parent", "mkparent", "dir", "mkdir", "pre", "stream"}

TypeOK ==
  /\ request \in Requests
  /\ max_retries \in RetryBudgets
  /\ main_pc \in {"start", "walk", "join", "nomatch", "done"}
  /\ walk_q \in Seq(Nodes \union {Root})
  /\ listing \subseteq Nodes
  /\ discovered \subseteq Nodes
  /\ unread \subseteq Nodes \union {Root}
  /\ report \in [Nodes -> Nat]
  /\ queue \in Seq(discovered) /\ Len(queue) <= cap
  /\ failures \in [Nodes -> Nat]
  /\ metrics \in 0 .. workers
  /\ pb_slots \in 0 .. PbSlots
  /\ local \in [Nodes \union {Root} -> Contents]
  /\ pc \in [Workers -> InHand \union {"recv", "metrics", "exited"}]
  /\ entry \in [Workers -> discovered \union {NoEntry}]
  /\ \A w \in Workers : entry[w] # NoEntry <=> pc[w] \in InHand
  /\ attempt \in [Workers -> Nat]
  /\ has_pb_slot \in [Workers -> BOOLEAN]
  /\ maybe_sess \in [Workers -> {"None", "Live", "Dead"}]
  /\ maybe_sftp \in [Workers -> BOOLEAN]
  /\ wasted \in [Workers -> Nat]

\* The local target itself is the path Root: prepare_local_target has found
\* or made the directory, or found a file.
Init ==
  /\ request \in Requests
  /\ max_retries \in RetryBudgets
  /\ main_pc = "start" /\ walk_q = <<>> /\ listing = {}
  /\ discovered = {} /\ unread = {}
  /\ report = [n \in Nodes |-> 0]
  /\ queue = <<>>
  /\ failures = [n \in Nodes |-> 0]
  /\ metrics = 0
  /\ pb_slots = PbSlots
  /\ \E before \in InitialLocals :
       local = [p \in Nodes \union {Root} |->
                  IF p # Root THEN before[p]
                  ELSE IF request.target = "dir" THEN "Dir" ELSE "Other"]
  /\ pc = [w \in Workers |-> "recv"]
  /\ entry = [w \in Workers |-> NoEntry]
  /\ attempt = [w \in Workers |-> 0]
  /\ has_pb_slot = [w \in Workers |-> FALSE]
  /\ maybe_sess = [w \in Workers |-> "None"]
  /\ maybe_sftp = [w \in Workers |-> FALSE]
  /\ wasted = [w \in Workers |-> 0]
-----------------------------------------------------------------------------
\* The main thread: enumerate_remote_and_push and walk_remote_dir.

Recursive == request.source \in {"dir/", "dir"}

\* With a trailing slash the walk starts whatever stat says; otherwise a
\* refused stat, or a refused readdir of the glob's directory, finds nothing.
StartEnumeration ==
  /\ main_pc = "start"
  /\ main_pc' = "walk"
  /\ \/ /\ walk_q' = IF Recursive THEN <<Root>> ELSE <<>>
        /\ listing' = CASE request.source = "glob" -> Matches
                        [] request.source = "file" -> {SingleFile}
                        [] Recursive               -> {}
        /\ UNCHANGED unread
     \/ /\ MayFail /\ request.source # "dir/"
        /\ unread' = {Root}
        /\ UNCHANGED <<walk_q, listing>>
  /\ UNCHANGED <<inputVars, discovered, report, queue, chanVars, slotVars,
                 local, sessVars, taskVars>>

\* The next directory of the walk.  One that cannot be read is skipped.
ReadDir ==
  /\ main_pc = "walk" /\ listing = {} /\ walk_q # <<>>
  /\ walk_q' = Tail(walk_q)
  /\ \/ /\ listing' = {n \in Nodes : Parent[n] = Head(walk_q)}
        /\ UNCHANGED unread
     \/ /\ MayFail
        /\ unread' = unread \union {Head(walk_q)}
        /\ UNCHANGED listing
  /\ UNCHANGED <<inputVars, main_pc, discovered, report, queue, chanVars,
                 slotVars, local, sessVars, taskVars>>

\* Mutant of Push: a directory is pushed and never read.
PushFlat(n) ==
  /\ main_pc = "walk" /\ n \in listing
  /\ Len(queue) < cap
  /\ queue' = Append(queue, n)
  /\ discovered' = discovered \union {n}
  /\ listing' = listing \ {n}
  /\ UNCHANGED <<inputVars, main_pc, walk_q, unread, report, chanVars,
                 slotVars, local, sessVars, taskVars>>

\* push: the send blocks while the channel is full.  readdir has no order.
Push(n) ==
  /\ main_pc = "walk" /\ n \in listing
  /\ Len(queue) < cap
  /\ queue' = Append(queue, n)
  /\ discovered' = discovered \union {n}
  /\ listing' = listing \ {n}
  /\ walk_q' = IF Recursive /\ Kind[n] = "Dir" THEN Append(walk_q, n)
                                               ELSE walk_q
  /\ UNCHANGED <<inputVars, main_pc, unread, report, chanVars, slotVars,
                 local, sessVars, taskVars>>

\* drop(file_tx_clone), drop(file_tx).
CloseQueue ==
  /\ main_pc = "walk" /\ listing = {} /\ walk_q = <<>>
  /\ main_pc' = "join"
  /\ UNCHANGED <<inputVars, walk_q, listing, discovered, unread, report,
                 queue, chanVars, slotVars, local, sessVars, taskVars>>

AllExited == \A w \in Workers : pc[w] = "exited"
NoMatches == request.source = "glob" /\ discovered = {}

\* Mutant of GlobNoMatches: the error is returned without joining.
ReturnAtOnce ==
  /\ main_pc = "join" /\ NoMatches
  /\ main_pc' = "nomatch"
  /\ UNCHANGED <<inputVars, walk_q, listing, discovered, unread, report,
                 queue, chanVars, slotVars, local, sessVars, taskVars>>

\* A glob without a match: main joins the workers and returns an error,
\* without looking at the failure and metrics channels.
GlobNoMatches ==
  /\ main_pc = "join" /\ NoMatches
  /\ AllExited
  /\ main_pc' = "nomatch"
  /\ UNCHANGED <<inputVars, walk_q, listing, discovered, unread, report,
                 queue, chanVars, slotVars, local, sessVars, taskVars>>

\* Otherwise main joins the workers, drops its senders and collects.
JoinAndFinalize ==
  /\ main_pc = "join" /\ ~NoMatches
  /\ AllExited
  /\ report' = failures
  /\ failures' = [n \in Nodes |-> 0]
  /\ metrics' = 0
  /\ main_pc' = "done"
  /\ UNCHANGED <<inputVars, walk_q, listing, discovered, unread, queue,
                 slotVars, local, sessVars, taskVars>>

MainStep ==
  \/ StartEnumeration \/ ReadDir \/ (\E n \in Nodes : Push(n)) \/ CloseQueue
  \/ GlobNoMatches \/ JoinAndFinalize
-----------------------------------------------------------------------------
\* The steps every worker action is built from.

Goto(w, to) == pc' = [pc EXCEPT ![w] = to]
SendFailure(e) == failures' = [failures EXCEPT ![e] = @ + 1]

\* Mutant of finish_and_release_pb: the slot is forgotten, not returned.
LeakSlot(w) ==
  /\ has_pb_slot' = [has_pb_slot EXCEPT ![w] = FALSE]
  /\ UNCHANGED pb_slots

\* Mutant of finish_and_release_pb: a slot is returned that was never taken.
ReturnSlotAnyway(w) ==
  /\ pb_slots' = pb_slots + 1
  /\ has_pb_slot' = [has_pb_slot EXCEPT ![w] = FALSE]

finish_and_release_pb(w) ==
  /\ pb_slots' = IF has_pb_slot[w] THEN pb_slots + 1 ELSE pb_slots
  /\ has_pb_slot' = [has_pb_slot EXCEPT ![w] = FALSE]

\* Done with the entry in hand: the slot goes back, and on to the next.
EntryDone(w) ==
  /\ finish_and_release_pb(w)
  /\ entry' = [entry EXCEPT ![w] = NoEntry]
  /\ attempt' = [attempt EXCEPT ![w] = 0]
  /\ Goto(w, "recv")

\* Entries go below a target directory; otherwise each is written to the
\* target itself.
local_target(n) == IF request.target = "dir" THEN n ELSE Root

\* What exists() and is_dir() say of the parent of n's local path.  The parent
\* of a bare name is the empty path, which does not exist.
ParentContent(n) == CASE request.target = "dir"  -> local[Parent[n]]
                      [] request.target = "file" -> "Dir"
                      [] request.target = "bare" -> "Absent"

\* ... and of the grandparent.  What lies above a target directory is there;
\* the empty path has no parent.
GrandparentIsDir(n) ==
  /\ request.target = "dir"
  /\ Parent[n] # Root => local[Parent[Parent[n]]] = "Dir"

\* retry_operation_with_ctx: is there another attempt after this failed one?
WillRetry(w) == attempt[w] + 1 < max_retries
-----------------------------------------------------------------------------
\* file_rx.recv(): an entry, or disconnection once main dropped its senders.
Recv(w) ==
  /\ pc[w] = "recv" /\ queue # <<>>
  /\ entry' = [entry EXCEPT ![w] = Head(queue)]
  /\ queue' = Tail(queue)
  /\ Goto(w, "parent")
  /\ UNCHANGED <<inputVars, mainVars, chanVars, slotVars, local, sessVars,
                 attempt>>

\* Mutant of RecvDisconnected: main keeps a sender until it returns.
WaitForMain(w) ==
  /\ pc[w] = "recv" /\ queue = <<>>
  /\ main_pc \in {"nomatch", "done"}
  /\ Goto(w, "metrics")
  /\ UNCHANGED <<inputVars, mainVars, queue, chanVars, slotVars, local,
                 sessVars, entry, attempt>>

RecvDisconnected(w) ==
  /\ pc[w] = "recv" /\ queue = <<>>
  /\ main_pc \notin {"start", "walk"}
  /\ Goto(w, "metrics")
  /\ UNCHANGED <<inputVars, mainVars, queue, chanVars, slotVars, local,
                 sessVars, entry, attempt>>

\* ensure_local_parent looks for the parent, and for the grandparent of one
\* that is missing.  A parent that is no directory fails the entry, and so
\* does a parent missing two levels deep: there is no mkdir -p.
CheckParent(w) ==
  LET n == entry[w]
  IN
  /\ pc[w] = "parent"
  /\ \/ /\ ParentContent(n) = "Dir"
        /\ Goto(w, IF Kind[n] = "Dir" THEN "dir" ELSE "pre")
        /\ IF Kind[n] = "File" /\ pb_slots > 0
             THEN /\ pb_slots' = pb_slots - 1
                  /\ has_pb_slot' = [has_pb_slot EXCEPT ![w] = TRUE]
             ELSE UNCHANGED slotVars
        /\ UNCHANGED <<failures, entry, attempt>>
     \/ /\ ParentContent(n) = "Absent" /\ GrandparentIsDir(n)
        /\ Goto(w, "mkparent")
        /\ UNCHANGED <<failures, slotVars, entry, attempt>>
     \/ /\ ParentContent(n) # "Dir"
        /\ ParentContent(n) = "Absent" => ~GrandparentIsDir(n)
        /\ SendFailure(n)
        /\ EntryDone(w)
  /\ UNCHANGED <<inputVars, mainVars, queue, metrics, local, sessVars>>

\* std::fs::create_dir: it creates exactly what is missing.  When another
\* worker was faster, it fails with AlreadyExists.
CreateDir(p) == local[p] = "Absent" /\ local' = [local EXCEPT ![p] = "Dir"]
CreateDirFails(p) ==
  /\ local[p] # "Absent" \/ MayFail
  /\ UNCHANGED local

\* ... and makes the parent.  What was looked up is not looked up again.
MakeParent(w) ==
  LET n == entry[w]
  IN
  /\ pc[w] = "mkparent"
  /\ \/ /\ CreateDir(Parent[n])
        /\ Goto(w, "parent")
        /\ UNCHANGED <<failures, slotVars, entry, attempt>>
     \/ /\ CreateDirFails(Parent[n])
        /\ SendFailure(n)
        /\ EntryDone(w)
  /\ UNCHANGED <<inputVars, mainVars, queue, metrics, sessVars>>

\* A Dir entry.  The code calls ensure_local_parent once more before
\* create_dir; the parent is a directory by then and stays one.
CheckDir(w) ==
  LET p == local_target(entry[w])
  IN
  /\ pc[w] = "dir"
  /\ \/ /\ local[p] = "Dir"
        /\ EntryDone(w) /\ UNCHANGED failures
     \/ /\ local[p] \notin {"Dir", "Absent"}
        /\ SendFailure(entry[w])
        /\ EntryDone(w)
     \/ /\ local[p] = "Absent"
        /\ Goto(w, "mkdir")
        /\ UNCHANGED <<failures, slotVars, entry, attempt>>
  /\ UNCHANGED <<inputVars, mainVars, queue, metrics, local, sessVars>>

\* Mutant of MakeDir: the failure is sent where it happens and once more.
ReportTwice(w) ==
  /\ pc[w] = "mkdir"
  /\ \/ CreateDir(local_target(entry[w])) /\ UNCHANGED failures
     \/ /\ CreateDirFails(local_target(entry[w]))
        /\ failures' = [failures EXCEPT ![entry[w]] = @ + 2]
  /\ EntryDone(w)
  /\ UNCHANGED <<inputVars, mainVars, queue, metrics, sessVars>>

MakeDir(w) ==
  /\ pc[w] = "mkdir"
  /\ \/ CreateDir(local_target(entry[w])) /\ UNCHANGED failures
     \/ /\ CreateDirFails(local_target(entry[w]))
        /\ SendFailure(entry[w])
  /\ EntryDone(w)
  /\ UNCHANGED <<inputVars, mainVars, queue, metrics, sessVars>>
-----------------------------------------------------------------------------
\* A File entry: the pre-transfer phase, ensure_session_and_sftp under its own
\* retry loop.  Its errors are all retriable there.

\* A session there may be built on first; an SFTP handle needs a live one, and
\* one that was opened before is not looked at again.
EnsureReady(w) ==
  /\ pc[w] = "pre" /\ attempt[w] < max_retries
  /\ maybe_sess' = [maybe_sess EXCEPT ![w] = IF @ = "None" THEN "Live" ELSE @]
  /\ maybe_sftp[w] \/ maybe_sess[w] # "Dead"
  /\ maybe_sftp' = [maybe_sftp EXCEPT ![w] = TRUE]
  /\ wasted' = [wasted EXCEPT ![w] = IF maybe_sess[w] = "None" THEN 0 ELSE @]
  /\ attempt' = [attempt EXCEPT ![w] = 0]
  /\ Goto(w, "stream")
  /\ UNCHANGED <<inputVars, mainVars, queue, chanVars, slotVars, local, entry>>

\* The connection or the handshake is refused, or the SFTP channel is; the
\* session may have been built all the same, and is kept for the next attempt.
NotReady(w) ==
  /\ pc[w] = "pre" /\ attempt[w] < max_retries
  /\ WillRetry(w)
  /\ ~maybe_sftp[w] /\ (MayFail \/ maybe_sess[w] = "Dead")
  /\ \/ UNCHANGED <<maybe_sess, wasted>>
     \/ /\ maybe_sess[w] = "None"
        /\ maybe_sess' = [maybe_sess EXCEPT ![w] = "Live"]
        /\ wasted' = [wasted EXCEPT ![w] = 0]
  /\ attempt' = [attempt EXCEPT ![w] = @ + 1]
  /\ UNCHANGED <<inputVars, mainVars, queue, chanVars, slotVars, local,
                 maybe_sftp, pc, entry>>

Wasted(w) == wasted' = [wasted EXCEPT
                          ![w] = IF maybe_sess[w] = "Dead" THEN @ + 1 ELSE @]

\* Mutant of PreTransferFails: the session that led to the failure is kept.
KeepSession(w) ==
  /\ pc[w] = "pre" /\ ~WillRetry(w)
  /\ \/ attempt[w] >= max_retries
     \/ ~maybe_sftp[w] /\ (MayFail \/ maybe_sess[w] = "Dead")
  /\ SendFailure(entry[w])
  /\ Wasted(w)
  /\ EntryDone(w)
  /\ UNCHANGED <<inputVars, mainVars, queue, metrics, local, maybe_sess,
                 maybe_sftp>>

\* The last attempt failed, or with --retry 0 there is none: the entry fails
\* and the session goes with the handle.
PreTransferFails(w) ==
  /\ pc[w] = "pre" /\ ~WillRetry(w)
  /\ \/ attempt[w] >= max_retries
     \/ ~maybe_sftp[w] /\ (MayFail \/ maybe_sess[w] = "Dead")
  /\ SendFailure(entry[w])
  /\ Wasted(w)
  /\ maybe_sess' = [maybe_sess EXCEPT ![w] = "None"]
  /\ maybe_sftp' = [maybe_sftp EXCEPT ![w] = FALSE]
  /\ EntryDone(w)
  /\ UNCHANGED <<inputVars, mainVars, queue, metrics, local>>

\* One attempt of the streaming phase gets through: the file is renamed to
\* its local path, which may hold a file but no directory.
StreamOk(w) ==
  LET p == local_target(entry[w])
  IN
  /\ pc[w] = "stream"
  /\ maybe_sess[w] = "Live" /\ local[p] # "Dir"
  /\ local' = [local EXCEPT ![p] = entry[w]]
  /\ EntryDone(w)
  /\ UNCHANGED <<inputVars, mainVars, queue, chanVars, sessVars>>

\* An attempt fails.  Its temporary file is gone, and the file that was at the
\* local path may be: a refused rename removes it before trying again.
AttemptBreaks(w) ==
  LET p == local_target(entry[w])
  IN
  /\ pc[w] = "stream"
  /\ MayFail \/ maybe_sess[w] = "Dead" \/ local[p] = "Dir"
  /\ \/ UNCHANGED local
     \/ MayFail /\ local[p] # "Dir" /\ local' = [local EXCEPT ![p] = "Absent"]

StreamRetried(w) ==
  /\ AttemptBreaks(w) /\ WillRetry(w)
  /\ attempt' = [attempt EXCEPT ![w] = @ + 1]
  /\ UNCHANGED <<inputVars, mainVars, queue, chanVars, slotVars, sessVars, pc,
                 entry>>

\* Mutant of StreamFails: the failure is logged and not sent.
LogOnly(w) ==
  /\ AttemptBreaks(w) /\ ~WillRetry(w)
  /\ Wasted(w)
  /\ maybe_sftp' = [maybe_sftp EXCEPT ![w] = FALSE]
  /\ EntryDone(w)
  /\ UNCHANGED <<inputVars, mainVars, queue, chanVars, maybe_sess>>

\* Every error of the streaming phase is a WorkerIo, so the attempts run out.
\* The SFTP handle goes; the session stays, dead or alive.
StreamFails(w) ==
  /\ AttemptBreaks(w) /\ ~WillRetry(w)
  /\ SendFailure(entry[w])
  /\ Wasted(w)
  /\ maybe_sftp' = [maybe_sftp EXCEPT ![w] = FALSE]
  /\ EntryDone(w)
  /\ UNCHANGED <<inputVars, mainVars, queue, metrics, maybe_sess>>

\* finalize_worker_metrics; the thread ends.
SendMetrics(w) ==
  /\ pc[w] = "metrics" /\ metrics < workers
  /\ metrics' = metrics + 1
  /\ Goto(w, "exited")
  /\ UNCHANGED <<inputVars, mainVars, queue, failures, slotVars, local,
                 sessVars, entry, attempt>>

WorkerStep(w) ==
  \/ Recv(w) \/ RecvDisconnected(w) \/ CheckParent(w) \/ MakeParent(w)
  \/ CheckDir(w) \/ MakeDir(w)
  \/ EnsureReady(w) \/ NotReady(w) \/ PreTransferFails(w)
  \/ StreamOk(w) \/ StreamRetried(w) \/ StreamFails(w) \/ SendMetrics(w)

\* The remote host or the network drops a worker's connection.
ConnectionDrops(w) ==
  /\ MayFail
  /\ maybe_sess[w] = "Live" /\ pc[w] \notin {"metrics", "exited"}
  /\ maybe_sess' = [maybe_sess EXCEPT ![w] = "Dead"]
  /\ UNCHANGED <<inputVars, mainVars, queue, chanVars, slotVars, local,
                 maybe_sftp, wasted, taskVars>>

\* handle_ts has returned.
Finished == main_pc \in {"nomatch", "done"} /\ AllExited /\ UNCHANGED vars

Next ==
  \/ MainStep
  \/ \E w \in Workers : WorkerStep(w) \/ ConnectionDrops(w)
  \/ Finished

Spec == Init /\ [][Next]_vars

\* Threads are scheduled, and every network call ends, if only by a timeout.
FairSpec ==
  /\ Spec
  /\ WF_vars(MainStep)
  /\ \A w \in Workers : WF_vars(WorkerStep(w))
-----------------------------------------------------------------------------
\* Properties.

SlotHolders == {w \in Workers : has_pb_slot[w]}

\* No progress-bar slot is lost or minted, and only a worker with a file in
\* hand holds one, whatever happened to its earlier entries.
SlotDiscipline ==
  /\ pb_slots + Cardinality(SlotHolders) = PbSlots
  /\ \A w \in Workers : has_pb_slot[w] => pc[w] \in {"pre", "stream"}

Queued == {queue[i] : i \in DOMAIN queue}
Taken == {entry[w] : w \in Workers} \ {NoEntry}
Failed == {n \in Nodes : failures[n] + report[n] > 0}
Arrived(n) ==
  local[local_target(n)] = IF Kind[n] = "Dir" THEN "Dir" ELSE n

\* An entry is in the channel, with one worker, or dealt with; its failure is
\* recorded at most once, and only after that.
EachEntryOnce ==
  /\ Cardinality(Queued) = Len(queue)
  /\ \A v, w \in Workers : v # w /\ entry[v] # NoEntry => entry[v] # entry[w]
  /\ Queued \intersect Taken = {}
  /\ Failed \intersect (Queued \union Taken) = {}
  /\ \A n \in Nodes : failures[n] + report[n] <= 1

\* No silent loss among the entries that were found: one that nobody has any
\* more is at its local path, or its failure is on the way to the report.  Only
\* where several entries share one local path (a directory downloaded onto a
\* file name, which no rule refuses) may it have lost that path, and then to
\* another of them, which is there, at work on it, or reported.
Rivals(n) == {m \in discovered \ {n} : local_target(m) = local_target(n)}
NoSilentLoss ==
  \A n \in discovered :
    \/ n \in Queued \union Taken \union Failed
    \/ Arrived(n)
    \/ \E m \in Rivals(n) : m \in Taken \union Failed \/ Arrived(m)

\* What the request asks for.
Selected == CASE request.source = "file" -> {SingleFile}
              [] request.source = "glob" -> Matches
              [] Recursive               -> Nodes

\* The directories above n: what is in every set that has n's parent in it
\* and, with a node, the node's parent.
Above(n) ==
  {p \in Nodes \union {Root} :
     \A S \in SUBSET (Nodes \union {Root}) :
       Parent[n] \in S /\ (\A m \in S \ {Root} : Parent[m] \in S) => p \in S}

\* The enumeration overlooks nothing by itself: when it is over, whatever was
\* asked for and not found lies below a directory that could not be read.  (A
\* name that is not UTF-8, which the code passes over, is no node.)
OnlyUnreadSkipped ==
  main_pc \notin {"start", "walk"} =>
    \A n \in Selected : n \in discovered \/ Above(n) \intersect unread # {}

\* A connection that dropped costs a worker at most two files: the one that
\* was being streamed, and the next, whose pre-transfer phase finds out that
\* the session is dead and has it replaced.
DeadSessionBound == \A w \in Workers : wasted[w] <= 2

\* handle_ts returns to its caller, with a report or with an error, only after
\* the last worker is gone and when no failure is left unread.
ReturnsAfterWorkers ==
  main_pc \in {"nomatch", "done"} =>
    /\ AllExited
    /\ queue = <<>>
    /\ \A n \in Nodes : failures[n] = 0

\* Main never waits forever for room in the channel or for a worker.
Termination == <>(main_pc \in {"nomatch", "done"})

\* CHANGELOG.md:33: the download "writes local files, creating local
\* directories as needed" - when no call is refused, every file arrives.
DirectoriesAsNeeded ==
  main_pc = "done" => \A n \in Nodes : Kind[n] = "File" => Arrived(n)
=============================================================================
