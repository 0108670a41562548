----------------------------- MODULE UploadPool -----------------------------
(***************************************************************************)
(* One upload of `hp ts`: the Upload branch of handle_ts (transfer.rs),    *)
(* run_upload_workers (transfer/workers/upload.rs), the retry loop around  *)
(* each entry (util.rs) and the session a worker keeps (session.rs).       *)
(*                                                                         *)
(* The main thread feeds the enumerated entries into a bounded channel,    *)
(* drops its sender, joins the workers and then drains the failure and     *)
(* metrics channels.  A worker takes an entry, opens a session under one   *)
(* of a few connection tokens unless it has one, makes the remote          *)
(* directory, borrows a progress-bar slot and streams the file.            *)
(*                                                                         *)
(* Channels.  The entry channel is FIFO with one producer, so it holds     *)
(* the entries received+1 .. sent; a channel of unit messages (tokens,     *)
(* slots, metrics) is its number of messages; the unbounded failure        *)
(* channel is the number of messages it holds for each entry.              *)
(***************************************************************************)
EXTENDS Integers, FiniteSets

CONSTANTS
  TotalEntries,        \* entries are numbered 1 .. TotalEntries, in order
  Kind,                \* Kind[e]: "File" or "Dir" (EntryKind)
  DirOf,               \* DirOf[e]: a Dir's remote path, a File's parent
  Chunks,              \* Chunks[e]: chunks the reader yields before Eof
  Concurrency,         \* the -c option, or what choose_auto_concurrency says
  MaxAllowedWorkers,   \* 32 in the code
  QueuePerWorker,      \* 4 in the code
  HandshakeMax,        \* 4 in the code
  PbSlots,             \* 8 in the code
  RetryBudgets         \* values of --retry (max_retries) to consider

Entries == 1 .. TotalEntries
RemoteDirs == {DirOf[e] : e \in Entries}

min(a, b) == IF a < b THEN a ELSE b
max(a, b) == IF a < b THEN b ELSE a

calc_upload_workers(concurrency, max_allowed_workers, total_entries) ==
  LET wanted == IF concurrency = 0 THEN 1 ELSE concurrency
  IN  min(min(wanted, max_allowed_workers), max(1, total_entries))

workers == calc_upload_workers(Concurrency, MaxAllowedWorkers, TotalEntries)
Workers == 0 .. (workers - 1)

\* Capacity of the entry channel, and number of connection tokens.
cap == min(max(QueuePerWorker, workers * QueuePerWorker + 1),
           max(1, TotalEntries + 1))
handshake_limit == min(workers, HandshakeMax)

ASSUME SizesAssumption ==
  /\ TotalEntries \in Nat
  /\ Concurrency \in Nat
  /\ MaxAllowedWorkers \in Nat \ {0}
  /\ QueuePerWorker \in Nat \ {0}
  /\ HandshakeMax \in Nat \ {0}
  /\ PbSlots \in Nat
  /\ RetryBudgets \subseteq Nat
ASSUME EntriesAssumption ==
  /\ Kind \in [Entries -> {"File", "Dir"}]
  /\ DOMAIN DirOf = Entries
  /\ Chunks \in [Entries -> Nat]
-----------------------------------------------------------------------------
\* The TransferErrors an upload can meet.  "WorkerIoConn" is a WorkerIo whose
\* message holds one of the connection keywords of should_reset_session.
SessionErrors == {"SshHandshakeFailed", "WorkerBuildSessionFailed"}
IoErrors == {"WorkerIo", "WorkerIoConn"}
TransferErrors == SessionErrors \union IoErrors \union
  {"SftpCreateFailed", "WorkerNoSftp", "WorkerNoSession",
   "CreateRemoteDirFailed", "OperationFailed"}
NoError == "none"

is_retriable_during_transfer(e) ==
  e \in IoErrors \union {"SftpCreateFailed", "WorkerNoSftp", "WorkerNoSession"}

should_reset_session(e) ==
  e \in SessionErrors \union
        {"SftpCreateFailed", "WorkerNoSftp", "WorkerNoSession", "WorkerIoConn"}
-----------------------------------------------------------------------------
VARIABLES
  max_retries,              \* the --retry value of this invocation
  \* main thread
  main_pc, sent, main_tx,   \* main_tx: main still owns failure_tx, metrics_tx
  report,                   \* what finalize_transfer collected
  \* channels
  received, failures, metrics, conn_tokens, pb_slots,
  \* the remote host
  remote_dirs, remote_file, \* remote_file[e]: chunks in e's file, or Absent
  \* worker threads
  pc, entry, attempt, last_err, token_guard, maybe_sess, maybe_sftp,
  connection_error_streak, has_pb_slot, created_dirs

mainVars == <<max_retries, main_pc, sent, main_tx, report>>
chanVars == <<received, failures, metrics>>
tokenVars == <<conn_tokens, token_guard>>
slotVars == <<pb_slots, has_pb_slot>>
remoteVars == <<remote_dirs, remote_file>>
sessVars == <<maybe_sess, maybe_sftp, connection_error_streak>>
taskVars == <<pc, entry, attempt, last_err>>
vars == <<mainVars, chanVars, tokenVars, slotVars, remoteVars, sessVars,
          taskVars, created_dirs>>

Absent == -1
NoEntry == 0
InHand == {"attempt", "session", "sftp", "work", "open", "stream", "failed"}

TypeOK ==
  /\ max_retries \in RetryBudgets
  /\ main_pc \in {"produce", "join", "collect", "done"}
  /\ sent \in 0 .. TotalEntries
  /\ main_tx \in BOOLEAN
  /\ report \in [Entries -> Nat]
  /\ received \in 0 .. sent
  /\ failures \in [Entries -> Nat]
  /\ metrics \in 0 .. workers
  /\ conn_tokens \in 0 .. handshake_limit
  /\ pb_slots \in 0 .. PbSlots
  /\ remote_dirs \subseteq RemoteDirs
  /\ remote_file \in [Entries -> Nat \union {Absent}]
  /\ pc \in [Workers -> InHand \union {"recv", "metrics", "exited"}]
  /\ entry \in [Workers -> Entries \union {NoEntry}]
  /\ \A w \in Workers : entry[w] # NoEntry <=> pc[w] \in InHand
  /\ attempt \in [Workers -> Nat]
  /\ last_err \in [Workers -> TransferErrors \union {NoError}]
  /\ token_guard \in [Workers -> BOOLEAN]
  /\ maybe_sess \in [Workers -> {"None", "Live", "Dead"}]
  /\ maybe_sftp \in [Workers -> BOOLEAN]
  /\ connection_error_streak \in [Workers -> 0 .. 1]
  /\ has_pb_slot \in [Workers -> BOOLEAN]
  /\ created_dirs \in [Workers -> SUBSET RemoteDirs]

\* The channels of one transfer; every progress-bar slot is in its channel.
setup_worker_runtime ==
  /\ failures = [e \in Entries |-> 0]
  /\ metrics = 0
  /\ pb_slots = PbSlots

Init ==
  /\ max_retries \in RetryBudgets
  /\ main_pc = "produce" /\ sent = 0 /\ main_tx = TRUE
  /\ report = [e \in Entries |-> 0]
  /\ received = 0
  /\ setup_worker_runtime
  /\ conn_tokens = handshake_limit
  /\ remote_dirs = {}
  /\ remote_file = [e \in Entries |-> Absent]
  /\ pc = [w \in Workers |-> "recv"]
  /\ entry = [w \in Workers |-> NoEntry]
  /\ attempt = [w \in Workers |-> 0]
  /\ last_err = [w \in Workers |-> NoError]
  /\ token_guard = [w \in Workers |-> FALSE]
  /\ maybe_sess = [w \in Workers |-> "None"]
  /\ maybe_sftp = [w \in Workers |-> FALSE]
  /\ connection_error_streak = [w \in Workers |-> 0]
  /\ has_pb_slot = [w \in Workers |-> FALSE]
  /\ created_dirs = [w \in Workers |-> {}]
-----------------------------------------------------------------------------
\* The steps every worker action is built from.

Goto(w, to) == pc' = [pc EXCEPT ![w] = to]

\* Mutant of ReleaseToken: the guard goes without sending the token back.
LeakToken(w) ==
  /\ token_guard' = [token_guard EXCEPT ![w] = FALSE]
  /\ UNCHANGED conn_tokens

\* Mutant of ReleaseToken: the guard survives release(), as without take().
ReleaseAndKeepGuard(w) ==
  /\ token_guard[w] => conn_tokens < handshake_limit
  /\ conn_tokens' = IF token_guard[w] THEN conn_tokens + 1 ELSE conn_tokens
  /\ UNCHANGED token_guard

\* ConnTokenGuard::release: take the guard, send the token back.  A send on
\* a full channel would block.
ReleaseToken(w) ==
  /\ token_guard[w] => conn_tokens < handshake_limit
  /\ conn_tokens' = IF token_guard[w] THEN conn_tokens + 1 ELSE conn_tokens
  /\ token_guard' = [token_guard EXCEPT ![w] = FALSE]

\* Mutant of finish_and_release_pb: the slot is forgotten, not returned.
LeakSlot(w) ==
  /\ has_pb_slot' = [has_pb_slot EXCEPT ![w] = FALSE]
  /\ UNCHANGED pb_slots

\* Mutant of finish_and_release_pb: a slot is returned that was never taken.
ReturnSlotAnyway(w) ==
  /\ pb_slots' = pb_slots + 1
  /\ has_pb_slot' = [has_pb_slot EXCEPT ![w] = FALSE]

finish_and_release_pb(w) ==
  /\ has_pb_slot[w] => pb_slots < PbSlots
  /\ pb_slots' = IF has_pb_slot[w] THEN pb_slots + 1 ELSE pb_slots
  /\ has_pb_slot' = [has_pb_slot EXCEPT ![w] = FALSE]

reset_session_and_sftp(w) ==
  /\ maybe_sess' = [maybe_sess EXCEPT ![w] = "None"]
  /\ maybe_sftp' = [maybe_sftp EXCEPT ![w] = FALSE]

\* retry_operation_with_ctx, when op returns Err(e): another attempt after a
\* backoff, or give up with e.
WillRetry(w, e) ==
  is_retriable_during_transfer(e) /\ attempt[w] + 1 < max_retries

AttemptFails(w, e) ==
  \/ /\ WillRetry(w, e)
     /\ attempt' = [attempt EXCEPT ![w] = @ + 1]
     /\ Goto(w, "attempt")
     /\ UNCHANGED last_err
  \/ /\ ~WillRetry(w, e)
     /\ last_err' = [last_err EXCEPT ![w] = e]
     /\ Goto(w, "failed")
     /\ UNCHANGED attempt

\* retry_operation_with_ctx, when op returns Ok: on to the next entry.
NextEntry(w) ==
  /\ Goto(w, "recv")
  /\ entry' = [entry EXCEPT ![w] = NoEntry]
  /\ attempt' = [attempt EXCEPT ![w] = 0]

EntryDone(w) == NextEntry(w) /\ UNCHANGED <<last_err, connection_error_streak>>

SendFailure(e) == failures' = [failures EXCEPT ![e] = @ + 1]
-----------------------------------------------------------------------------
\* rx.recv(): an entry, or disconnection once main dropped tx and it is empty.
Recv(w) ==
  /\ pc[w] = "recv"
  /\ received < sent
  /\ received' = received + 1
  /\ entry' = [entry EXCEPT ![w] = received + 1]
  /\ Goto(w, "attempt")
  /\ UNCHANGED <<mainVars, failures, metrics, tokenVars, slotVars, remoteVars,
                 sessVars, attempt, last_err, created_dirs>>

RecvDisconnected(w) ==
  /\ pc[w] = "recv"
  /\ main_pc # "produce" /\ received = sent
  /\ Goto(w, "metrics")
  /\ UNCHANGED <<mainVars, chanVars, tokenVars, slotVars, remoteVars,
                 sessVars, entry, attempt, last_err, created_dirs>>

\* The retry loop runs over 0..max_retries: with --retry 0 it never calls op.
NeverAttempted(w) ==
  /\ pc[w] = "attempt"
  /\ attempt[w] >= max_retries
  /\ last_err' = [last_err EXCEPT ![w] = "OperationFailed"]
  /\ Goto(w, "failed")
  /\ UNCHANGED <<mainVars, chanVars, tokenVars, slotVars, remoteVars,
                 sessVars, entry, attempt, created_dirs>>

\* Without a session the worker waits for a connection token.
AcquireToken(w) ==
  /\ pc[w] = "attempt" /\ attempt[w] < max_retries
  /\ maybe_sess[w] = "None" /\ ~token_guard[w]
  /\ conn_tokens > 0
  /\ conn_tokens' = conn_tokens - 1
  /\ token_guard' = [token_guard EXCEPT ![w] = TRUE]
  /\ Goto(w, "session")
  /\ UNCHANGED <<mainVars, chanVars, slotVars, remoteVars, sessVars, entry,
                 attempt, last_err, created_dirs>>

ReuseSession(w) ==
  /\ pc[w] = "attempt" /\ attempt[w] < max_retries
  /\ maybe_sess[w] # "None"
  /\ Goto(w, "sftp")
  /\ UNCHANGED <<mainVars, chanVars, tokenVars, slotVars, remoteVars,
                 sessVars, entry, attempt, last_err, created_dirs>>

\* ensure_worker_session: TCP connection, handshake and authentication.
BuildSession(w) ==
  /\ pc[w] = "session"
  /\ \/ /\ maybe_sess' = [maybe_sess EXCEPT ![w] = "Live"]
        /\ Goto(w, "sftp")
        /\ UNCHANGED <<conn_tokens, token_guard, attempt, last_err>>
     \/ /\ \E e \in SessionErrors : AttemptFails(w, e)
        /\ ReleaseToken(w)
        /\ UNCHANGED maybe_sess
  /\ UNCHANGED <<mainVars, chanVars, slotVars, remoteVars, maybe_sftp,
                 connection_error_streak, entry, created_dirs>>

\* The SFTP half of ensure_session_and_sftp, and the release of the token
\* that follows it on both paths.
OpenSftp(w) ==
  /\ pc[w] = "sftp"
  /\ \/ /\ maybe_sftp[w] \/ maybe_sess[w] = "Live"
        /\ maybe_sftp' = [maybe_sftp EXCEPT ![w] = TRUE]
        /\ Goto(w, "work")
        /\ UNCHANGED <<attempt, last_err>>
     \/ /\ ~maybe_sftp[w]
        /\ AttemptFails(w, "SftpCreateFailed")
        /\ UNCHANGED maybe_sftp
  /\ ReleaseToken(w)
  /\ UNCHANGED <<mainVars, chanVars, slotVars, remoteVars, maybe_sess,
                 connection_error_streak, entry, created_dirs>>
-----------------------------------------------------------------------------
\* sftp_mkdir_p on e's directory, skipped when this worker made it before.
\* Over a dead session it fails; over a live one it may still fail.
DirReady(w, e) ==
  \/ /\ DirOf[e] \in created_dirs[w]
     /\ UNCHANGED <<created_dirs, remote_dirs>>
  \/ /\ DirOf[e] \notin created_dirs[w] /\ maybe_sess[w] = "Live"
     /\ created_dirs' = [created_dirs EXCEPT ![w] = @ \union {DirOf[e]}]
     /\ remote_dirs' = remote_dirs \union {DirOf[e]}

\* Mutant of DirFails: the directory is cached whether or not it was made.
DirFailsButCached(w, e) ==
  /\ DirOf[e] \notin created_dirs[w]
  /\ created_dirs' = [created_dirs EXCEPT ![w] = @ \union {DirOf[e]}]
  /\ UNCHANGED remote_dirs

DirFails(w, e) ==
  /\ DirOf[e] \notin created_dirs[w]
  /\ UNCHANGED <<created_dirs, remote_dirs>>

\* Mutant of UploadDir: the failure is reported inside op and returned as well.
ReportDirAndFail(w) ==
  /\ pc[w] = "work" /\ Kind[entry[w]] = "Dir"
  /\ \/ DirReady(w, entry[w]) /\ EntryDone(w) /\ UNCHANGED failures
     \/ /\ DirFails(w, entry[w]) /\ SendFailure(entry[w])
        /\ AttemptFails(w, "CreateRemoteDirFailed")
        /\ UNCHANGED <<entry, connection_error_streak>>
  /\ UNCHANGED <<mainVars, received, metrics, tokenVars, slotVars,
                 remote_file, maybe_sess, maybe_sftp>>

\* A Dir entry: a failed mkdir is reported from inside op, which returns Ok.
UploadDir(w) ==
  /\ pc[w] = "work" /\ Kind[entry[w]] = "Dir"
  /\ \/ DirReady(w, entry[w]) /\ UNCHANGED failures
     \/ DirFails(w, entry[w]) /\ SendFailure(entry[w])
  /\ EntryDone(w)
  /\ UNCHANGED <<mainVars, received, metrics, tokenVars, slotVars,
                 remote_file, maybe_sess, maybe_sftp>>

\* A File entry: first its parent directory ...
MakeParent(w) ==
  /\ pc[w] = "work" /\ Kind[entry[w]] = "File"
  /\ \/ /\ DirReady(w, entry[w])
        /\ Goto(w, "open")
        /\ UNCHANGED <<attempt, last_err>>
     \/ DirFails(w, entry[w]) /\ AttemptFails(w, "CreateRemoteDirFailed")
  /\ UNCHANGED <<mainVars, chanVars, tokenVars, slotVars, remote_file,
                 sessVars, entry>>

\* ... then a progress-bar slot if one is free, the local file, and the
\* remote file, which create_write truncates even if it then reports an error.
OpenFile(w) ==
  LET takes == ~has_pb_slot[w] /\ pb_slots > 0
  IN
  /\ pc[w] = "open"
  /\ pb_slots' = IF takes THEN pb_slots - 1 ELSE pb_slots
  /\ has_pb_slot' = [has_pb_slot EXCEPT ![w] = @ \/ takes]
  /\ \/ /\ maybe_sess[w] = "Live"
        /\ remote_file' = [remote_file EXCEPT ![entry[w]] = 0]
        /\ Goto(w, "stream")
        /\ UNCHANGED <<attempt, last_err>>
     \/ /\ \E e \in IoErrors : AttemptFails(w, e)
        /\ \/ UNCHANGED remote_file
           \/ /\ maybe_sess[w] = "Live"
              /\ remote_file' = [remote_file EXCEPT ![entry[w]] = 0]
  /\ UNCHANGED <<mainVars, chanVars, tokenVars, remote_dirs, sessVars, entry,
                 created_dirs>>

WriteChunk(w) ==
  /\ pc[w] = "stream"
  /\ maybe_sess[w] = "Live"
  /\ remote_file[entry[w]] < Chunks[entry[w]]
  /\ remote_file' = [remote_file EXCEPT ![entry[w]] = @ + 1]
  /\ UNCHANGED <<mainVars, chanVars, tokenVars, slotVars, remote_dirs,
                 sessVars, taskVars, created_dirs>>

\* A local read error from the reader thread, or a remote write error.
StreamFails(w) ==
  /\ pc[w] = "stream"
  /\ \E e \in IoErrors : AttemptFails(w, e)
  /\ UNCHANGED <<mainVars, chanVars, tokenVars, slotVars, remoteVars,
                 sessVars, entry, created_dirs>>

\* Mutant of EndOfFile: a reader error ends the loop as Eof does.
EndOnReaderError(w) ==
  /\ pc[w] = "stream"
  /\ finish_and_release_pb(w)
  /\ EntryDone(w)
  /\ UNCHANGED <<mainVars, chanVars, tokenVars, remoteVars, maybe_sess,
                 maybe_sftp, created_dirs>>

\* ReadMsg::Eof after the last chunk.  The remote handle is dropped with no
\* close or fsync to check, so this needs no live session.
EndOfFile(w) ==
  /\ pc[w] = "stream"
  /\ remote_file[entry[w]] = Chunks[entry[w]]
  /\ finish_and_release_pb(w)
  /\ EntryDone(w)
  /\ UNCHANGED <<mainVars, chanVars, tokenVars, remoteVars, maybe_sess,
                 maybe_sftp, created_dirs>>

\* report_failure_and_finish_pb, then the session reset: the second
\* connection-level error of a streak drops session and SFTP handle, any
\* other failure ends the streak.  Nothing on the success path touches it.
ReportFailure(w) ==
  LET streak == IF should_reset_session(last_err[w])
                  THEN connection_error_streak[w] + 1
                  ELSE 0
  IN
  /\ pc[w] = "failed"
  /\ SendFailure(entry[w])
  /\ finish_and_release_pb(w)
  /\ IF streak >= 2 THEN reset_session_and_sftp(w)
                    ELSE UNCHANGED <<maybe_sess, maybe_sftp>>
  /\ connection_error_streak' = [connection_error_streak EXCEPT
                                   ![w] = IF streak >= 2 THEN 0 ELSE streak]
  /\ last_err' = [last_err EXCEPT ![w] = NoError]
  /\ ReleaseToken(w)
  /\ NextEntry(w)
  /\ UNCHANGED <<mainVars, received, metrics, remoteVars, created_dirs>>

\* finalize_worker_metrics, after which the thread ends and drops its
\* clones of failure_tx and metrics_tx.
SendMetrics(w) ==
  /\ pc[w] = "metrics"
  /\ metrics < workers
  /\ metrics' = metrics + 1
  /\ Goto(w, "exited")
  /\ UNCHANGED <<mainVars, received, failures, tokenVars, slotVars,
                 remoteVars, sessVars, entry, attempt, last_err,
                 created_dirs>>

WorkerStep(w) ==
  \/ Recv(w) \/ RecvDisconnected(w) \/ NeverAttempted(w)
  \/ AcquireToken(w) \/ ReuseSession(w) \/ BuildSession(w) \/ OpenSftp(w)
  \/ UploadDir(w) \/ MakeParent(w) \/ OpenFile(w)
  \/ WriteChunk(w) \/ StreamFails(w) \/ EndOfFile(w)
  \/ ReportFailure(w) \/ SendMetrics(w)

\* The remote host or the network drops a worker's connection.
ConnectionDrops(w) ==
  /\ maybe_sess[w] = "Live" /\ pc[w] # "exited"
  /\ maybe_sess' = [maybe_sess EXCEPT ![w] = "Dead"]
  /\ UNCHANGED <<mainVars, chanVars, tokenVars, slotVars, remoteVars,
                 maybe_sftp, connection_error_streak, taskVars, created_dirs>>
-----------------------------------------------------------------------------
\* The main thread.

\* tx.send(e) blocks while the channel is full.
Produce ==
  /\ main_pc = "produce" /\ sent < TotalEntries
  /\ sent - received < cap
  /\ sent' = sent + 1
  /\ UNCHANGED <<max_retries, main_pc, main_tx, report, chanVars, tokenVars,
                 slotVars, remoteVars, sessVars, taskVars, created_dirs>>

CloseQueue ==
  /\ main_pc = "produce" /\ sent = TotalEntries
  /\ main_pc' = "join"
  /\ UNCHANGED <<max_retries, sent, main_tx, report, chanVars, tokenVars,
                 slotVars, remoteVars, sessVars, taskVars, created_dirs>>

AllExited == \A w \in Workers : pc[w] = "exited"

\* Mutant of JoinWorkers: main forgets drop(failure_tx) and drop(metrics_tx).
JoinKeepingSenders ==
  /\ main_pc = "join" /\ AllExited
  /\ main_pc' = "collect"
  /\ UNCHANGED <<max_retries, sent, main_tx, report, chanVars, tokenVars,
                 slotVars, remoteVars, sessVars, taskVars, created_dirs>>

\* worker_thread.join(), then drop(failure_tx) and drop(metrics_tx).
JoinWorkers ==
  /\ main_pc = "join" /\ AllExited
  /\ main_pc' = "collect"
  /\ main_tx' = FALSE
  /\ UNCHANGED <<max_retries, sent, report, chanVars, tokenVars, slotVars,
                 remoteVars, sessVars, taskVars, created_dirs>>

\* Mutant of Finalize: the channels are read with try_iter, before the join.
FinalizeWithoutJoin ==
  /\ main_pc = "join"
  /\ report' = failures
  /\ failures' = [e \in Entries |-> 0]
  /\ metrics' = 0
  /\ main_pc' = "done"
  /\ UNCHANGED <<max_retries, sent, main_tx, received, tokenVars, slotVars,
                 remoteVars, sessVars, taskVars, created_dirs>>

\* finalize_transfer drains both channels, which ends only when every sender
\* is gone.
Finalize ==
  /\ main_pc = "collect" /\ AllExited /\ ~main_tx
  /\ report' = failures
  /\ failures' = [e \in Entries |-> 0]
  /\ metrics' = 0
  /\ main_pc' = "done"
  /\ UNCHANGED <<max_retries, sent, main_tx, received, tokenVars, slotVars,
                 remoteVars, sessVars, taskVars, created_dirs>>

MainStep == Produce \/ CloseQueue \/ JoinWorkers \/ Finalize

\* handle_ts has returned.
Finished == main_pc = "done" /\ UNCHANGED vars

Next ==
  \/ MainStep
  \/ \E w \in Workers : WorkerStep(w) \/ ConnectionDrops(w)
  \/ Finished

Spec == Init /\ [][Next]_vars

\* Every thread is scheduled, and every network call ends, if only by the
\* timeouts create_tcp_connection puts on the socket.  Main needs no more: a
\* full queue, the joins and the drains are guards.  A worker may wait behind
\* others for a token, but they need it only finitely often.
FairSpec ==
  /\ Spec
  /\ WF_vars(MainStep)
  /\ \A w \in Workers : WF_vars(WorkerStep(w))
-----------------------------------------------------------------------------
\* Invariants.

Holders == {w \in Workers : token_guard[w]}
SlotHolders == {w \in Workers : has_pb_slot[w]}

\* No connection token is lost or minted: those in the bucket and those in
\* worker guards always make up handshake_limit, whatever fails or is retried.
TokensConserved == conn_tokens + Cardinality(Holders) = handshake_limit

\* A worker holds a token exactly while it may be connecting: it never waits
\* for an entry, streams or exits with one, and never connects without one.
TokenOnlyWhileConnecting ==
  \A w \in Workers : /\ token_guard[w] => pc[w] \in {"session", "sftp"}
                     /\ pc[w] = "session" => token_guard[w]

TokenDiscipline == TokensConserved /\ TokenOnlyWhileConnecting

\* No progress-bar slot is lost or minted, and one is held only for the file
\* in hand, retries included: a worker that waits for its next entry or has
\* finished holds none, on every error path.
SlotDiscipline ==
  /\ pb_slots + Cardinality(SlotHolders) = PbSlots
  /\ \A w \in Workers : has_pb_slot[w] =>
        /\ pc[w] \in InHand
        /\ Kind[entry[w]] = "File"

\* A worker never blocks on a send: a token or slot it gives back has room in
\* its channel, and so has its metrics message, although main reads those
\* only after joining every worker.
SendsNeverBlock ==
  \A w \in Workers : /\ token_guard[w] => conn_tokens < handshake_limit
                     /\ has_pb_slot[w] => pb_slots < PbSlots
                     /\ pc[w] = "metrics" => metrics < workers

\* Entry e is complete on the remote host.
Arrived(e) ==
  IF Kind[e] = "Dir" THEN DirOf[e] \in remote_dirs
                     ELSE remote_file[e] = Chunks[e]

Pending == {e \in Entries : \/ e > received
                            \/ \E w \in Workers : entry[w] = e}
Failed == {e \in Entries : failures[e] + report[e] > 0}

\* Every entry is in one place: no two workers have the same one, and a
\* failure is recorded once, and only for an entry no worker has any more.
EachEntryOnce ==
  /\ \A w \in Workers : entry[w] # NoEntry => entry[w] <= received
  /\ \A v, w \in Workers : v # w /\ entry[v] # NoEntry => entry[v] # entry[w]
  /\ \A e \in Entries : failures[e] + report[e] <= 1
  /\ Failed \intersect Pending = {}

\* No silent loss: an entry that is neither waiting nor in a worker's hands
\* is complete on the remote host, or its failure is on the way to the report.
NoSilentLoss == \A e \in Entries : e \in Pending \/ e \in Failed \/ Arrived(e)

\* The cache of directories a worker believes it made is never ahead of the
\* remote host, and no file is opened below a directory that is not there.
ParentsExist ==
  /\ \A w \in Workers : created_dirs[w] \subseteq remote_dirs
  /\ \A e \in Entries :
       Kind[e] = "File" /\ remote_file[e] # Absent => DirOf[e] \in remote_dirs
-----------------------------------------------------------------------------
\* Action and liveness properties.

\* The pool implements TransferJob: each entry resolved once, nothing that
\* arrived lost again, and one report that lists exactly the failed entries.
Job == INSTANCE TransferJob WITH
         pending  <- Pending,
         failed   <- Failed,
         arrived  <- {e \in Entries : Arrived(e)},
         report   <- {e \in Entries : report[e] > 0},
         finished <- main_pc = "done"
ImplementsJob == Job!Spec

\* Main never waits forever, on a full queue, in join or while draining the
\* failure and metrics channels, and no worker waits forever for a token.
Termination == <>(main_pc = "done")

\* TRANSFER.md:312: a failure to establish the session "triggers the retry
\* logic" - an entry is not given up on one while attempts are left.
SessionFailureRetried ==
  [][\A w \in Workers : pc[w] = "session" /\ pc'[w] = "failed" =>
       attempt[w] + 1 >= max_retries]_vars
=============================================================================
