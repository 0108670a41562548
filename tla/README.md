# hostpilot in TLA+

This directory is a verification development of `hp` (HostPilot), the SSH alias
manager and parallel SFTP transfer tool of this repository: TLA+ modules that
follow the Rust source, TLC configurations that model-check them on small
instances, and proofs checked by TLAPS. Source paths below are relative to the
repository root; `PROJECT.json` maps every definition to the lines it models.

## 1. Inventory

| Part | Source (`src/`) | State it keeps | Operations | Hard part | Module |
| --- | --- | --- | --- | --- | --- |
| Upload pipeline | `transfer.rs` (Upload branch), `transfer/workers/upload.rs`, `workers/mod.rs` | bounded entry queue, token bucket, progress slots, failure and metrics channels; per worker: session, SFTP handle, token guard, error streak, directory cache | enumerate, send, receive, connect, mkdir, stream, report, join, finalize | threads racing for entries, tokens and slots; sessions that die; retries; shutdown order | `UploadPool`, `UploadTree` |
| Remote `mkdir -p` | `workers/upload.rs` | remote tree | stat, mkdir, re-stat, retry | several workers making the same chain | `UploadTree` |
| Local enumeration and target rules | `transfer/enumeration.rs`, `transfer/helpers.rs`, `transfer.rs` | none | glob match, R3-R9, probe and make the target | which path an entry goes to; what a refusal leaves behind | `UploadTree`, `DownloadPool` |
| Download pipeline | `transfer.rs` (Download branch), `workers/download.rs`, `enumeration.rs` | the same channels without tokens; temporary files, local directories | streaming enumeration, two retry phases, temporary file, `sync_all`, rename | producer runs with the consumers; local directory races; dead sessions; a crash between write and rename | `DownloadPool`, `FileStream` |
| Reader/writer pipeline | `workers/pipeline.rs` | chunk channel of depth 4 | read, send, receive, write | either side may stop first | `FileStream` |
| Retry | `util.rs`, `error.rs` | attempt counter, last error | retry, back off, give up | which errors are retried in which phase; zero attempts | in the pools |
| Sessions | `transfer/session.rs` | SSH session, SFTP handle | connect, authenticate, open SFTP | half-built state after a failure | in the pools |
| Alias store | `server.rs`, `commands.rs`, `main.rs` | SQLite table, one in-memory copy per process | load, insert, remove, save (DELETE, then row by row) | several processes, a crash inside a save | `AliasStore` |
| Configuration and upgrade | `config.rs`, `app.rs`, `ops.rs` | `config.json`, legacy directory, `server.json`, `server.db`, backups | init, legacy copy, backup, migrate, rewrite config | a crash between any two writes | `Upgrade` |
| Terminal UI | `tui.rs` | mode, selection, highlight, fields, the loaded collection, the terminal's modes | keys: move, add, edit, delete, connect, quit | indexes into a map that changes; what is written back; who owns the terminal | `Tui` |
| Command line, failure log, heuristics, tests | `cli.rs`, `util.rs`, `auto_concurrency.rs`, `parse.rs`, `mock_io.rs` | none | declarations, an append to a log, pure functions | nothing a model reaches better than a test | - |

How they interact: `main.rs` loads the configuration (upgrading it when it is
old) and hands `ts` to `handle_ts`, which reads the alias store, enumerates
local sources, connects once to probe the target, and then starts the upload or
the download pipeline. Both are one producer (the calling thread) and a pool of
workers joined by crossbeam channels; all that workers share goes through
channels - the entry queue, the token bucket, the slot bucket, the failures,
the metrics - and through the two file systems. The alias store and the
configuration are files that any number of `hp` processes, a terminal session
among them, read and rewrite.

What makes each correct: a transfer resolves each entry exactly once, never
counts as transferred what is not there, neither leaks nor overfills a bucket,
and always ends. An upload touches its destinations and nothing else. A
download leaves at every local path the old file or the complete new one. The
alias store loses no alias that nobody named. An upgrade that is interrupted
can be run again. A terminal session acts on the alias that is highlighted. The
hazards behind these are listed one by one, with their lines and the properties
that cover them, under `hazards` in `PROJECT.json`.

## 2. Modules

| Module | What it is |
| --- | --- |
| `TransferJob` | Abstract: what a transfer promises, whatever the direction and the number of workers |
| `UploadPool` | The upload's threads and channels, the retry loop and the session of each worker; implements `TransferJob` |
| `UploadTree` | The same upload seen from the two file trees: enumeration, target rules, `mkdir -p`, writing in place |
| `AtomicReplace` | Abstract: what a download promises of one local file |
| `FileStream` | The download of one file: reader thread, chunk channel, temporary file, sync, rename, retries, kill and power loss; implements `AtomicReplace` |
| `DownloadPool` | The download's threads and channels, its walk through the remote tree, the local directories |
| `AliasMap` | Abstract: the alias store seen by sessions that do not overlap |
| `AliasStore` | `hp` processes that load, change and save one SQLite table; implements `AliasMap` while they do not overlap |
| `Upgrade` | Starts of `hp`: legacy directory, configuration, migration |
| `Tui` | One terminal session |
| `MC...` | Constants for TLC, one module per component |
| `UploadPoolProofs`, `UploadPoolDelivery`, `UploadTreeProofs`, `DownloadPoolProofs`, `FileStreamProofs`, `AliasStoreProofs`, `UpgradeProofs`, `TuiProofs` | Theorems, section 5 |

The upload is cut in two because its two hard parts do not meet: who holds
which token, slot and session (`UploadPool`, where making a directory chain is
one step that succeeds or fails) and what happens to the remote tree
(`UploadTree`, where a worker always has a session). In the same way a
download is `DownloadPool`, where one attempt at a file is one step, and
`FileStream`, which is that step.

### UploadPool

State. The main thread has a program counter (`produce`, `join`, `collect`,
`done`), the number of entries it has `sent`, its own ends of the failure and
metrics channels (`main_tx`) and the final `report`. The entry channel has a
single producer and is FIFO, so it is the interval `received+1 .. sent`; a
channel of unit messages is the number of its messages. A worker has a program
counter whose values are the places where it can be interrupted, the entry in
its hands, the attempt number, and the local variables of the thread under
their Rust names. `remote_file[e]` is the number of chunks in entry e's remote
file, `Absent` before it is created.

| Action | Code |
| --- | --- |
| `Recv`, `RecvDisconnected` | `rx.recv()` and its end |
| `NeverAttempted` | `0..max_retries` with `--retry 0` |
| `AcquireToken`, `ReuseSession` | the first lines of the operation: a token unless there is a session |
| `BuildSession` | `ensure_worker_session`: TCP, handshake, authentication, or one of its errors and the token given back |
| `OpenSftp` | the SFTP half of `ensure_session_and_sftp`, and the token given back on both paths |
| `UploadDir` | a Dir entry: mkdir unless cached; a failure is reported from inside the operation, which returns `Ok` |
| `MakeParent`, `OpenFile` | a File entry: its parent; then slot, local open, truncating remote open |
| `WriteChunk`, `StreamFails`, `EndOfFile` | the receive loop over the reader's messages |
| `ReportFailure` | the whole `if let Err(e) = transfer_res` block: failure message, slot, streak, reset, token safety net |
| `SendMetrics` | `finalize_worker_metrics`, thread exit |
| `ConnectionDrops` | not in the code: the peer closes a worker's connection, at any moment |
| `Produce`, `CloseQueue`, `JoinWorkers`, `Finalize` | the main thread: send loop, `drop(tx)`, join and the two drops, the drain of both channels |

`AttemptFails` is `retry_operation_with_ctx` on an `Err`: another attempt when
the error is retriable in this phase and attempts are left, else `failed`. It
is part of every action that can fail.

Abstractions. Contents are counted in chunks. A `WorkerIo` error is one of two,
according to whether its text contains a keyword of `should_reset_session`; the
model lets either happen. `sftp_mkdir_p` is one step (over a dead session it
fails). The reader thread is a supply of `Chunks[e]` chunks followed by an end
or an error. Entries have distinct remote paths here. A backoff is a step of no
length.

### TransferJob

`pending` entries are resolved one at a time, to transferred or to failed; a
transferred entry is at its destination from then on; one report lists exactly
the failed ones. `Arrived(e)` maps "is at its destination" to the remote
directory or to all chunks of the remote file.

### UploadTree

State. `Local` is the local disk, a function from paths to directories, files
and symbolic links (followed or broken); `Unlisted` are the paths of it that
reading their directory does not show, because the directory cannot be read, or
not to its end; `remote` is the remote tree. A path is
a sequence of names and a name a sequence of characters, because the glob rules
look into names. The main thread goes from `start` over `probe` to `run` and
`done`, or to `refused`. A worker that makes the directories above its entry is
at one component of the path (`comp`), in round `tries` of `sftp_mkdir_p`.

| Action | Code |
| --- | --- |
| `RefuseSources`, `EnumerateSources` | R3 and `enumerate_local_sources`: all sources or an error, a directory before what is in it; what is `Unlisted`, and all below it, is flattened away without an error |
| `TargetFound`, `TargetMissing` | `prepare_remote_target` with its one level of mkdir, and R8 |
| `Recv`, `Exit` | `rx.recv()`, `remote_path_str`, and `created_dirs` |
| `StatComponent`, `MakeComponent`, `StatAgain` | `ensure_remote_dir_all_generic` on one component; `ChainFails` is `sftp_mkdir_p` starting over |
| `OpenFile`, `WriteChunk`, `EndOfFile` | `File::open`, the truncating `create_write`, the receive loop |
| `Finish` | join |
| `KillAndRerun` | not in the code: the process is killed and the same command given again |

A call is refused when the remote tree is in its way, or, at most `MaxFaults`
times, for no reason of the tree. Abstractions: all calls on the root directory
succeed, so the walk over the components starts below it; strings have been
split into paths before (`normalize_path`, `parse_alias_and_path`); a write
that fails has written nothing.

### FileStream

What a download worker does with one file once the parent directory and the
SFTP handle are there: the closure given to `retry_operation_with_ctx` in
`run_download_workers`, with `spawn_file_reader` and
`atomic_rename_with_retries`. The entry is `large` (a reader thread and a
channel) or `small` (read and write in turn) according to `enable_min`.

State. `pc` is the place in the closure, `attempt` the retry loop's counter,
`attempts` the counter of refused renames. `reader` is what the reader thread
is about to do: `read`, send `data`, send `eof` or `err`. `pos` chunks were
read, `queued` are in the channel, and `ending` is the last message behind
them. `tmp` and `target` are the contents of the two local files in chunks,
`synced` the ones whose content is on the disk. A failed attempt drops its
receiver but does not join its reader: that thread is counted in `orphans`
until its next send fails.

| Action | Code |
| --- | --- |
| `NeverAttempted` | `0..max_retries` with `--retry 0` |
| `OpenRemote`, `OpenFails` | `sftp.open_read`, `spawn_file_reader` |
| `CreateTmp`, `CreateFails` | `File::create(&tmp_path)`; the reader thread is already running |
| `ReadRemote`, `SendData`, `SendEnding`, `OrphanExits` | the loop of `spawn_file_reader` |
| `WriteChunk`, `CopyFails`, `CopyEnds` | the receive loop, or the read loop of a small file |
| `SyncAll`, `SyncFails` | `sync_all` |
| `Rename`, `RenameRefused`, `RenameFails` | `atomic_rename_with_retries` |
| `Kill`, `PowerLoss` | not in the code: the process or the machine stops |

`AttemptFails` is the retry loop on an `Err`, and `CleanupAndFail` is
`cleanup_tmp_and_err` before it. Abstractions: a temporary file that could not
be removed keeps a name nobody uses again and leaves the model; renames and
removals are durable once they return, and only file contents may be lost with
the power. The mapping to `AtomicReplace` reads `target` as absent, old or new -
or partial, which is no state of the abstract specification - and `pc` as the
outcome.

### DownloadPool

State. Remote and local paths are the nodes of one tree: node n is downloaded
to the local path n. Main walks the tree (`walk_q`, `listing`) and pushes what
it finds into the bounded `queue`; `unread` are the directories it could not
read. `local[p]` is what is at a local path. A worker has its program counter,
entry, attempt, slot, session and SFTP handle; a session is `Live`, `Dead`
(dropped, nobody knows) or `None`.

| Action | Code |
| --- | --- |
| `StartEnumeration`, `ReadDir`, `Push`, `CloseQueue` | `enumerate_remote_and_push`, `walk_remote_dir`, the two drops |
| `GlobNoMatches`, `JoinAndFinalize` | the early return of an empty glob; the join and the report |
| `CheckParent`, `MakeParent` | `ensure_local_parent`: looking and creating are two steps |
| `CheckDir`, `MakeDir` | a Dir entry, in two steps as well |
| `EnsureReady`, `NotReady`, `PreTransferFails` | the pre-transfer phase with its own retry loop; the session goes with its last failure |
| `StreamOk`, `StreamRetried`, `StreamFails` | one attempt at the file (`FileStream`); after the last one only the SFTP handle goes |
| `SendMetrics`, `ConnectionDrops` | as in `UploadPool` |

`AllRequests` is what the target rules let through: the way the source is
written and whether the local target is a directory, a file, or a file named
without a directory. What a glob matches is given (`Matches`), and every name of
the remote tree is UTF-8: a name that is not is passed over without a word
(`enumeration.rs:155`, `:198`), as if it, and what is below it, were not there.

### AliasStore and AliasMap

State. `table` is the table `servers`; each process has a command, a program
counter, its `collection` and the aliases its save has still to insert
(`left`). Aliases are the numbers of their alphabetical order, in which
`save_to_sqlite` goes through its BTreeMap. Every SQL statement commits by
itself, so `DeleteRows` and each `InsertRow` are steps; `StatementFails` and
`Kill` may come between any two. `ChangeCollection`, `StartSsh`,
`SshSucceeds` and `TuiChange` are the commands: create, rename, remove,
connect (which saves after ssh has ended) and a terminal session (which saves
after each change and once more on its way out). `LoadFails` ends a command
but not a terminal session, which goes on with an empty collection.

Three history variables are there for the properties: `session` (`shared` from
an overlap on until no process runs), `disturbed` (processes that read or wrote
into another's save, or whose load or save was cut) and `named` (aliases a
command named). `AliasMap` has one session at a time that reads a copy,
changes it and stores it whole; a torn store leaves the first aliases of the
copy. The mapping lets the new map appear at the DELETE.

### Upgrade

State. The directories and files that exist (`~/.psm`, `~/.hostpilot`, one
other), the aliases each store holds, each `config.json`, and which files were
cut while they were written (`garbled`). `copies` is the backup made last, its
copies of `server.json` and `server.db`, and `older` the aliases in the backups
before it. The process variables are the step a start is at, its `Config`, the
files still to copy and the aliases read for the migration. An installation also
says which aliases have a complete entry in `server.json` (`complete`).

| Action | Code |
| --- | --- |
| `Start`, `RenameLegacy`, `RenameRefused`, `CopyFile`, `RemoveLegacy` | `ensure_hostpilot_dir`: `~/.psm` is renamed, or copied and removed; `CopyCut`, `RemoveCut` |
| `ConfigInit`, `Check`, `ConfigUnreadable` | `Config::init`, `check_and_upgrade_if_needed` |
| `Backup` | `backup_existing_files_with_paths`: a backup is named by the second, so one of the same second is overwritten (`CopyAside`); `BackupCut` |
| `Migrate`, `MigrateFails` | `server.json` is read, entries that are not complete are skipped (`Whole`) |
| `CreateDb`, `SaveMigrated`, `WriteConfig` | the database, its rows, the new `config.json`; `CreateFails`, `SaveCut`, `WriteRefused`, `WriteCut` |
| `UseAliases` | a command loads the collection, adds, removes or renames an alias, or none, and saves; `UseCut`, where the save stops after the DELETE and some of the INSERTs |
| `UseTemporary` | the same through an empty path: SQLite opens a temporary database, and what the command stored is gone when it ends |
| `HandleSet`, `Leave` | `hp set`; a command that changes nothing; `SetCut` |
| `Kill` | not in the code: the process is killed between any two of its steps, in its command as well |

A step that writes has a twin that is cut by an error or a kill in the middle of
it. A save is a step and its twin here, where `AliasStore` has its statements;
`UseCut` leaves any part of the new collection, which includes every prefix of it.
Starts follow each other without end.

### Tui

State. Where the loop is (`at`), which dialog is open (`mode`), TuiApp's
collection, `selected`, ratatui's own `highlight`, the index a dialog keeps,
the fields, what is on in the terminal and what is stored. One action per key
and mode, named for what it does; `Draw` comes between any two keys, because
ratatui clamps the highlight there and `selected` stays. A save is one step
here; when it fails it leaves a prefix of the aliases, which is what
`AliasStore` shows of its statements. Arithmetic is modulo `USize`, as in a
release build. What the screens look like is left out.

## 3. Runs

| Run | Checks | Shows |
| --- | --- | --- |
| `upload_pool` | all invariants of `UploadPool`, `ImplementsJob`, `Termination` | tokens and slots are conserved, no send blocks, no entry is lost silently, and the upload ends, whatever fails |
| `upload_session_retry` | `SessionFailureRetried` | violated: session failures are not retried in an upload |
| `upload_tree` | `Delivered`, `RacesHarmless`, `OthersUntouched`, `RefusedLeavesRemote` | every named file that the disk shows arrives whole where the rules say or is reported, through races, refused calls and a rerun after a kill; nothing else is touched |
| `file_stream` | all invariants of `FileStream`, `ReplacesAtomically`, `StreamEnds` | a local file is replaced whole or not at all, and both threads end |
| `file_target_kept` | `FailureKeepsTarget` | violated: a refused rename deletes the old file, and the download may still fail |
| `download_pool` | `SlotDiscipline`, `EachEntryOnce`, `NoSilentLoss`, `OnlyUnreadSkipped`, `DeadSessionBound`, `ReturnsAfterWorkers`, `Termination` | what was found is handled once, and is at its path or reported unless another entry took the path they share; what was not found lies below an unreadable directory, a dead connection costs two files at most, main ends and ends last |
| `download_race` | `DirectoriesAsNeeded` | violated: two workers make one parent, and one of them gives its file up |
| `alias_store` | `UndisturbedSave`, `BystandersKept`, `ImplementsMap` | a save nobody writes into is exact; aliases nobody named are kept until a save is disturbed or cut; sessions one after the other implement `AliasMap` |
| `alias_bystander` | `BystanderSurvives` | violated: two overlapping commands lose an alias neither named |
| `upgrade` | `NothingDestroyed`, `RegularKept`, `UpgradedOnce` | no start takes the last readable copy of an alias; a documented installation shows what was migrated and what commands left, cut saves included; a start does not empty an upgraded store again |
| `upgrade_keeps` | `UpgradeKeepsServers` | violated: the servers of an old `server_db_path` end up in the backup only |
| `tui` | `InSync`, `TerminalDiscipline`, `ActsOnShown` | an edit, deletion or connection hits the alias shown highlighted; what is shown is what is stored; ssh and the shell get their terminal |

Each passing run also checks the module's `TypeOK`. `mutants` in
`PROJECT.json` gives, for each property, a plausible mistake in the code that
violates it.

Bounds, and why they are enough.

- `UploadPool.cfg`: four entries, Dir, File, File, Dir, as `WalkDir` yields a
  directory with two files and an empty directory; one file has a chunk, the
  other is empty. Two workers are the smallest number that competes; with one
  token and one slot they compete for every resource, and a worker can find the
  slot bucket empty. The entry channel has three places (`QueuePerWorker` = 1),
  fewer than entries, so the producer blocks on it. Two attempts make one
  retry; `--retry 0` is the second budget. A worker sees two connection errors
  in a row, so the streak reaches its limit.
- `UploadTree.cfg`: 13 requests (a tree with and without the target's
  trailing slash, globs, two sources of one name, a missing source, a broken
  link, a directory with an unreadable one and a name that is not listed below) against five remote trees (no target, a directory, a longer old file, a
  file where a directory is needed and the other way round). The tree has a
  file below two directories, so two workers make one chain at once. Files have
  one or two chunks and the old remote file three, so an open that does not
  truncate shows. Two refused calls exhaust the two attempts or, after a race,
  the two rounds of `sftp_mkdir_p` (`MaxAttempts`, 3 in the code); one kill and
  rerun meets everything a killed run leaves.
- `FileStream.cfg`: more chunks (three) than the channel has places (two), so
  that the reader waits for the writer and the writer for the reader; two
  attempts, so that a reader can be orphaned while its successor runs; two
  refused renames, as in the code. `FileTargetKept.cfg` needs one chunk only.
- `DownloadPool.cfg`: a file two levels deep and two at the top, a channel of
  two places, two workers and one slot; the local target is a directory, which is
  empty or has files where the download wants a directory and a file, or a file.
  Of `AllRequests` only the source with a trailing slash is left out, which does
  what the one without does once its first stat has succeeded: a tree, a glob and a
  file go onto a directory, a tree and a file also onto a file name, where the
  entries of the tree fight for one path. Every call may be refused
  and every connection dropped, any number of times. Three files are enough for
  one worker to meet a dead session on the first, find out on the second and
  have a live one on the third.
- `AliasStore.cfg`: three aliases, two of them stored, two processes with any
  of the commands, one change per terminal session, one failure or kill. A
  rename and a bystander need three aliases; a third process adds no overlap
  that two have not.
- `Upgrade.cfg`: two aliases, up to two stored before; 14 installations (documented
  ones of each version, legacy directories, an earlier key, entries that are not
  complete, odd ones, none); two faults, so that a start or a command can be cut
  and the one after it as well.
- `Tui.cfg`: three aliases, two stored, `USize` 8, one fault: an empty list, a
  list that grows past the highlight and one that shrinks below it are all
  reached.

Symmetry is used for the processes of `AliasStore` and the workers of
`UploadTree`, which the modules do not tell apart and whose runs check no
liveness.

Deadlock is checked in every run. `Finished`, `Stopped` and `Exited` are the
only states that may repeat for ever; starts in `Upgrade` go on without end.

Fairness. `FairSpec` of `UploadPool` and `DownloadPool` assumes that the main
thread and each worker thread, when they can move, do: the operating system
schedules them. An action of a worker that calls the network has an error
outcome and is assumed to end; `create_tcp_connection` sets a connect timeout
and read and write timeouts on the socket (`src/transfer/session.rs:44-46`),
and that the SSH library honours them is an assumption about it. Weak fairness
is enough: whoever waits, for an entry, a token, or room in a channel, is let
through because the others run out of work. `ConnectionDrops` has no fairness.
In `FileStream` the worker and the reader thread are fair in the same sense, and
so is an orphaned reader, whose last read ends by the same timeouts; `Kill` and
`PowerLoss` are not. The other modules claim no liveness: a user who does not
press a key, or does not start `hp` again, is nobody's fault.

## 4. Disagreements between the code and its documentation

The five violation runs above; `findings` in `PROJECT.json` quotes the lines.
In each the model follows the code. They do not contradict the other
properties: an upload whose session fails is reported (`NoSilentLoss`), and so
is the file lost to `download_race`; a refused rename is why `AtomicReplace`
has an `Unlink` step; `BystandersKept` says exactly when a bystander is safe,
and `NothingDestroyed` that `upgrade_keeps` leaves the servers in the backup.

Seen while modelling, and not made into a run of their own:

- `Config::init` writes the first `config.json` only if the directory does not
  exist (`config.rs:41-55`), but `ensure_hostpilot_dir`, called before, has made
  it (`ops.rs:70-72`): the branch is dead, and a first start ends with an error
  because `check_and_upgrade_if_needed` cannot read the file (`ops.rs:95`).
  `Upgrade` has this start (`ConfigInit`, `ConfigUnreadable`).
- A remote directory named without a trailing slash passes the multi-entry rule
  with a file as target (`transfer.rs:495`): all its entries are written to one
  local path, the last one stays, and of the others nothing is reported.
  `DownloadPool.cfg` makes this request, and `NoSilentLoss` says what the code
  still keeps: an entry loses its path only to another one of the same path,
  which is there, at work on it, or reported.
- A source's trailing slash is removed (`enumeration.rs:13`) before it is looked
  at (`enumeration.rs:15`), so the check that such a source is a directory is
  dead, and a file may be named with a slash. A source directory without a
  slash gives its contents as well, not "a single entry" (`TRANSFER.md:262`).
- Symbolic links below an uploaded directory are skipped without a word
  (`enumeration.rs:98-113`), where a named or matched link is followed. So is
  what cannot be listed, an unreadable directory's contents above all
  (`enumeration.rs:98`, and `:23` for a glob): it is neither sent nor reported.
  `UploadTree` has such a directory (`Unlisted`), and `Delivered` is about what
  the disk shows.
- Two sources with the same base name are written to one remote path, by two
  workers at once; a chunk written behind the other's truncation leaves a hole.
  `Delivered` exempts such pairs, and what is `Unlisted`.
- A local target that is a bare file name of an existing file always fails: its
  parent is the empty path (`download.rs:425-447`), where `TRANSFER.md:155` reads
  it as `./<target>`.
- After `~/.psm` was renamed, a `server_file_path` into it names a file below a
  directory that is gone, and `create_sqlite_database` fails at every start; a
  `config.json` that is JSON but no `Config` fails only after the table was
  rewritten (`ops.rs:297`). `Upgrade` has both.
- A `config.json` of version 2 that is no `Config` is replaced by the default one
  in silence (`app.rs:81-86`). Its path is empty, for which SQLite opens a
  temporary database: `hp new` reports success and the alias is gone
  (`UseTemporary`).
- A backup is named by the second it is made in (`ops.rs:163`). A start killed in
  its migration and another one within the same second leave a backup of the
  database the first one emptied, in place of the good one. `NothingDestroyed`
  exempts this one step (`SameSecond`); without that it is violated.
- The migration skips entries of `server.json` without a user name, an address or
  a numeric port and does not say so (`ops.rs:258-262`); they stay in
  `server.json`. `RegularKept` asks for the complete ones.
- A command killed between the DELETE and the last INSERT of its save loses
  aliases that are in no backup (`server.rs:95-113`). `RegularKept` counts what
  is left then as what the user has, and `NothingDestroyed` is about starts;
  `ImplementsMap` says of such a save that it is a `Tear`.

## 5. Proofs

Every invariant, action property and refinement that a passing run checks is
also a theorem, for every value of the constants that the modules' assumptions
admit. The invariants named below are inductive: they hold initially, each step
keeps them, and they imply the property. Steps that share what they do to the
state share a lemma.

### UploadPool

For any batch, number of workers, retry budgets, channel sizes (`PbSlots` may
be 0) and number of chunks (`SizesAssumption`, `EntriesAssumption`):

| Theorem | Says |
| --- | --- |
| `TypeCorrect` | `Spec => []TypeOK` |
| `TokensSafe` | `Spec => []TokenDiscipline` |
| `NothingLost` | `Spec => []NoSilentLoss` |
| `ParentsMade` | `Spec => []ParentsExist` |
| `HandledOnce` | `Spec => []EachEntryOnce` |
| `UploadImplementsJob` | `Spec => ImplementsJob`: `UploadPool` implements `TransferJob` |
| `SlotsSafe` | `Spec => []SlotDiscipline` |
| `SendsSafe` | `Spec => []SendsNeverBlock` |

`UploadPoolProofs` has the types and the tokens, `UploadPoolDelivery` what
becomes of the entries, the refinement, the slots and the sends.

`TypeOK` is inductive because it says which program locations have an entry in
hand. `TokenDiscipline` is inductive together with it: a step of a worker moves
at most one token between the bucket and its own guard, and the lemmas about
`Count` turn that into arithmetic. For the entries the inductive invariant is
`DInv`. `NoSilentLoss` alone is not inductive: that an entry which was resolved
stays complete needs to know that no worker still has it (`EachEntryOnce`); that
`Eof` completes a File entry needs to know that a worker which streams has one
(`AtFile`), below a directory that exists (`ParentsExist`); and that a report
once drawn up stays complete needs to know that main collects after the last
worker is gone and that a worker goes only when the queue is empty and closed
(`Shutdown`). Steps are grouped by what they do to an entry: `Inside` (the
worker keeps it), `Resolves` (it leaves the pipeline), `Recv`, and `Aside`
(entries are not concerned), and the invariant and the refinement are each
proved once for each group. The refinement then follows: `Inside` steps are
`Work` steps or stutter, `Resolves` is `Succeed` or `Fail`, `Finalize` is
`Finish`, and the rest stutters. `SendsNeverBlock` follows from the two
conservation laws and from `MetricsCounted`, one metrics message for each worker
that has exited.

### UploadTree

For any finite disk, set of requests, remote trees, number of workers, refused
calls and killed runs (`LimitsAssumption`, `NamesAssumption`,
`LocalAssumption`, `RequestsAssumption`, `RemoteAssumption`):

| Theorem | Says |
| --- | --- |
| `TypeCorrect` | `Spec => []TypeOK` |
| `RefusalIsClean` | `Spec => []RefusedLeavesRemote` |
| `RacesAreHarmless` | `Spec => []RacesHarmless` |
| `NothingElseTouched` | `Spec => []OthersUntouched` |
| `AllDelivered` | `Spec => []Delivered` |

The assumptions say that a disk is a tree with a root, that a path is a finite
sequence of names and a name a finite sequence of letters, and that the root of
the remote side is a directory.

- `Base` is the state on its own: types, a remote tree that keeps its root
  (`Rooted`), nothing done before the workers start (`Quiet`), no entry in two
  hands (`Apart`), and, for each worker, that everything above the component it
  stands at is a directory (`InChain`), that a component it looks at a second
  time is there unless a call was refused (`SeenAgain`), that a file it writes is
  there below a directory it made or found (`AtFile`), and that its cache is true
  (`Made`). A directory never goes away, which is what makes these stable against
  the other workers. `RacesHarmless` follows: a worker gives up at a component
  only if that is a file (`Blocked`), and what is a file where a directory is
  needed stays one.
- `Decided` adds where the entries go. The list that `enumerate_local_sources`
  makes - a flattened sequence of sequences - stands in a one-to-one
  correspondence with the claims by which `Delivered` and `OthersUntouched` say
  what a request means (`EnumerationIsRight`, on top of `FlattenOrigins`); and
  what `prepare_remote_target` decided about the target is what the claims
  presume (`Settled`). So each worker writes to a goal (`GoesToGoal`) and touches
  nothing but that path and what is above it (`WorkerTouches`).
- `Carried` adds what has become of the entries handed out: arrived, reported,
  or in a hand (`Handled`); a file being written holds exactly what has been
  written of it (`Growing`, where the truncating open counts: a killed run may
  have left anything there); and no worker leaves early (`Leaving`). Only an
  entry whose relative name no other entry shares is followed, as in `Delivered`
  itself.

Two computations had to be dealt with by hand, because the theorems of the
libraries that would give them by induction take an operator as a parameter:
`wildcard_match`, a recursive function that is shown to be what `Matches` says
without recursion (`MatchIsMatches`), and the community modules' `FlattenSeq`.
Both are done by the least counterexample, which exists because `<` is
well-founded on the naturals (`LeastOf`).

### DownloadPool

For any remote tree without cycles, local starting point, number of
workers, channel, slots and retry budget (`TreeAssumption`,
`ParametersAssumption`):

| Theorem | Says |
| --- | --- |
| `TypeCorrect` | `Spec => []TypeOK` |
| `SlotsSafe` | `Spec => []SlotDiscipline` |
| `EnumerationComplete` | `Spec => []OnlyUnreadSkipped` |
| `EntriesOnce` | `Spec => []EachEntryOnce` |
| `NothingLost` | `Spec => []NoSilentLoss` |
| `ReturnsLast` | `Spec => []ReturnsAfterWorkers` |
| `DeadSessionsBounded` | `Spec => []DeadSessionBound` |

`TypeOK` and `SlotDiscipline` are inductive together (`Base`). `Walked` is about
the walk: what was found was found once, under a directory that is no longer to
be read (`Fresh`), and what was asked for was found, lies below a directory that
could not be read, or has a directory above it that is still to come
(`Frontier`); that this reaches the whole tree is where acyclicity enters.
`Dealt` is about the hand-over: a worker has the kind of entry its place in the
code is for (`HandKinds`), the channel and the hands have no entry in common or
twice (`OneHolder`), and only what has left both is reported, once
(`OneReport`). `EachEntryOnce` follows. `NoLoss` is `NoSilentLoss` in the terms of
`Dealt`, and inductive on top of it: what is at a local path is taken away only by
a worker that has an entry for that path in its hands (`ArrivedStays`), and from
then on this entry answers for the path of the one it displaced, until it is
there, is reported, or is itself displaced by a third.
`Leaving` says when a worker and main may go, and `Sessions` how much a worker
has wasted on a connection by what it still keeps of it.

### FileStream

For every number of chunks, channel capacity, number of rename retries and
retry budget (`StreamAssumption`):

| Theorem | Says |
| --- | --- |
| `StreamTypeCorrect` | `Spec => []TypeOK` |
| `ChunksAccounted` | `Spec => []StreamAccounting` |
| `TargetNeverPartial` | `Spec => []NeverPartial` |
| `StreamReplaces` | `Spec => ReplacesAtomically`: `FileStream` implements `AtomicReplace` |

The inductive invariant is `FInv`. Not even `TypeOK` is inductive alone: that
the temporary file never outgrows the remote one needs `Accounted`, the account
of the chunks between reader and writer; that only whole files are renamed needs
`EndsWhole`, that an `Eof` comes from a reader which has read everything; and
that a power loss leaves the target whole needs `Progress`, that only a synced
file is renamed. The refinement follows: only `Rename`, `RenameRefused`, the
last failed attempt and the two ways to stop are visible at the level of
`AtomicReplace`.

### AliasStore

For any processes, hosts, stored table and bounds, and any set of numbers as
aliases (`AliasesAssumption`, `StoredAssumption`, `BoundsAssumption`):

| Theorem | Says |
| --- | --- |
| `TypeCorrect` | `Spec => []TypeOK` |
| `UndisturbedSavesAreExact` | `Spec => []UndisturbedSave` |
| `BystandersAreKept` | `Spec => []BystandersKept` |
| `StoreImplementsMap` | `Spec => ImplementsMap`: `AliasStore` implements `AliasMap` |

The inductive invariant is `Inv`. `BystandersKept` speaks of the table only;
that a DELETE may empty it needs to know that the collection which is about to
be written back has every bystander with its old server (`MemoryKept`), that a
process changes only aliases that are in `named` by then (`CommandNamed`), and
that the table holds exactly the rows inserted so far (`UndisturbedSave`), so
that the next process to load it finds either all bystanders or a save to be
disturbed by. `NothingLeft` (only a save under way has rows to insert) is needed
for `TypeOK`. All steps but the DELETE and the INSERTs are `Calm`: they leave
the table alone and lead into no save.

The refinement needs `Alone` besides: while no sessions have overlapped, at most
one process runs, and a table it is writing holds the alphabetically first part
of its collection, so that a save which is cut there is a `Tear` of the abstract
map. That there is a next alias to insert is `LeastAlias`. One lemma for each
action of `AliasMap` says which concrete values make it, and each concrete step
is sent to one of them or to a stutter.

### Upgrade

For any installations, aliases and number of faults (`InstallsAssumption`,
`MaxFaultsAssumption`):

| Theorem | Says |
| --- | --- |
| `TypeCorrect` | `Spec => []TypeOK` |
| `AliasesSurvive` | `Spec => NothingDestroyed` |
| `NeverUpgradedTwice` | `Spec => UpgradedOnce` |
| `RegularSeesAll` | `Spec => []RegularKept` |

`Sound` is the inductive invariant: `TypeOK`; `Moving`, how far the copy of
`~/.psm` has come and that each file there already has a true twin; and
`Checked`, that a start past the version check found an old version, and that
what the migration is about to overwrite is in the backup made last, which no
later step of that start touches. `NothingDestroyed` then has one case for each
step that removes or overwrites a store or a backup: the alias is in the twin, in
the backup, in an older one, or untouched. The steps of commands are its
exception and its reason to be an action property: a removed alias may be gone.
`RegularKept` has an invariant of its own, `RegularInv`: until config.json is
rewritten the complete aliases are in the `server.json` it names and in each thing
the upgrade has made of it so far (`OldStore`); afterwards what the user has is in
the database next to it (`NewStore`), where each save, whole or cut, changes both.

### Tui

For any finite non-empty set of aliases, any hosts and any width of `usize`
larger than the list can grow (`AliasesAssumption`, `HostsAssumption`,
`StoredAssumption`, `USizeAssumption`, `MaxFaultsAssumption`):

| Theorem | Says |
| --- | --- |
| `TypeCorrect` | `Spec => []TypeOK` |
| `ShownIsStored` | `Spec => []InSync` |
| `TerminalGivenBack` | `Spec => []TerminalDiscipline` |
| `ShownIsMeant` | `Spec => ActsOnShown` |

`InSync` and `TerminalDiscipline` are inductive with `TypeOK`. `ActsOnShown`
needs `Shown`: ratatui's highlight is on `selected` unless `selected` is past
the end of the list - where an action on it does nothing - and the index a
dialog keeps leads to an alias that was highlighted when the dialog opened. On
an empty list `len() - 1` wraps, as in a release build; the selection is then
past the end, and `Shown` covers it. That `usize` is wider than any list is what
keeps the two cases apart.

### Only model-checked

- `Termination` of both pools and `StreamEnds`: liveness under fairness is out
  of the prover's reach.
- The five properties that the code violates: there is a counterexample and
  nothing to prove.

## 6. What is left

The plan of modules, runs and proofs is done. What could be added:

1. The hazards without a property, each with its note in `PROJECT.json`: the
   models take these steps, and a property would need a sentence of the
   documentation or a change of the code to hold them to.
2. `DownloadPool` and `TransferJob`: a refinement of the same kind as the
   upload's, whose destinations are local paths that may already be taken.
3. `UploadTree` and `UploadPool` in one composition, with sessions that drop in
   the middle of a chain of directories.

## 7. Not modelled

`hp ln`, which reads the collection and runs `ssh-copy-id` or its like without
changing anything; key discovery; how strings are taken apart (`parse.rs`,
`normalize_path`, `is_remote_spec`); the number of workers chosen by
`choose_auto_concurrency` (the pools work with any); the growth of the backoff
and the buffer sizes (`adapt_buf_size`), which change when things happen and
not what; names that are not UTF-8; progress bars, logging, the failure log's format, screen layout;
clap's declarations, the test doubles and the regression script. Mode 1 of
`Config` (`config_test.json`) is used by no command.
