---------------------------- MODULE MCUploadPool ----------------------------
(***************************************************************************)
(* A small upload for TLC, in the order WalkDir yields it: a directory     *)
(* with two files, one of one chunk and one empty, and an empty directory. *)
(* The entry channel (3 places under QueuePerWorker = 1) is shorter than   *)
(* the batch, so main can block on it; one token and one slot make the two *)
(* workers compete.                                                        *)
(***************************************************************************)
EXTENDS UploadPool

BatchKind == <<"Dir", "File", "File", "Dir">>
BatchDirOf == <<"base/d", "base/d", "base/d", "base/e">>
BatchChunks == <<0, 1, 0, 0>>
=============================================================================
