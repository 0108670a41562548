---------------------------- MODULE MCFileStream ----------------------------
(***************************************************************************)
(* Three chunks through a channel of two: the reader meets a full channel, *)
(* the writer an empty one.                                                *)
(***************************************************************************)
EXTENDS FileStream

\* --retry 0 never tries, 2 fails once and tries again.
MCRetryBudgets == {0, 2}
=============================================================================
