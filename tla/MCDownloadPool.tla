--------------------------- MODULE MCDownloadPool ---------------------------
(***************************************************************************)
(* A remote tree with a file two levels deep and two at the top; a glob    *)
(* that matches the top directory and one of the top files; and a local    *)
(* target that is empty, or has files where the download wants a directory *)
(* and a file.  With two workers a channel of two places is shorter than   *)
(* the tree, and one worker can meet all three files.                      *)
(***************************************************************************)
EXTENDS DownloadPool

TreeNodes == {"d", "d/e", "d/e/f", "g", "h"}
TreeParent == [n \in TreeNodes |->
                 CASE n = "d/e" -> "d" [] n = "d/e/f" -> "d/e" [] OTHER -> "."]
TreeKind == [n \in TreeNodes |-> IF n \in {"d", "d/e"} THEN "Dir" ELSE "File"]
EmptyTarget == [n \in TreeNodes |-> "Absent"]
UsedTarget == [EmptyTarget EXCEPT !["d"] = "Other", !["g"] = "Other"]
Targets == {EmptyTarget, UsedTarget}
OnlyEmpty == {EmptyTarget}
TopLevel == {"d", "g"}

\* "dir/" is left out: it does what "dir" does when the first stat succeeds.
MCRequests == {r \in AllRequests : r.source # "dir/"}
WholeTree == {[source |-> "dir/", target |-> "dir"]}
=============================================================================
