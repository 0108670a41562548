--------------------------- MODULE AtomicReplace ---------------------------
(***************************************************************************)
(* What a download promises of one local file: the new content appears     *)
(* under its final name in one step, complete, and that step is the        *)
(* success of the download.  Until then the old file stays, unless the     *)
(* file system refuses to rename over it: then it is unlinked first.       *)
(***************************************************************************)
VARIABLES
  target,     \* "absent", "old" or "new": what the final name leads to
  outcome     \* "running", "ok", "failed" or "interrupted"

vars == <<target, outcome>>

Init == target \in {"absent", "old"} /\ outcome = "running"

Replace ==
  /\ outcome = "running"
  /\ target' = "new"
  /\ outcome' = "ok"

Unlink ==
  /\ outcome = "running"
  /\ target' = "absent"
  /\ UNCHANGED outcome

Fail ==
  /\ outcome = "running"
  /\ outcome' = "failed"
  /\ UNCHANGED target

\* The process is killed or the machine stops.
Interrupt ==
  /\ outcome' = "interrupted"
  /\ UNCHANGED target

Next == Replace \/ Unlink \/ Fail \/ Interrupt

Spec == Init /\ [][Next]_vars
=============================================================================
