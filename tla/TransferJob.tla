---------------------------- MODULE TransferJob ----------------------------
(***************************************************************************)
(* What `hp ts` promises of one transfer, whatever the direction and the   *)
(* number of workers: every entry is resolved exactly once, as transferred *)
(* or as failed; an entry resolved as transferred is at its destination,   *)
(* and stays there; the report is drawn up once, after the last entry, and *)
(* lists exactly the failed ones.  UploadPool implements this              *)
(* specification.                                                          *)
(***************************************************************************)
EXTENDS FiniteSets

CONSTANT Entries         \* the entries enumerated from the sources

VARIABLES
  pending,               \* entries not resolved yet
  failed,                \* entries resolved as failed
  arrived,               \* entries that are complete at the destination
  report,                \* the failures listed at the end
  finished               \* the report has been drawn up

vars == <<pending, failed, arrived, report, finished>>

Transferred == Entries \ (pending \union failed)

TypeOK ==
  /\ pending \subseteq Entries
  /\ failed \subseteq Entries \ pending
  /\ arrived \subseteq Entries
  /\ report \subseteq Entries
  /\ finished \in BOOLEAN

Init ==
  /\ pending = Entries
  /\ failed = {}
  /\ arrived \subseteq Entries
  /\ report = {}
  /\ finished = FALSE

\* What is at the destination may change, save what was already transferred.
DestinationChanges ==
  /\ arrived' \in SUBSET Entries
  /\ Transferred' \subseteq arrived'

Work ==
  /\ ~finished
  /\ DestinationChanges
  /\ UNCHANGED <<pending, failed, report, finished>>

Succeed(e) ==
  /\ e \in pending
  /\ pending' = pending \ {e}
  /\ UNCHANGED <<failed, report, finished>>
  /\ DestinationChanges

Fail(e) ==
  /\ e \in pending
  /\ pending' = pending \ {e}
  /\ failed' = failed \union {e}
  /\ UNCHANGED <<report, finished>>
  /\ DestinationChanges

Finish ==
  /\ ~finished
  /\ pending = {}
  /\ report' = failed
  /\ finished' = TRUE
  /\ UNCHANGED <<pending, failed, arrived>>

Next ==
  \/ Work
  \/ \E e \in Entries : Succeed(e) \/ Fail(e)
  \/ Finish

Spec == Init /\ [][Next]_vars

\* The user is told of every entry that did not get through.
ReportIsComplete == finished => Entries \ report \subseteq arrived
=============================================================================
