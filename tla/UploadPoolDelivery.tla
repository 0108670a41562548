------------------------- MODULE UploadPoolDelivery -------------------------
(***************************************************************************)
(* Theorems about UploadPool, continued: progress-bar slots, sends that    *)
(* never block, and what happens to every entry.                           *)
(***************************************************************************)
EXTENDS UploadPoolProofs

USE DEF Goto, NextEntry, EntryDone, SendFailure, mainVars, chanVars,
        tokenVars, slotVars, remoteVars, sessVars, taskVars

-----------------------------------------------------------------------------
\* Where a worker stands with the file in its hands: past MakeParent it has a
\* File entry, and the parent of that entry exists.
AtFile ==
  \A w \in Workers : pc[w] \in {"open", "stream"} =>
    /\ Kind[entry[w]] = "File"
    /\ DirOf[entry[w]] \in remote_dirs

\* Main and the workers shut down in order.
Shutdown ==
  /\ main_pc # "produce" => sent = TotalEntries
  /\ \A w \in Workers : pc[w] \in {"metrics", "exited"} =>
                          main_pc # "produce" /\ received = sent
  /\ main_pc \in {"collect", "done"} => AllExited
  /\ main_pc # "done" => report = [e \in Entries |-> 0]
  /\ main_pc = "done" => failures = [e \in Entries |-> 0]

\* One metrics message for each worker that has exited, until main drains them.
Exited == {w \in Workers : pc[w] = "exited"}
MetricsCounted == main_pc # "done" => metrics = Cardinality(Exited)

\* The inductive invariant behind the theorems of this module.
DInv == AtFile /\ Shutdown /\ EachEntryOnce /\ NoSilentLoss /\ ParentsExist
-----------------------------------------------------------------------------
\* What a worker's step does to what it has in hand: it keeps its entry and
\* stays among the states InHand, or it is one of the steps named here.

LEMMA InHandEntry ==
  ASSUME TypeOK, NEW w \in Workers, pc[w] \in InHand
  PROVE  entry[w] \in Entries
BY DEF TypeOK

LEMMA AttemptFailsFrame ==
  ASSUME TypeOK, NEW w \in Workers, pc[w] \in InHand, NEW e, AttemptFails(w, e)
  PROVE  \E x \in {"attempt", "failed"} : pc' = [pc EXCEPT ![w] = x]
BY AttemptFailsPc

\* The steps that leave every entry, every failure and the queue alone.
Inside(w) ==
  /\ pc[w] \in InHand
  /\ \E x \in InHand :
       /\ pc' = [pc EXCEPT ![w] = x]
       /\ x \in {"open", "stream"} =>
            Kind[entry[w]] = "File" /\ DirOf[entry[w]] \in remote_dirs'
  /\ UNCHANGED <<entry, received, failures, report, main_pc, sent, metrics>>
  /\ remote_dirs \subseteq remote_dirs'
  /\ \A e \in Entries \ {entry[w]} : remote_file'[e] = remote_file[e]
  /\ \A v \in Workers : created_dirs'[v] \subseteq created_dirs[v] \union remote_dirs'
  /\ remote_file'[entry[w]] = remote_file[entry[w]] \/ pc[w] \in {"open", "stream"}

InsideStep(w) ==
  \/ NeverAttempted(w) \/ AcquireToken(w) \/ ReuseSession(w) \/ BuildSession(w)
  \/ OpenSftp(w) \/ MakeParent(w) \/ OpenFile(w) \/ WriteChunk(w) \/ StreamFails(w)

LEMMA InsideSteps ==
  ASSUME TypeOK, ParentsExist, AtFile, NEW w \in Workers, InsideStep(w)
  PROVE  Inside(w)
<1>1. CASE NeverAttempted(w)
  BY <1>1 DEF NeverAttempted, Inside, InHand
<1>2. CASE AcquireToken(w)
  BY <1>2 DEF AcquireToken, Inside, InHand
<1>3. CASE ReuseSession(w)
  BY <1>3 DEF ReuseSession, Inside, InHand
<1>4. CASE BuildSession(w)
  <2>1. pc[w] \in InHand /\ \E x \in {"sftp", "attempt", "failed"} : pc' = [pc EXCEPT ![w] = x]
    BY <1>4, AttemptFailsPc DEF BuildSession, InHand
  <2>. QED  BY <1>4, <2>1 DEF BuildSession, Inside, InHand
<1>5. CASE OpenSftp(w)
  <2>1. pc[w] \in InHand /\ \E x \in {"work", "attempt", "failed"} : pc' = [pc EXCEPT ![w] = x]
    BY <1>5, AttemptFailsPc DEF OpenSftp, InHand
  <2>. QED  BY <1>5, <2>1 DEF OpenSftp, Inside, InHand
<1>6. CASE MakeParent(w)
  <2>1. pc[w] \in InHand /\ entry[w] \in Entries
    BY <1>6 DEF MakeParent, TypeOK, InHand
  <2>2. CASE DirReady(w, entry[w]) /\ Goto(w, "open")
    <3>1. /\ remote_dirs \subseteq remote_dirs'
          /\ DirOf[entry[w]] \in remote_dirs'
          /\ \A v \in Workers : created_dirs'[v] \subseteq created_dirs[v] \union remote_dirs'
      BY <2>1, <2>2 DEF DirReady, ParentsExist, TypeOK
    <3>. QED  BY <1>6, <2>1, <2>2, <3>1 DEF MakeParent, Inside, InHand
  <2>3. CASE DirFails(w, entry[w]) /\ AttemptFails(w, "CreateRemoteDirFailed")
    <3>1. \E x \in {"attempt", "failed"} : pc' = [pc EXCEPT ![w] = x]
      BY <2>3, AttemptFailsPc
    <3>. QED  BY <1>6, <2>1, <2>3, <3>1 DEF MakeParent, DirFails, Inside, InHand
  <2>. QED  BY <1>6, <2>2, <2>3 DEF MakeParent
<1>7. CASE OpenFile(w)
  <2>1. pc[w] \in InHand /\ pc[w] = "open" /\ entry[w] \in Entries
    BY <1>7 DEF OpenFile, TypeOK, InHand
  <2>2. \E x \in {"stream", "attempt", "failed"} : pc' = [pc EXCEPT ![w] = x]
    BY <1>7, AttemptFailsPc DEF OpenFile
  <2>3. \A e \in Entries \ {entry[w]} : remote_file'[e] = remote_file[e]
    BY <1>7, <2>1 DEF OpenFile, TypeOK
  <2>4. Kind[entry[w]] = "File" /\ DirOf[entry[w]] \in remote_dirs
    BY <2>1 DEF AtFile
  <2>. QED  BY <1>7, <2>1, <2>2, <2>3, <2>4 DEF OpenFile, Inside, InHand
<1>8. CASE WriteChunk(w)
  <2>1. pc[w] \in InHand /\ pc[w] = "stream" /\ entry[w] \in Entries
    BY <1>8 DEF WriteChunk, TypeOK, InHand
  <2>2. \A e \in Entries \ {entry[w]} : remote_file'[e] = remote_file[e]
    BY <1>8, <2>1 DEF WriteChunk, TypeOK
  <2>3. Kind[entry[w]] = "File" /\ DirOf[entry[w]] \in remote_dirs
    BY <2>1 DEF AtFile
  <2>4. pc' = [pc EXCEPT ![w] = "stream"]
    BY <1>8, <2>1 DEF WriteChunk, TypeOK
  <2>. QED  BY <1>8, <2>1, <2>2, <2>3, <2>4 DEF WriteChunk, Inside, InHand
<1>9. CASE StreamFails(w)
  <2>1. pc[w] \in InHand /\ \E x \in {"attempt", "failed"} : pc' = [pc EXCEPT ![w] = x]
    BY <1>9, AttemptFailsPc DEF StreamFails, InHand
  <2>. QED  BY <1>9, <2>1 DEF StreamFails, Inside, InHand
<1>. QED
  BY <1>1, <1>2, <1>3, <1>4, <1>5, <1>6, <1>7, <1>8, <1>9 DEF InsideStep

\* The three steps that resolve the entry in a worker's hands.
Resolves(w) ==
  /\ pc[w] \in InHand
  /\ pc' = [pc EXCEPT ![w] = "recv"]
  /\ entry' = [entry EXCEPT ![w] = NoEntry]
  /\ UNCHANGED <<received, report, main_pc, sent, metrics, remote_file>>
  /\ remote_dirs \subseteq remote_dirs'
  /\ \A v \in Workers : created_dirs'[v] \subseteq created_dirs[v] \union remote_dirs'
  /\ \/ /\ UNCHANGED failures
        /\ \A e \in Entries : e = entry[w] => Arrived(e)'
     \/ SendFailure(entry[w])

ResolveStep(w) == UploadDir(w) \/ EndOfFile(w) \/ ReportFailure(w)

LEMMA ResolveSteps ==
  ASSUME TypeOK, ParentsExist, AtFile, NEW w \in Workers, ResolveStep(w)
  PROVE  Resolves(w)
<1>1. CASE UploadDir(w)
  <2>1. pc[w] \in InHand /\ entry[w] \in Entries /\ Kind[entry[w]] = "Dir"
    BY <1>1 DEF UploadDir, TypeOK, InHand
  <2>2. CASE DirReady(w, entry[w]) /\ UNCHANGED failures
    <3>1. /\ remote_dirs \subseteq remote_dirs'
          /\ DirOf[entry[w]] \in remote_dirs'
          /\ \A v \in Workers : created_dirs'[v] \subseteq created_dirs[v] \union remote_dirs'
      BY <2>1, <2>2 DEF DirReady, ParentsExist, TypeOK
    <3>. QED  BY <1>1, <2>1, <2>2, <3>1 DEF UploadDir, Resolves, Arrived
  <2>3. CASE DirFails(w, entry[w]) /\ SendFailure(entry[w])
    BY <1>1, <2>1, <2>3 DEF UploadDir, DirFails, Resolves
  <2>. QED  BY <1>1, <2>2, <2>3 DEF UploadDir
<1>2. CASE EndOfFile(w)
  <2>1. pc[w] \in InHand /\ entry[w] \in Entries /\ pc[w] = "stream"
    BY <1>2 DEF EndOfFile, TypeOK, InHand
  <2>2. Kind[entry[w]] = "File"
    BY <2>1 DEF AtFile
  <2>. QED  BY <1>2, <2>1, <2>2 DEF EndOfFile, Resolves, Arrived
<1>3. CASE ReportFailure(w)
  BY <1>3 DEF ReportFailure, Resolves, InHand
<1>. QED  BY <1>1, <1>2, <1>3 DEF ResolveStep
-----------------------------------------------------------------------------
\* The initial states.
LEMMA InitDelivery == Init => DInv
<1>. SUFFICES ASSUME Init PROVE DInv
  OBVIOUS
<1>1. Pending = Entries
  BY SizesAssumption DEF Init, Pending, Entries
<1>2. Failed = {}
  BY DEF Init, setup_worker_runtime, Failed
<1>3. AtFile /\ Shutdown
  BY DEF Init, setup_worker_runtime, AtFile, Shutdown
<1>4. EachEntryOnce
  BY <1>2 DEF Init, setup_worker_runtime, EachEntryOnce
<1>5. NoSilentLoss
  BY <1>1 DEF NoSilentLoss
<1>6. ParentsExist
  BY DEF Init, ParentsExist
<1>. QED  BY <1>3, <1>4, <1>5, <1>6 DEF DInv

LEMMA InsideDelivery ==
  ASSUME TypeOK, DInv, NEW w \in Workers, Inside(w)
  PROVE  DInv'
<1>1. entry[w] \in Entries /\ entry[w] \in Pending
  BY DEF Inside, TypeOK, Pending
<1>2. /\ \A v \in Workers : pc'[v] = IF v = w THEN pc'[w] ELSE pc[v]
      /\ pc'[w] \in InHand
      /\ pc'[w] \in {"open", "stream"} =>
           Kind[entry[w]] = "File" /\ DirOf[entry[w]] \in remote_dirs'
  BY DEF Inside, TypeOK
<1>3. AtFile'
  BY <1>2 DEF Inside, AtFile, DInv
<1>4. Shutdown'
  <2>1. ~AllExited
    BY DEF Inside, InHand, AllExited
  <2>. QED  BY <1>2, <2>1 DEF Inside, InHand, DInv, Shutdown, AllExited
<1>5. Pending' = Pending /\ Failed' = Failed
  BY DEF Inside, Pending, Failed
<1>6. EachEntryOnce'
  BY <1>5 DEF Inside, EachEntryOnce, DInv
<1>7. \A e \in Entries \ {entry[w]} : Arrived(e) => Arrived(e)'
  BY DEF Inside, Arrived
<1>8. NoSilentLoss'
  BY <1>1, <1>5, <1>7 DEF DInv, NoSilentLoss
<1>9. ParentsExist'
  <2>1. \A v \in Workers : created_dirs'[v] \subseteq remote_dirs'
    BY DEF Inside, DInv, ParentsExist
  <2>2. ASSUME NEW e \in Entries, Kind[e] = "File", remote_file'[e] # Absent
        PROVE  DirOf[e] \in remote_dirs'
    <3>1. CASE remote_file'[e] = remote_file[e]
      BY <2>2, <3>1 DEF Inside, DInv, ParentsExist
    <3>2. CASE remote_file'[e] # remote_file[e]
      <4>1. e = entry[w] /\ pc[w] \in {"open", "stream"}
        BY <3>2 DEF Inside
      <4>. QED  BY <4>1 DEF Inside, DInv, AtFile
    <3>. QED  BY <3>1, <3>2
  <2>. QED  BY <2>1, <2>2 DEF ParentsExist
<1>. QED  BY <1>3, <1>4, <1>6, <1>8, <1>9 DEF DInv

LEMMA ResolvesDelivery ==
  ASSUME TypeOK, DInv, NEW w \in Workers, Resolves(w)
  PROVE  /\ DInv'
         /\ entry[w] \in Pending
         /\ Pending' = Pending \ {entry[w]}
         /\ \/ UNCHANGED failures /\ Failed' = Failed
            \/ Failed' = Failed \union {entry[w]}
<1>. DEFINE e0 == entry[w]
<1>1. e0 \in Entries /\ e0 \in Pending /\ e0 <= received /\ e0 # NoEntry
  BY DEF Resolves, TypeOK, Pending, DInv, EachEntryOnce
<1>2. \A v \in Workers : /\ pc'[v] = IF v = w THEN "recv" ELSE pc[v]
                         /\ entry'[v] = IF v = w THEN NoEntry ELSE entry[v]
  BY DEF Resolves, TypeOK
<1>3. AtFile'
  BY <1>2 DEF Resolves, AtFile, DInv
<1>4. Shutdown'
  <2>1. ~AllExited
    BY DEF Resolves, InHand, AllExited
  <2>2. main_pc # "done" /\ main_pc # "collect"
    BY <2>1 DEF DInv, Shutdown
  <2>. QED  BY <1>2, <2>1, <2>2 DEF Resolves, DInv, Shutdown, AllExited
<1>5. Pending' = Pending \ {e0}
  <2>1. \A e \in Entries : e # e0 =>
          ((\E v \in Workers : entry'[v] = e) <=> (\E v \in Workers : entry[v] = e))
    BY <1>2 DEF NoEntry, Entries
  <2>2. ~ \E v \in Workers : entry'[v] = e0
    BY <1>1, <1>2 DEF DInv, EachEntryOnce
  <2>3. ~ (e0 > received)
    BY <1>1 DEF TypeOK, Entries
  <2>. QED  BY <1>1, <2>1, <2>2, <2>3 DEF Resolves, Pending
<1>6. failures[e0] + report[e0] = 0 /\ failures[e0] \in Nat /\ report[e0] \in Nat
  <2>1. failures[e0] \in Nat /\ report[e0] \in Nat
    BY <1>1 DEF TypeOK
  <2>2. e0 \notin Failed
    BY <1>1 DEF DInv, EachEntryOnce
  <2>. QED  BY <1>1, <2>1, <2>2 DEF Failed
<1>7. \/ /\ UNCHANGED failures /\ Failed' = Failed
         /\ \A e \in Entries : e = e0 => Arrived(e)'
      \/ /\ Failed' = Failed \union {e0}
         /\ failures'[e0] + report'[e0] = 1
         /\ \A e \in Entries \ {e0} : failures'[e] = failures[e]
  <2>1. CASE UNCHANGED failures /\ \A e \in Entries : e = e0 => Arrived(e)'
    BY <1>1, <2>1 DEF Resolves, Failed
  <2>2. CASE SendFailure(e0)
    BY <1>1, <1>6, <2>2 DEF Resolves, Failed, TypeOK
  <2>. QED  BY <2>1, <2>2 DEF Resolves
<1>8. EachEntryOnce'
  <2>1. \A v \in Workers : entry'[v] # NoEntry => entry'[v] <= received'
    BY <1>2 DEF Resolves, DInv, EachEntryOnce
  <2>2. \A u, v \in Workers : u # v /\ entry'[u] # NoEntry => entry'[u] # entry'[v]
    BY <1>2 DEF DInv, EachEntryOnce
  <2>3. \A e \in Entries : failures'[e] + report'[e] <= 1
    BY <1>7 DEF Resolves, DInv, EachEntryOnce
  <2>4. (Failed \intersect Pending)' = {}
    BY <1>5, <1>7 DEF DInv, EachEntryOnce
  <2>. QED  BY <2>1, <2>2, <2>3, <2>4 DEF EachEntryOnce
<1>9. \A e \in Entries : Arrived(e) => Arrived(e)'
  BY DEF Resolves, Arrived
<1>10. NoSilentLoss'
  BY <1>5, <1>7, <1>9 DEF DInv, NoSilentLoss
<1>11. ParentsExist'
  BY DEF Resolves, DInv, ParentsExist
<1>. QED  BY <1>1, <1>3, <1>4, <1>5, <1>7, <1>8, <1>10, <1>11 DEF DInv

\* The steps that take an entry from the queue, or none, and main's steps:
\* none of them resolves an entry.

LEMMA RecvDelivery ==
  ASSUME TypeOK, DInv, NEW w \in Workers, Recv(w)
  PROVE  DInv' /\ Pending' = Pending /\ Failed' = Failed
<1>1. /\ pc[w] = "recv" /\ entry[w] = NoEntry
      /\ received' = received + 1 /\ received + 1 \in Entries
      /\ received \in Nat
  <2>1. pc[w] = "recv" /\ received' = received + 1 /\ received < sent
    BY DEF Recv
  <2>2. received \in Nat /\ sent \in Nat /\ sent <= TotalEntries
    BY SizesAssumption DEF TypeOK
  <2>3. entry[w] = NoEntry
    BY <2>1 DEF TypeOK, InHand
  <2>. QED  BY <2>1, <2>2, <2>3, SizesAssumption DEF Entries
<1>2. \A v \in Workers : /\ pc'[v] = IF v = w THEN "attempt" ELSE pc[v]
                         /\ entry'[v] = IF v = w THEN received + 1 ELSE entry[v]
  BY DEF Recv, TypeOK
<1>3. UNCHANGED <<failures, report, main_pc, sent, remote_dirs, remote_file, created_dirs>>
  BY DEF Recv
<1>4. \A v \in Workers : entry[v] # NoEntry => entry[v] \in Nat /\ entry[v] <= received
  BY DEF TypeOK, DInv, EachEntryOnce, Entries
<1>5. Pending' = Pending
  <2>1. ASSUME NEW e \in Entries
        PROVE  (e > received' \/ \E v \in Workers : entry'[v] = e)
                 <=> (e > received \/ \E v \in Workers : entry[v] = e)
    <3>1. e \in Nat \ {0}
      BY DEF Entries
    <3>2. CASE e = received + 1
      BY <1>1, <1>2, <3>1, <3>2
    <3>3. CASE e # received + 1
      <4>1. e > received + 1 <=> e > received
        BY <1>1, <3>1, <3>3
      <4>2. (\E v \in Workers : entry'[v] = e) <=> (\E v \in Workers : entry[v] = e)
        BY <1>1, <1>2, <3>1, <3>3 DEF NoEntry
      <4>. QED  BY <1>1, <4>1, <4>2
    <3>. QED  BY <3>2, <3>3
  <2>. QED  BY <2>1 DEF Pending
<1>6. Failed' = Failed
  BY <1>3 DEF Failed
<1>7. AtFile'
  BY <1>2, <1>3 DEF AtFile, DInv
<1>8. Shutdown'
  <2>1. ~AllExited
    BY <1>1 DEF AllExited
  <2>2. main_pc # "done" /\ main_pc # "collect"
    BY <2>1 DEF DInv, Shutdown
  <2>3. \A v \in Workers : pc[v] \notin {"metrics", "exited"}
    BY DEF DInv, Shutdown, Recv, TypeOK
  <2>. QED  BY <1>2, <1>3, <2>2, <2>3 DEF DInv, Shutdown
<1>9. EachEntryOnce'
  <2>1. \A v \in Workers : entry'[v] # NoEntry => entry'[v] <= received'
    BY <1>1, <1>2, <1>4
  <2>2. \A u, v \in Workers : u # v /\ entry'[u] # NoEntry => entry'[u] # entry'[v]
    <3>1. \A v \in Workers : entry[v] # received + 1
      BY <1>1, <1>4 DEF NoEntry
    <3>. QED  BY <1>2, <3>1 DEF DInv, EachEntryOnce
  <2>3. \A e \in Entries : failures'[e] + report'[e] <= 1
    BY <1>3 DEF DInv, EachEntryOnce
  <2>. QED  BY <1>5, <1>6, <2>1, <2>2, <2>3 DEF DInv, EachEntryOnce
<1>10. NoSilentLoss'
  BY <1>3, <1>5, <1>6 DEF DInv, NoSilentLoss, Arrived
<1>11. ParentsExist'
  BY <1>3 DEF DInv, ParentsExist
<1>. QED  BY <1>5, <1>6, <1>7, <1>8, <1>9, <1>10, <1>11 DEF DInv

\* What the remaining steps leave alone.
Aside ==
  /\ UNCHANGED <<entry, received, remote_dirs, remote_file, created_dirs>>
  /\ \A e \in Entries : failures'[e] + report'[e] = failures[e] + report[e]
  /\ \A w \in Workers : pc'[w] \in {"open", "stream"} => pc[w] \in {"open", "stream"}

LEMMA AsideDelivery ==
  ASSUME TypeOK, DInv, Aside, Shutdown'
  PROVE  DInv' /\ Pending' = Pending /\ Failed' = Failed
<1>1. Pending' = Pending
  BY DEF Aside, Pending
<1>2. Failed' = Failed
  BY DEF Aside, Failed
<1>3. AtFile'
  BY DEF Aside, DInv, AtFile
<1>4. EachEntryOnce'
  BY <1>1, <1>2 DEF Aside, DInv, EachEntryOnce
<1>5. NoSilentLoss'
  BY <1>1, <1>2 DEF Aside, DInv, NoSilentLoss, Arrived
<1>6. ParentsExist'
  BY DEF Aside, DInv, ParentsExist
<1>. QED  BY <1>1, <1>2, <1>3, <1>4, <1>5, <1>6 DEF DInv

LEMMA ExitAside ==
  ASSUME TypeOK, DInv, NEW w \in Workers,
         RecvDisconnected(w) \/ SendMetrics(w) \/ ConnectionDrops(w)
  PROVE  Aside /\ Shutdown'
<1>1. CASE RecvDisconnected(w)
  <2>1. Aside
    BY <1>1 DEF RecvDisconnected, Aside, TypeOK
  <2>2. ~AllExited
    BY <1>1 DEF RecvDisconnected, AllExited
  <2>. QED  BY <1>1, <2>1, <2>2 DEF RecvDisconnected, DInv, Shutdown, TypeOK
<1>2. CASE SendMetrics(w)
  <2>1. Aside
    BY <1>2 DEF SendMetrics, Aside, TypeOK
  <2>2. ~AllExited
    BY <1>2 DEF SendMetrics, AllExited
  <2>. QED  BY <1>2, <2>1, <2>2 DEF SendMetrics, DInv, Shutdown, TypeOK
<1>3. CASE ConnectionDrops(w)
  BY <1>3 DEF ConnectionDrops, Aside, DInv, Shutdown, AllExited
<1>. QED  BY <1>1, <1>2, <1>3

LEMMA MainAside ==
  ASSUME TypeOK, DInv, MainStep \/ Finished \/ UNCHANGED vars
  PROVE  Aside /\ Shutdown'
<1>1. CASE Produce
  <2>1. \A w \in Workers : pc[w] \notin {"metrics", "exited"}
    BY <1>1 DEF Produce, DInv, Shutdown
  <2>. QED
    BY <1>1, <2>1 DEF Produce, Aside, DInv, Shutdown, AllExited
<1>2. CASE CloseQueue
  BY <1>2 DEF CloseQueue, Aside, DInv, Shutdown, AllExited
<1>3. CASE JoinWorkers
  BY <1>3 DEF JoinWorkers, Aside, DInv, Shutdown, AllExited
<1>4. CASE Finalize
  <2>1. Aside
    BY <1>4 DEF Finalize, Aside, DInv, Shutdown, TypeOK
  <2>. QED  BY <1>4, <2>1 DEF Finalize, DInv, Shutdown, AllExited
<1>5. CASE Finished \/ UNCHANGED vars
  BY <1>5 DEF Finished, vars, Aside, DInv, Shutdown, AllExited
<1>. QED  BY <1>1, <1>2, <1>3, <1>4, <1>5 DEF MainStep

LEMMA StepDelivery == TypeOK /\ DInv /\ [Next]_vars => DInv'
<1>. SUFFICES ASSUME TypeOK, DInv, [Next]_vars PROVE DInv'
  OBVIOUS
<1>1. CASE MainStep \/ Finished \/ UNCHANGED vars
  BY <1>1, MainAside, AsideDelivery
<1>2. ASSUME NEW w \in Workers, WorkerStep(w) \/ ConnectionDrops(w)
      PROVE  DInv'
  <2>1. CASE InsideStep(w)
    BY <2>1, InsideSteps, InsideDelivery DEF DInv
  <2>2. CASE ResolveStep(w)
    BY <2>2, ResolveSteps, ResolvesDelivery DEF DInv
  <2>3. CASE Recv(w)
    BY <2>3, RecvDelivery
  <2>4. CASE RecvDisconnected(w) \/ SendMetrics(w) \/ ConnectionDrops(w)
    BY <2>4, ExitAside, AsideDelivery
  <2>. QED  BY <1>2, <2>1, <2>2, <2>3, <2>4 DEF WorkerStep, InsideStep, ResolveStep
<1>. QED  BY <1>1, <1>2 DEF Next

LEMMA Delivery == Spec => []DInv
<1>1. TypeOK /\ DInv /\ [Next]_vars => DInv'
  BY StepDelivery
<1>. QED  BY <1>1, InitDelivery, TypeCorrect, PTL DEF Spec

\* Whatever fails, an entry that left the pipeline is complete on the remote
\* host or its failure is recorded: see NoSilentLoss.
THEOREM NothingLost == Spec => []NoSilentLoss
<1>1. DInv => NoSilentLoss
  BY DEF DInv
<1>. QED  BY <1>1, Delivery, PTL

\* No file is opened below a directory that is not there: see ParentsExist.
THEOREM ParentsMade == Spec => []ParentsExist
<1>1. DInv => ParentsExist
  BY DEF DInv
<1>. QED  BY <1>1, Delivery, PTL

\* No entry is handled by two workers, or reported twice: see EachEntryOnce.
THEOREM HandledOnce == Spec => []EachEntryOnce
<1>1. DInv => EachEntryOnce
  BY DEF DInv
<1>. QED  BY <1>1, Delivery, PTL
-----------------------------------------------------------------------------
\* UploadPool implements TransferJob.

arrived == {e \in Entries : Arrived(e)}
reported == {e \in Entries : report[e] > 0}
finished == main_pc = "done"

LEMMA JobInit == Init => Job!Init
<1>. SUFFICES ASSUME Init PROVE Job!Init
  OBVIOUS
<1>1. Pending = Entries
  BY SizesAssumption DEF Init, Pending, Entries
<1>2. Failed = {} /\ reported = {} /\ ~finished
  BY DEF Init, setup_worker_runtime, Failed, reported, finished
<1>. QED  BY <1>1, <1>2 DEF Job!Init, reported, finished

\* After any step the destination is as TransferJob requires.
LEMMA JobDestination ==
  ASSUME DInv' PROVE Job!DestinationChanges
BY DEF DInv, NoSilentLoss, Job!DestinationChanges, Job!Transferred

LEMMA JobInside ==
  ASSUME TypeOK, DInv, DInv', NEW w \in Workers, Inside(w)
  PROVE  Job!Work
<1>1. ~finished
  BY DEF Inside, InHand, DInv, Shutdown, AllExited, finished
<1>2. Pending' = Pending /\ Failed' = Failed
  BY DEF Inside, Pending, Failed
<1>3. reported' = reported /\ finished' = finished
  BY DEF Inside, reported, finished
<1>. QED
  BY <1>1, <1>2, <1>3, JobDestination DEF Job!Work, reported, finished

LEMMA JobResolves ==
  ASSUME TypeOK, DInv, NEW w \in Workers, Resolves(w)
  PROVE  \E e \in Entries : Job!Succeed(e) \/ Job!Fail(e)
<1>. DEFINE e0 == entry[w]
<1>1. e0 \in Entries /\ e0 \in Pending
  BY ResolvesDelivery DEF Pending
<1>2. DInv' /\ Pending' = Pending \ {e0} /\ (Failed' = Failed \/ Failed' = Failed \union {e0})
  BY ResolvesDelivery
<1>3. Job!DestinationChanges
  BY <1>2, JobDestination
<1>4. reported' = reported /\ finished' = finished
  BY DEF Resolves, reported, finished
<1>5. CASE Failed' = Failed
  BY <1>1, <1>2, <1>3, <1>4, <1>5 DEF Job!Succeed, reported, finished
<1>6. CASE Failed' = Failed \union {e0}
  BY <1>1, <1>2, <1>3, <1>4, <1>6 DEF Job!Fail, reported, finished
<1>. QED  BY <1>1, <1>2, <1>5, <1>6

LEMMA JobFinish ==
  ASSUME TypeOK, DInv, Finalize
  PROVE  Job!Finish
<1>1. Pending = {}
  <2>1. 0 \in Workers
    BY Sizes DEF Workers
  <2>2. received = TotalEntries
    BY <2>1 DEF Finalize, AllExited, DInv, Shutdown
  <2>3. \A v \in Workers : entry[v] = NoEntry
    BY DEF Finalize, AllExited, TypeOK, InHand
  <2>. QED  BY <2>2, <2>3, SizesAssumption DEF Pending, NoEntry, Entries
<1>2. ~finished /\ finished'
  BY DEF Finalize, finished
<1>3. Failed' = Failed /\ Pending' = Pending /\ arrived' = arrived
  BY MainAside, AsideDelivery DEF MainStep, Aside, arrived, Arrived
<1>4. reported' = Failed
  BY DEF Finalize, reported, Failed, DInv, Shutdown, TypeOK
<1>. QED
  BY <1>1, <1>2, <1>3, <1>4 DEF Job!Finish, reported, finished, arrived

\* The steps TransferJob does not see.
Unseen == UNCHANGED <<Pending, Failed, arrived, reported, finished>>

LEMMA JobUnseen ==
  ASSUME TypeOK, DInv, Aside, Shutdown', UNCHANGED <<reported, finished>>
  PROVE  Unseen
BY AsideDelivery DEF Aside, arrived, Arrived, Unseen

LEMMA JobStep ==
  ASSUME TypeOK, DInv, [Next]_vars
  PROVE  [Job!Next]_(Job!vars)
<1>0. DInv'
  BY StepDelivery
<1>1. CASE MainStep \/ Finished \/ UNCHANGED vars
  <2>1. CASE Finalize
    BY <2>1, JobFinish DEF Job!Next
  <2>2. CASE Produce \/ CloseQueue \/ JoinWorkers \/ Finished \/ UNCHANGED vars
    <3>1. UNCHANGED <<reported, finished>>
      BY <2>2 DEF Produce, CloseQueue, JoinWorkers, Finished, vars, reported, finished
    <3>2. Unseen
      BY <1>1, <3>1, MainAside, JobUnseen
    <3>. QED  BY <3>2 DEF Unseen, Job!vars, arrived, reported, finished
  <2>. QED  BY <1>1, <2>1, <2>2 DEF MainStep
<1>2. ASSUME NEW w \in Workers, WorkerStep(w) \/ ConnectionDrops(w)
      PROVE  [Job!Next]_(Job!vars)
  <2>1. CASE InsideStep(w)
    BY <1>0, <2>1, InsideSteps, JobInside DEF DInv, Job!Next
  <2>2. CASE ResolveStep(w)
    BY <2>2, ResolveSteps, JobResolves DEF DInv, Job!Next
  <2>3. CASE Recv(w)
    <3>1. Pending' = Pending /\ Failed' = Failed
      BY <2>3, RecvDelivery
    <3>2. UNCHANGED <<arrived, reported, finished>>
      BY <2>3 DEF Recv, arrived, Arrived, reported, finished
    <3>. QED  BY <3>1, <3>2 DEF Job!vars, arrived, reported, finished
  <2>4. CASE RecvDisconnected(w) \/ SendMetrics(w) \/ ConnectionDrops(w)
    <3>1. UNCHANGED <<reported, finished>>
      BY <2>4 DEF RecvDisconnected, SendMetrics, ConnectionDrops, reported, finished
    <3>2. Unseen
      BY <2>4, <3>1, ExitAside, JobUnseen
    <3>. QED  BY <3>2 DEF Unseen, Job!vars, arrived, reported, finished
  <2>. QED  BY <1>2, <2>1, <2>2, <2>3, <2>4 DEF WorkerStep, InsideStep, ResolveStep
<1>. QED  BY <1>1, <1>2 DEF Next

\* For every batch, number of workers and retry budget an upload does what
\* TransferJob promises: see ImplementsJob.
THEOREM UploadImplementsJob == Spec => ImplementsJob
<1>1. Init => Job!Init
  BY JobInit
<1>2. TypeOK /\ DInv /\ [Next]_vars => [Job!Next]_(Job!vars)
  BY JobStep
<1>. QED  BY <1>1, <1>2, TypeCorrect, Delivery, PTL DEF Spec, ImplementsJob, Job!Spec

-----------------------------------------------------------------------------
\* Progress-bar slots.

SlotSum == pb_slots + Count(has_pb_slot)
SlotForFile ==
  \A w \in Workers : has_pb_slot[w] => pc[w] \in InHand /\ Kind[entry[w]] = "File"

LEMMA SlotParts == SlotDiscipline <=> SlotSum = PbSlots /\ SlotForFile
BY DEF SlotDiscipline, SlotSum, SlotForFile, SlotHolders, Count

\* What a step of w may do with its slot: nothing, take one, or return it.
TakesSlot(w) ==
  /\ ~has_pb_slot[w]
  /\ pb_slots' = pb_slots - 1
  /\ has_pb_slot' = [has_pb_slot EXCEPT ![w] = TRUE]

LEMMA TakeSum ==
  ASSUME TypeOK, NEW w \in Workers, TakesSlot(w)
  PROVE  SlotSum' = SlotSum
<1>1. has_pb_slot \in [Workers -> BOOLEAN] /\ pb_slots \in Nat
  BY SizesAssumption DEF TypeOK
<1>2. Count(has_pb_slot) \in Nat /\ Count(has_pb_slot') = Count(has_pb_slot) + 1
  BY <1>1, CountChange DEF TakesSlot
<1>. QED  BY <1>1, <1>2 DEF TakesSlot, SlotSum

LEMMA ReturnSum ==
  ASSUME TypeOK, NEW w \in Workers, finish_and_release_pb(w)
  PROVE  /\ SlotSum' = SlotSum
         /\ \A v \in Workers : has_pb_slot'[v] <=> has_pb_slot[v] /\ v # w
<1>1. has_pb_slot \in [Workers -> BOOLEAN] /\ pb_slots \in Nat
  BY SizesAssumption DEF TypeOK
<1>2. has_pb_slot' = [has_pb_slot EXCEPT ![w] = FALSE]
  BY DEF finish_and_release_pb
<1>3. /\ Count(has_pb_slot) \in Nat
      /\ ~has_pb_slot[w] => Count(has_pb_slot') = Count(has_pb_slot)
      /\ has_pb_slot[w] => Count(has_pb_slot') = Count(has_pb_slot) - 1
  BY <1>1, <1>2, CountChange
<1>4. pb_slots' = IF has_pb_slot[w] THEN pb_slots + 1 ELSE pb_slots
  BY DEF finish_and_release_pb
<1>5. CASE has_pb_slot[w]
  BY <1>1, <1>2, <1>3, <1>4, <1>5 DEF SlotSum
<1>6. CASE ~has_pb_slot[w]
  BY <1>1, <1>2, <1>3, <1>4, <1>6 DEF SlotSum
<1>. QED  BY <1>1, <1>2, <1>5, <1>6

LEMMA InitSlots == Init => SlotDiscipline
<1>. SUFFICES ASSUME Init PROVE SlotDiscipline
  OBVIOUS
<1>1. SlotHolders = {}
  BY DEF Init, SlotHolders
<1>. QED
  BY <1>1, FS_EmptySet, SizesAssumption DEF Init, setup_worker_runtime, SlotDiscipline

\* A step of w that keeps its slot as it is and what it has in hand.
LEMMA SlotFrame ==
  ASSUME TypeOK, SlotDiscipline, NEW w \in Workers, Inside(w), UNCHANGED slotVars
  PROVE  SlotDiscipline'
<1>1. \A v \in Workers : pc'[v] \in InHand <=> pc[v] \in InHand
  BY DEF Inside, TypeOK
<1>. QED
  BY <1>1, SlotParts DEF Inside, SlotDiscipline, SlotHolders

LEMMA WorkerSlots ==
  ASSUME TypeOK, DInv, SlotDiscipline, NEW w \in Workers,
         WorkerStep(w) \/ ConnectionDrops(w)
  PROVE  SlotDiscipline'
<1>1. CASE InsideStep(w)
  <2>1. Inside(w)
    BY <1>1, InsideSteps DEF DInv
  <2>2. CASE UNCHANGED slotVars
    BY <2>1, <2>2, SlotFrame
  <2>3. CASE OpenFile(w) /\ ~UNCHANGED slotVars
    <3>1. TakesSlot(w)
      BY <2>3 DEF OpenFile, TakesSlot, TypeOK
    <3>2. SlotSum' = PbSlots
      BY <3>1, TakeSum, SlotParts
    <3>3. Kind[entry[w]] = "File"
      BY <2>3 DEF OpenFile, DInv, AtFile
    <3>4. \A v \in Workers : /\ pc'[v] \in InHand <=> pc[v] \in InHand
                             /\ has_pb_slot'[v] => has_pb_slot[v] \/ v = w
      BY <2>1, <3>1 DEF Inside, TakesSlot, TypeOK
    <3>5. SlotForFile'
      BY <2>1, <3>3, <3>4, SlotParts DEF SlotForFile, Inside
    <3>6. SlotDiscipline' <=> (SlotSum = PbSlots /\ SlotForFile)'
      BY DEF SlotDiscipline, SlotSum, SlotForFile, SlotHolders, Count
    <3>. QED  BY <3>2, <3>5, <3>6
  <2>. QED
    BY <1>1, <2>2, <2>3
    DEF InsideStep, NeverAttempted, AcquireToken, ReuseSession, BuildSession,
        OpenSftp, MakeParent, WriteChunk, StreamFails
<1>2. CASE UploadDir(w)
  <2>1. ~has_pb_slot[w]
    BY <1>2 DEF UploadDir, SlotDiscipline
  <2>2. \A v \in Workers \ {w} : pc'[v] = pc[v] /\ entry'[v] = entry[v]
    BY <1>2 DEF UploadDir, TypeOK
  <2>. QED  BY <1>2, <2>1, <2>2 DEF UploadDir, SlotDiscipline, SlotHolders
<1>3. CASE EndOfFile(w) \/ ReportFailure(w)
  <2>1. finish_and_release_pb(w)
    BY <1>3 DEF EndOfFile, ReportFailure
  <2>2. \A v \in Workers \ {w} : pc'[v] = pc[v] /\ entry'[v] = entry[v]
    BY <1>3 DEF EndOfFile, ReportFailure, TypeOK
  <2>3. SlotSum' = PbSlots
    BY <2>1, ReturnSum, SlotParts
  <2>4. SlotForFile'
    BY <2>1, <2>2, ReturnSum, SlotParts DEF SlotForFile
  <2>5. SlotDiscipline' <=> (SlotSum = PbSlots /\ SlotForFile)'
    BY DEF SlotDiscipline, SlotSum, SlotForFile, SlotHolders, Count
  <2>. QED  BY <2>3, <2>4, <2>5
<1>4. CASE Recv(w) \/ RecvDisconnected(w) \/ SendMetrics(w)
  <2>1. ~has_pb_slot[w]
    BY <1>4 DEF Recv, RecvDisconnected, SendMetrics, SlotDiscipline, InHand
  <2>2. \A v \in Workers \ {w} : pc'[v] = pc[v] /\ entry'[v] = entry[v]
    BY <1>4 DEF Recv, RecvDisconnected, SendMetrics, TypeOK
  <2>. QED
    BY <1>4, <2>1, <2>2
    DEF Recv, RecvDisconnected, SendMetrics, SlotDiscipline, SlotHolders
<1>5. CASE ConnectionDrops(w)
  BY <1>5 DEF ConnectionDrops, SlotDiscipline, SlotHolders
<1>. QED
  BY <1>1, <1>2, <1>3, <1>4, <1>5 DEF WorkerStep, InsideStep

LEMMA StepSlots == TypeOK /\ DInv /\ SlotDiscipline /\ [Next]_vars => SlotDiscipline'
<1>1. ASSUME TypeOK, DInv, SlotDiscipline,
             NEW w \in Workers, WorkerStep(w) \/ ConnectionDrops(w)
      PROVE  SlotDiscipline'
  BY <1>1, WorkerSlots
<1>2. ASSUME SlotDiscipline, MainStep \/ Finished \/ UNCHANGED vars
      PROVE  SlotDiscipline'
  BY <1>2, MainUnchanged DEF SlotDiscipline, SlotHolders
<1>. QED  BY <1>1, <1>2 DEF Next

\* Slots are conserved and held only for the file in hand: see SlotDiscipline.
THEOREM SlotsSafe == Spec => []SlotDiscipline
<1>1. TypeOK /\ DInv /\ SlotDiscipline /\ [Next]_vars => SlotDiscipline'
  BY StepSlots
<1>. QED  BY <1>1, InitSlots, TypeCorrect, Delivery, PTL DEF Spec
-----------------------------------------------------------------------------
\* Metrics messages.

LEMMA ExitedFinite == IsFiniteSet(Exited) /\ Cardinality(Exited) \in Nat
BY Sizes, FS_Subset, FS_CardinalityType DEF Exited

LEMMA InitMetrics == Init => MetricsCounted
<1>. SUFFICES ASSUME Init PROVE MetricsCounted
  OBVIOUS
<1>1. Exited = {}
  BY DEF Init, Exited
<1>. QED  BY <1>1, FS_EmptySet DEF Init, setup_worker_runtime, MetricsCounted

\* A step of w between two states of which neither is "exited".
LEMMA MetricsFrame ==
  ASSUME TypeOK, MetricsCounted, NEW w \in Workers, pc[w] # "exited",
         NEW x, x # "exited", pc' = [pc EXCEPT ![w] = x],
         UNCHANGED <<metrics, main_pc>>
  PROVE  MetricsCounted'
<1>1. Exited' = Exited
  BY DEF Exited, TypeOK
<1>. QED  BY <1>1 DEF MetricsCounted

LEMMA WorkerMetrics ==
  ASSUME TypeOK, DInv, MetricsCounted, NEW w \in Workers,
         WorkerStep(w) \/ ConnectionDrops(w)
  PROVE  MetricsCounted'
<1>1. CASE InsideStep(w)
  <2>1. Inside(w)
    BY <1>1, InsideSteps DEF DInv
  <2>2. PICK x \in InHand : pc' = [pc EXCEPT ![w] = x]
    BY <2>1 DEF Inside
  <2>. QED  BY <2>1, <2>2, MetricsFrame DEF Inside, InHand
<1>2. CASE ResolveStep(w)
  <2>1. Resolves(w)
    BY <1>2, ResolveSteps DEF DInv
  <2>. QED  BY <2>1, MetricsFrame DEF Resolves, InHand
<1>3. CASE Recv(w)
  BY <1>3, MetricsFrame DEF Recv
<1>4. CASE RecvDisconnected(w)
  BY <1>4, MetricsFrame DEF RecvDisconnected
<1>5. CASE SendMetrics(w)
  <2>1. w \notin Exited /\ Exited' = Exited \union {w}
    BY <1>5 DEF SendMetrics, Exited, TypeOK
  <2>2. Cardinality(Exited') = Cardinality(Exited) + 1
    BY <2>1, ExitedFinite, FS_AddElement
  <2>. QED  BY <1>5, <2>2, ExitedFinite DEF SendMetrics, MetricsCounted
<1>6. CASE ConnectionDrops(w)
  BY <1>6 DEF ConnectionDrops, MetricsCounted, Exited
<1>. QED
  BY <1>1, <1>2, <1>3, <1>4, <1>5, <1>6 DEF WorkerStep, InsideStep, ResolveStep

LEMMA MainMetrics ==
  ASSUME MetricsCounted, MainStep \/ Finished \/ UNCHANGED vars
  PROVE  MetricsCounted'
<1>1. Exited' = Exited
  BY MainUnchanged DEF Exited
<1>2. \/ main_pc' = "done"
      \/ metrics' = metrics /\ main_pc # "done"
      \/ UNCHANGED <<metrics, main_pc>>
  BY DEF MainStep, Produce, CloseQueue, JoinWorkers, Finalize, Finished, vars
<1>. QED  BY <1>1, <1>2 DEF MetricsCounted

LEMMA MetricsSafe == Spec => []MetricsCounted
<1>1. TypeOK /\ DInv /\ MetricsCounted /\ [Next]_vars => MetricsCounted'
  BY WorkerMetrics, MainMetrics DEF Next
<1>. QED  BY <1>1, InitMetrics, TypeCorrect, Delivery, PTL DEF Spec

\* While a worker has yet to send its metrics, the channel has a free place.
LEMMA MetricsRoom ==
  ASSUME DInv, MetricsCounted, NEW w \in Workers, pc[w] = "metrics"
  PROVE  metrics < workers
<1>1. main_pc # "done"
  BY DEF DInv, Shutdown, AllExited
<1>2. Cardinality(Workers) = workers
  BY Sizes, FS_Interval DEF Workers
<1>3. Exited \subseteq Workers /\ Exited # Workers
  BY DEF Exited
<1>4. /\ Cardinality(Exited) <= Cardinality(Workers)
      /\ Cardinality(Exited) # Cardinality(Workers)
  BY <1>3, Sizes, FS_Subset
<1>5. workers \in Nat /\ Cardinality(Exited) \in Nat
  BY Sizes, ExitedFinite
<1>. QED  BY <1>1, <1>2, <1>4, <1>5 DEF MetricsCounted

\* No worker ever blocks on a send, so a join cannot wait on one that does:
\* see SendsNeverBlock.
THEOREM SendsSafe == Spec => []SendsNeverBlock
<1>1. ASSUME TypeOK, DInv, TokenDiscipline, SlotDiscipline, MetricsCounted,
             NEW w \in Workers
      PROVE  /\ token_guard[w] => conn_tokens < handshake_limit
             /\ has_pb_slot[w] => pb_slots < PbSlots
             /\ pc[w] = "metrics" => metrics < workers
  <2>1. token_guard \in [Workers -> BOOLEAN] /\ has_pb_slot \in [Workers -> BOOLEAN]
    BY <1>1 DEF TypeOK
  <2>2. conn_tokens \in Nat /\ pb_slots \in Nat
    BY <1>1, Sizes, SizesAssumption DEF TypeOK
  <2>3. /\ Count(token_guard) \in Nat /\ (token_guard[w] => Count(token_guard) > 0)
        /\ Count(has_pb_slot) \in Nat /\ (has_pb_slot[w] => Count(has_pb_slot) > 0)
    BY <2>1, CountChange
  <2>4. /\ conn_tokens + Count(token_guard) = handshake_limit
        /\ pb_slots + Count(has_pb_slot) = PbSlots
    BY <1>1, SlotParts
    DEF TokenDiscipline, TokensConserved, Holders, Count, SlotSum
  <2>5. pc[w] = "metrics" => metrics < workers
    BY <1>1, MetricsRoom
  <2>. QED  BY <2>2, <2>3, <2>4, <2>5
<1>2. TypeOK /\ DInv /\ TokenDiscipline /\ SlotDiscipline /\ MetricsCounted
        => SendsNeverBlock
  BY <1>1 DEF SendsNeverBlock
<1>. QED
  BY <1>2, TypeCorrect, Delivery, TokensSafe, SlotsSafe, MetricsSafe, PTL
=============================================================================
