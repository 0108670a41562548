-------------------------- MODULE UploadPoolProofs --------------------------
(***************************************************************************)
(* Theorems about UploadPool for every batch, number of workers, retry     *)
(* budget and channel size.                                                *)
(***************************************************************************)
EXTENDS UploadPool, FiniteSetTheorems, TLAPS

USE DEF Goto, NextEntry, EntryDone, SendFailure

\* There is at least one worker and one connection token.
LEMMA Sizes ==
  /\ workers \in Nat \ {0}
  /\ handshake_limit \in Nat \ {0}
  /\ IsFiniteSet(Workers)
<1>1. workers \in Nat \ {0}
  BY SizesAssumption DEF workers, calc_upload_workers, min, max
<1>2. handshake_limit \in Nat \ {0}
  BY <1>1, SizesAssumption DEF handshake_limit, min
<1>3. IsFiniteSet(Workers)
  BY <1>1, FS_Interval DEF Workers
<1>. QED  BY <1>1, <1>2, <1>3

LEMMA AttemptFailsType ==
  ASSUME TypeOK, NEW w \in Workers, NEW e \in TransferErrors, AttemptFails(w, e)
  PROVE  /\ pc' \in [Workers -> InHand \union {"recv", "metrics", "exited"}]
         /\ pc[w] \in InHand => \A v \in Workers : pc'[v] \in InHand <=> pc[v] \in InHand
         /\ attempt' \in [Workers -> Nat]
         /\ last_err' \in [Workers -> TransferErrors \union {NoError}]
BY DEF TypeOK, AttemptFails, InHand

LEMMA InitType == Init => TypeOK
BY Sizes, SizesAssumption DEF Init, setup_worker_runtime, TypeOK, InHand,
      NoEntry, NoError, Absent

USE DEF mainVars, chanVars, tokenVars, slotVars, remoteVars, sessVars, taskVars

LEMMA MainType == TypeOK /\ MainStep => TypeOK'
<1>. SUFFICES ASSUME TypeOK, MainStep PROVE TypeOK'
  OBVIOUS
<1>1. CASE Produce
  BY <1>1, SizesAssumption DEF Produce, TypeOK
<1>2. CASE CloseQueue
  BY <1>2 DEF CloseQueue, TypeOK
<1>3. CASE JoinWorkers
  BY <1>3 DEF JoinWorkers, TypeOK
<1>4. CASE Finalize
  BY <1>4, Sizes DEF Finalize, TypeOK
<1>. QED  BY <1>1, <1>2, <1>3, <1>4 DEF MainStep

LEMMA WorkerType ==
  ASSUME TypeOK, NEW w \in Workers, WorkerStep(w) \/ ConnectionDrops(w)
  PROVE  TypeOK'
<1>1. CASE Recv(w)
  <2>1. received' \in 0 .. sent
    BY <1>1, SizesAssumption DEF Recv, TypeOK
  <2>2. received + 1 \in Entries /\ received + 1 # NoEntry
    BY <1>1, SizesAssumption DEF Recv, TypeOK, Entries, NoEntry
  <2>. QED  BY <1>1, <2>1, <2>2 DEF Recv, TypeOK, InHand
<1>2. CASE RecvDisconnected(w)
  BY <1>2 DEF RecvDisconnected, TypeOK, InHand
<1>3. CASE NeverAttempted(w)
  BY <1>3 DEF NeverAttempted, TypeOK, InHand, TransferErrors
<1>4. CASE AcquireToken(w)
  BY <1>4, Sizes DEF AcquireToken, TypeOK, InHand
<1>5. CASE ReuseSession(w)
  BY <1>5 DEF ReuseSession, TypeOK, InHand
<1>6. CASE BuildSession(w)
  <2>1. CASE maybe_sess' = [maybe_sess EXCEPT ![w] = "Live"]
             /\ Goto(w, "sftp")
             /\ UNCHANGED <<conn_tokens, token_guard, attempt, last_err>>
    BY <1>6, <2>1 DEF BuildSession, TypeOK, InHand
  <2>2. ASSUME NEW e \in SessionErrors, AttemptFails(w, e),
               ReleaseToken(w), UNCHANGED maybe_sess
        PROVE  TypeOK'
    <3>1. e \in TransferErrors
      BY DEF TransferErrors
    <3>2. pc[w] \in InHand
      BY <1>6 DEF BuildSession, InHand
    <3>. QED
      BY <1>6, <2>2, <3>1, <3>2, AttemptFailsType, Sizes
      DEF BuildSession, ReleaseToken, TypeOK
  <2>. QED  BY <1>6, <2>1, <2>2 DEF BuildSession
<1>7. CASE OpenSftp(w)
  <2>1. conn_tokens' \in 0 .. handshake_limit /\ token_guard' \in [Workers -> BOOLEAN]
    BY <1>7, Sizes DEF OpenSftp, ReleaseToken, TypeOK
  <2>2. CASE AttemptFails(w, "SftpCreateFailed") /\ UNCHANGED maybe_sftp
    <3>1. "SftpCreateFailed" \in TransferErrors /\ pc[w] \in InHand
      BY <1>7 DEF OpenSftp, TransferErrors, InHand
    <3>. QED
      BY <1>7, <2>1, <2>2, <3>1, AttemptFailsType DEF OpenSftp, TypeOK
  <2>3. CASE maybe_sftp' = [maybe_sftp EXCEPT ![w] = TRUE]
             /\ Goto(w, "work") /\ UNCHANGED <<attempt, last_err>>
    BY <1>7, <2>1, <2>3 DEF OpenSftp, TypeOK, InHand
  <2>. QED  BY <1>7, <2>2, <2>3 DEF OpenSftp
<1>8. CASE UploadDir(w)
  <2>1. entry[w] \in Entries
    BY <1>8 DEF UploadDir, TypeOK, InHand
  <2>2. created_dirs' \in [Workers -> SUBSET RemoteDirs] /\ remote_dirs' \subseteq RemoteDirs
    BY <1>8, <2>1 DEF UploadDir, DirReady, DirFails, TypeOK, RemoteDirs
  <2>3. failures' \in [Entries -> Nat]
    BY <1>8, <2>1 DEF UploadDir, TypeOK
  <2>. QED
    BY <1>8, <2>2, <2>3 DEF UploadDir, TypeOK, NoEntry, Entries, InHand
<1>9. CASE MakeParent(w)
  <2>1. entry[w] \in Entries /\ pc[w] \in InHand
    BY <1>9 DEF MakeParent, TypeOK, InHand
  <2>2. created_dirs' \in [Workers -> SUBSET RemoteDirs] /\ remote_dirs' \subseteq RemoteDirs
    BY <1>9, <2>1 DEF MakeParent, DirReady, DirFails, TypeOK, RemoteDirs
  <2>3. CASE Goto(w, "open") /\ UNCHANGED <<attempt, last_err>>
    BY <1>9, <2>2, <2>3 DEF MakeParent, TypeOK, InHand
  <2>4. CASE AttemptFails(w, "CreateRemoteDirFailed")
    <3>1. "CreateRemoteDirFailed" \in TransferErrors
      BY DEF TransferErrors
    <3>. QED
      BY <1>9, <2>1, <2>2, <2>4, <3>1, AttemptFailsType DEF MakeParent, TypeOK
  <2>. QED  BY <1>9, <2>3, <2>4 DEF MakeParent
<1>10. CASE OpenFile(w)
  <2>1. entry[w] \in Entries /\ pc[w] \in InHand
    BY <1>10 DEF OpenFile, TypeOK, InHand
  <2>2. /\ remote_file' \in [Entries -> Nat \union {Absent}]
        /\ pb_slots' \in 0 .. PbSlots
        /\ has_pb_slot' \in [Workers -> BOOLEAN]
    BY <1>10, <2>1, SizesAssumption DEF OpenFile, TypeOK
  <2>3. CASE Goto(w, "stream") /\ UNCHANGED <<attempt, last_err>>
    BY <1>10, <2>2, <2>3 DEF OpenFile, TypeOK, InHand
  <2>4. ASSUME NEW e \in IoErrors, AttemptFails(w, e)
        PROVE  TypeOK'
    <3>1. e \in TransferErrors
      BY DEF TransferErrors
    <3>. QED
      BY <1>10, <2>1, <2>2, <2>4, <3>1, AttemptFailsType DEF OpenFile, TypeOK
  <2>. QED  BY <1>10, <2>3, <2>4 DEF OpenFile
<1>11. CASE WriteChunk(w)
  BY <1>11 DEF WriteChunk, TypeOK, Absent
<1>12. CASE StreamFails(w)
  <2>1. PICK e \in IoErrors : AttemptFails(w, e)
    BY <1>12 DEF StreamFails
  <2>2. e \in TransferErrors /\ pc[w] \in InHand
    BY <1>12 DEF StreamFails, TransferErrors, InHand
  <2>. QED
    BY <1>12, <2>1, <2>2, AttemptFailsType DEF StreamFails, TypeOK
<1>13. CASE EndOfFile(w)
  <2>1. /\ pb_slots' \in 0 .. PbSlots
        /\ has_pb_slot' \in [Workers -> BOOLEAN]
    BY <1>13, SizesAssumption DEF EndOfFile, finish_and_release_pb, TypeOK
  <2>2. /\ pc' = [pc EXCEPT ![w] = "recv"]
        /\ entry' = [entry EXCEPT ![w] = NoEntry]
        /\ attempt' = [attempt EXCEPT ![w] = 0]
        /\ UNCHANGED <<mainVars, chanVars, tokenVars, remoteVars, sessVars,
                       last_err, created_dirs>>
    BY <1>13 DEF EndOfFile
  <2>. QED  BY <2>1, <2>2 DEF TypeOK, NoEntry, Entries, InHand
<1>14. CASE ReportFailure(w)
  <2>1. entry[w] \in Entries
    BY <1>14 DEF ReportFailure, TypeOK, InHand
  <2>2. /\ failures' \in [Entries -> Nat]
        /\ conn_tokens' \in 0 .. handshake_limit
        /\ token_guard' \in [Workers -> BOOLEAN]
        /\ pb_slots' \in 0 .. PbSlots
        /\ has_pb_slot' \in [Workers -> BOOLEAN]
    BY <1>14, <2>1, Sizes, SizesAssumption
    DEF ReportFailure, ReleaseToken, finish_and_release_pb, TypeOK
  <2>3. /\ maybe_sess' \in [Workers -> {"None", "Live", "Dead"}]
        /\ maybe_sftp' \in [Workers -> BOOLEAN]
    BY <1>14 DEF ReportFailure, reset_session_and_sftp, TypeOK
  <2>4. connection_error_streak' \in [Workers -> 0 .. 1]
    BY <1>14 DEF ReportFailure, TypeOK
  <2>5. /\ pc' = [pc EXCEPT ![w] = "recv"]
        /\ entry' = [entry EXCEPT ![w] = NoEntry]
        /\ attempt' = [attempt EXCEPT ![w] = 0]
        /\ last_err' = [last_err EXCEPT ![w] = NoError]
        /\ UNCHANGED <<mainVars, received, metrics, remoteVars, created_dirs>>
    BY <1>14 DEF ReportFailure
  <2>. QED
    BY <2>2, <2>3, <2>4, <2>5 DEF TypeOK, NoEntry, Entries, InHand
<1>15. CASE SendMetrics(w)
  BY <1>15, Sizes DEF SendMetrics, TypeOK, InHand
<1>16. CASE ConnectionDrops(w)
  BY <1>16 DEF ConnectionDrops, TypeOK
<1>. QED
  BY <1>1, <1>2, <1>3, <1>4, <1>5, <1>6, <1>7, <1>8, <1>9, <1>10, <1>11,
     <1>12, <1>13, <1>14, <1>15, <1>16
  DEF WorkerStep

LEMMA StepType == TypeOK /\ [Next]_vars => TypeOK'
<1>1. ASSUME TypeOK, Next PROVE TypeOK'
  <2>1. CASE MainStep
    BY <1>1, <2>1, MainType
  <2>2. CASE \E w \in Workers : WorkerStep(w) \/ ConnectionDrops(w)
    BY <1>1, <2>2, WorkerType
  <2>3. CASE Finished
    BY <1>1, <2>3 DEF Finished, TypeOK, vars
  <2>. QED  BY <1>1, <2>1, <2>2, <2>3 DEF Next
<1>2. ASSUME TypeOK, UNCHANGED vars PROVE TypeOK'
  BY <1>2 DEF TypeOK, vars
<1>. QED  BY <1>1, <1>2

\* Every variable keeps its type, the bounds on the counters and channels
\* included, for every batch and number of workers.
THEOREM TypeCorrect == Spec => []TypeOK
BY InitType, StepType, PTL DEF Spec
-----------------------------------------------------------------------------
\* Counting the workers that hold something.

Count(f) == Cardinality({v \in Workers : f[v]})

LEMMA CountChange ==
  ASSUME NEW f \in [Workers -> BOOLEAN], NEW w \in Workers, NEW b \in BOOLEAN
  PROVE  /\ Count(f) \in Nat
         /\ f[w] => Count(f) > 0
         /\ f[w] = b => Count([f EXCEPT ![w] = b]) = Count(f)
         /\ ~f[w] /\ b => Count([f EXCEPT ![w] = b]) = Count(f) + 1
         /\ f[w] /\ ~b => Count([f EXCEPT ![w] = b]) = Count(f) - 1
<1>. DEFINE S == {v \in Workers : f[v]}
            T == {v \in Workers : [f EXCEPT ![w] = b][v]}
<1>1. IsFiniteSet(S)
  BY Sizes, FS_Subset
<1>2. Cardinality(S) \in Nat
  BY <1>1, FS_CardinalityType
<1>3. f[w] => Cardinality(S) > 0
  BY <1>1, <1>2, FS_EmptySet
<1>4. f[w] = b => T = S
  OBVIOUS
<1>5. ~f[w] /\ b => T = S \union {w} /\ w \notin S
  OBVIOUS
<1>6. f[w] /\ ~b => T = S \ {w} /\ w \in S
  OBVIOUS
<1>7. w \notin S => Cardinality(S \union {w}) = Cardinality(S) + 1
  BY <1>1, FS_AddElement
<1>8. w \in S => Cardinality(S \ {w}) = Cardinality(S) - 1
  BY <1>1, FS_RemoveElement
<1>. QED
  BY <1>2, <1>3, <1>4, <1>5, <1>6, <1>7, <1>8 DEF Count

\* Returning a token keeps the sum and leaves the worker without one.
LEMMA ReleaseTokenCount ==
  ASSUME TypeOK, NEW w \in Workers, ReleaseToken(w)
  PROVE  /\ conn_tokens' + Count(token_guard') = conn_tokens + Count(token_guard)
         /\ \A v \in Workers : token_guard'[v] <=> token_guard[v] /\ v # w
<1>1. token_guard \in [Workers -> BOOLEAN] /\ conn_tokens \in Nat
  BY Sizes DEF TypeOK
<1>2. token_guard' = [token_guard EXCEPT ![w] = FALSE]
  BY DEF ReleaseToken
<1>3. /\ Count(token_guard) \in Nat
      /\ ~token_guard[w] => Count(token_guard') = Count(token_guard)
      /\ token_guard[w] => Count(token_guard') = Count(token_guard) - 1
  BY <1>1, <1>2, CountChange
<1>4. conn_tokens' = IF token_guard[w] THEN conn_tokens + 1 ELSE conn_tokens
  BY DEF ReleaseToken
<1>5. \A v \in Workers : token_guard'[v] <=> token_guard[v] /\ v # w
  BY <1>1, <1>2
<1>6. CASE token_guard[w]
  BY <1>1, <1>3, <1>4, <1>5, <1>6
<1>7. CASE ~token_guard[w]
  BY <1>1, <1>3, <1>4, <1>5, <1>7
<1>. QED  BY <1>6, <1>7
-----------------------------------------------------------------------------
\* Connection tokens.

LEMMA AttemptFailsPc ==
  ASSUME NEW w, NEW e, AttemptFails(w, e)
  PROVE  \/ pc' = [pc EXCEPT ![w] = "attempt"]
         \/ pc' = [pc EXCEPT ![w] = "failed"]
BY DEF AttemptFails

\* A step of w that touches no token, from outside the connecting states.
LEMMA TokenFrame ==
  ASSUME TypeOK, TokenDiscipline, NEW w \in Workers, UNCHANGED tokenVars,
         pc[w] \notin {"session", "sftp"},
         NEW x, x # "session", pc' = [pc EXCEPT ![w] = x]
  PROVE  TokenDiscipline'
BY DEF TypeOK, TokenDiscipline, TokensConserved, TokenOnlyWhileConnecting, Holders

\* A step of w that returns its token and goes on to a state without one.
LEMMA TokenReleased ==
  ASSUME TypeOK, TokenDiscipline, NEW w \in Workers, ReleaseToken(w),
         NEW x, x # "session", pc' = [pc EXCEPT ![w] = x]
  PROVE  TokenDiscipline'
<1>1. conn_tokens' + Count(token_guard') = handshake_limit
  BY ReleaseTokenCount DEF TokenDiscipline, TokensConserved, Holders, Count
<1>2. TokensConserved'
  BY <1>1 DEF TokensConserved, Holders, Count
<1>3. TokenOnlyWhileConnecting'
  BY ReleaseTokenCount DEF TypeOK, TokenDiscipline, TokenOnlyWhileConnecting
<1>. QED  BY <1>2, <1>3 DEF TokenDiscipline

LEMMA InitTokens == Init => TokenDiscipline
<1>. SUFFICES ASSUME Init PROVE TokenDiscipline
  OBVIOUS
<1>1. Holders = {}
  BY DEF Init, Holders
<1>2. TokensConserved
  BY <1>1, FS_EmptySet, Sizes DEF Init, TokensConserved
<1>. QED  BY <1>2 DEF Init, TokenDiscipline, TokenOnlyWhileConnecting

LEMMA WorkerTokens ==
  ASSUME TypeOK, TokenDiscipline, NEW w \in Workers,
         WorkerStep(w) \/ ConnectionDrops(w)
  PROVE  TokenDiscipline'
<1>1. CASE Recv(w)
  BY <1>1, TokenFrame DEF Recv
<1>2. CASE RecvDisconnected(w)
  BY <1>2, TokenFrame DEF RecvDisconnected
<1>3. CASE NeverAttempted(w)
  BY <1>3, TokenFrame DEF NeverAttempted
<1>4. CASE AcquireToken(w)
  <2>1. /\ token_guard \in [Workers -> BOOLEAN] /\ ~token_guard[w]
        /\ token_guard' = [token_guard EXCEPT ![w] = TRUE]
        /\ conn_tokens \in Nat /\ conn_tokens' = conn_tokens - 1
        /\ pc' = [pc EXCEPT ![w] = "session"]
    BY <1>4, Sizes DEF AcquireToken, TypeOK
  <2>2. Count(token_guard) \in Nat /\ Count(token_guard') = Count(token_guard) + 1
    BY <2>1, CountChange
  <2>3. TokensConserved'
    BY <2>1, <2>2 DEF TokenDiscipline, TokensConserved, Holders, Count
  <2>4. TokenOnlyWhileConnecting'
    BY <2>1 DEF TypeOK, TokenDiscipline, TokenOnlyWhileConnecting
  <2>. QED  BY <2>3, <2>4 DEF TokenDiscipline
<1>5. CASE ReuseSession(w)
  BY <1>5, TokenFrame DEF ReuseSession
<1>6. CASE BuildSession(w)
  <2>1. CASE pc' = [pc EXCEPT ![w] = "sftp"] /\ UNCHANGED tokenVars
    BY <1>6, <2>1
    DEF BuildSession, TypeOK, TokenDiscipline, TokensConserved,
        TokenOnlyWhileConnecting, Holders
  <2>2. ASSUME NEW e \in SessionErrors, AttemptFails(w, e), ReleaseToken(w)
        PROVE  TokenDiscipline'
    BY <2>2, AttemptFailsPc, TokenReleased
  <2>. QED  BY <1>6, <2>1, <2>2 DEF BuildSession
<1>7. CASE OpenSftp(w)
  <2>1. \E x \in {"attempt", "failed", "work"} : pc' = [pc EXCEPT ![w] = x]
    BY <1>7, AttemptFailsPc DEF OpenSftp
  <2>2. ReleaseToken(w)
    BY <1>7 DEF OpenSftp
  <2>. QED  BY <2>1, <2>2, TokenReleased
<1>8. CASE UploadDir(w)
  BY <1>8, TokenFrame DEF UploadDir
<1>9. CASE MakeParent(w)
  <2>1. \E x \in {"attempt", "failed", "open"} : pc' = [pc EXCEPT ![w] = x]
    BY <1>9, AttemptFailsPc DEF MakeParent
  <2>. QED  BY <1>9, <2>1, TokenFrame DEF MakeParent
<1>10. CASE OpenFile(w)
  <2>1. \E x \in {"attempt", "failed", "stream"} : pc' = [pc EXCEPT ![w] = x]
    BY <1>10, AttemptFailsPc DEF OpenFile
  <2>. QED  BY <1>10, <2>1, TokenFrame DEF OpenFile
<1>11. CASE WriteChunk(w)
  BY <1>11 DEF WriteChunk, TokenDiscipline, TokensConserved,
               TokenOnlyWhileConnecting, Holders
<1>12. CASE StreamFails(w)
  <2>1. \E x \in {"attempt", "failed"} : pc' = [pc EXCEPT ![w] = x]
    BY <1>12, AttemptFailsPc DEF StreamFails
  <2>. QED  BY <1>12, <2>1, TokenFrame DEF StreamFails
<1>13. CASE EndOfFile(w)
  BY <1>13, TokenFrame DEF EndOfFile
<1>14. CASE ReportFailure(w)
  BY <1>14, TokenReleased DEF ReportFailure
<1>15. CASE SendMetrics(w)
  BY <1>15, TokenFrame DEF SendMetrics
<1>16. CASE ConnectionDrops(w)
  BY <1>16 DEF ConnectionDrops, TokenDiscipline, TokensConserved,
               TokenOnlyWhileConnecting, Holders
<1>. QED
  BY <1>1, <1>2, <1>3, <1>4, <1>5, <1>6, <1>7, <1>8, <1>9, <1>10, <1>11,
     <1>12, <1>13, <1>14, <1>15, <1>16
  DEF WorkerStep

LEMMA MainUnchanged ==
  ASSUME MainStep \/ Finished \/ UNCHANGED vars
  PROVE  UNCHANGED <<tokenVars, slotVars, remoteVars, sessVars, taskVars,
                     created_dirs, max_retries, received>>
BY DEF MainStep, Produce, CloseQueue, JoinWorkers, Finalize, Finished, vars

LEMMA StepTokens == TypeOK /\ TokenDiscipline /\ [Next]_vars => TokenDiscipline'
<1>1. ASSUME TypeOK, TokenDiscipline,
             NEW w \in Workers, WorkerStep(w) \/ ConnectionDrops(w)
      PROVE  TokenDiscipline'
  BY <1>1, WorkerTokens
<1>2. ASSUME TokenDiscipline, MainStep \/ Finished \/ UNCHANGED vars
      PROVE  TokenDiscipline'
  BY <1>2, MainUnchanged
  DEF TokenDiscipline, TokensConserved, TokenOnlyWhileConnecting, Holders
<1>. QED  BY <1>1, <1>2 DEF Next

\* The token bucket never leaks: see TokenDiscipline.
THEOREM TokensSafe == Spec => []TokenDiscipline
<1>1. TypeOK /\ TokenDiscipline /\ [Next]_vars => TokenDiscipline'
  BY StepTokens
<1>. QED  BY <1>1, InitTokens, TypeCorrect, PTL DEF Spec
=============================================================================
