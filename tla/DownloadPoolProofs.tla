------------------------- MODULE DownloadPoolProofs -------------------------
(***************************************************************************)
(* Theorems about DownloadPool for every remote tree, number of workers,   *)
(* channel size, number of progress-bar slots and retry budget.            *)
(***************************************************************************)
EXTENDS DownloadPool, FiniteSetTheorems, TLAPS

USE DEF Goto, SendFailure,
        inputVars, mainVars, chanVars, slotVars, sessVars, taskVars

LEMMA Sizes ==
  /\ workers \in Nat \ {0}
  /\ IsFiniteSet(Workers)
<1>1. workers \in Nat \ {0}
  BY ParametersAssumption DEF workers, calc_download_workers, min
<1>2. IsFiniteSet(Workers)
  BY <1>1, FS_Interval DEF Workers
<1>. QED  BY <1>1, <1>2
-----------------------------------------------------------------------------
\* Sequences used as queues.

Els(q) == {q[i] : i \in DOMAIN q}
Distinct(q) == \A i, j \in DOMAIN q : q[i] = q[j] => i = j

LEMMA AppendEls ==
  ASSUME NEW S, NEW q \in Seq(S), NEW x
  PROVE  /\ Els(Append(q, x)) = Els(q) \union {x}
         /\ Distinct(q) /\ x \notin Els(q) => Distinct(Append(q, x))
<1>1. /\ DOMAIN Append(q, x) = 1 .. Len(q) + 1
      /\ \A i \in 1 .. Len(q) : Append(q, x)[i] = q[i]
      /\ Append(q, x)[Len(q) + 1] = x
      /\ DOMAIN q = 1 .. Len(q) /\ Len(q) \in Nat
  OBVIOUS
<1>2. 1 .. Len(q) + 1 = (1 .. Len(q)) \union {Len(q) + 1}
  BY <1>1
<1>3. Els(Append(q, x)) = Els(q) \union {x}
  <2>1. \A i \in 1 .. Len(q) : q[i] = Append(q, x)[i] /\ i \in 1 .. Len(q) + 1
    BY <1>1
  <2>2. Els(q) \subseteq Els(Append(q, x))
    BY <1>1, <2>1, Zenon DEF Els
  <2>3. x \in Els(Append(q, x))
    <3>1. Len(q) + 1 \in 1 .. Len(q) + 1
      BY <1>1
    <3>. QED  BY <1>1, <3>1, Zenon DEF Els
  <2>4. ASSUME NEW y \in Els(Append(q, x)) PROVE y \in Els(q) \/ y = x
    <3>1. PICK i \in 1 .. Len(q) + 1 : y = Append(q, x)[i]
      BY <1>1, Zenon DEF Els
    <3>2. CASE i \in 1 .. Len(q)
      BY <1>1, <3>1, <3>2, Zenon DEF Els
    <3>. QED  BY <1>1, <1>2, <3>1, <3>2
  <2>. QED  BY <2>2, <2>3, <2>4, Zenon
<1>4. ASSUME Distinct(q), x \notin Els(q) PROVE Distinct(Append(q, x))
  <2>. SUFFICES ASSUME NEW i \in 1 .. Len(q) + 1, NEW j \in 1 .. Len(q) + 1,
                       Append(q, x)[i] = Append(q, x)[j]
                PROVE  i = j
    BY <1>1 DEF Distinct
  <2>1. \A k \in 1 .. Len(q) : Append(q, x)[k] = q[k] /\ q[k] # x
    BY <1>1, <1>4 DEF Els
  <2>2. CASE i \in 1 .. Len(q) /\ j \in 1 .. Len(q)
    BY <1>1, <1>4, <2>1, <2>2 DEF Distinct
  <2>3. CASE i = Len(q) + 1 \/ j = Len(q) + 1
    BY <1>1, <1>2, <2>1, <2>3
  <2>. QED  BY <1>2, <2>2, <2>3
<1>. QED  BY <1>3, <1>4

LEMMA TailEls ==
  ASSUME NEW S, NEW q \in Seq(S), q # <<>>
  PROVE  /\ Els(q) = {Head(q)} \union Els(Tail(q))
         /\ Distinct(q) => Distinct(Tail(q)) /\ Head(q) \notin Els(Tail(q))
<1>1. /\ DOMAIN q = 1 .. Len(q) /\ Len(q) \in Nat \ {0}
      /\ DOMAIN Tail(q) = 1 .. Len(q) - 1
      /\ \A i \in 1 .. Len(q) - 1 : Tail(q)[i] = q[i + 1]
      /\ Head(q) = q[1]
  OBVIOUS
<1>2. ASSUME NEW x \in Els(q) PROVE x \in {Head(q)} \union Els(Tail(q))
  <2>1. PICK i \in 1 .. Len(q) : x = q[i]
    BY <1>1, <1>2 DEF Els
  <2>2. CASE i = 1
    BY <1>1, <2>1, <2>2
  <2>3. CASE i # 1
    <3>1. i - 1 \in 1 .. Len(q) - 1 /\ (i - 1) + 1 = i
      BY <1>1, <2>1, <2>3
    <3>2. x = Tail(q)[i - 1]
      BY <1>1, <2>1, <3>1
    <3>. QED  BY <1>1, <3>1, <3>2 DEF Els
  <2>. QED  BY <2>2, <2>3
<1>3. ASSUME NEW x \in {Head(q)} \union Els(Tail(q)) PROVE x \in Els(q)
  <2>1. CASE x = Head(q)
    BY <1>1, <2>1 DEF Els
  <2>2. CASE x \in Els(Tail(q))
    <3>1. PICK i \in 1 .. Len(q) - 1 : x = Tail(q)[i]
      BY <1>1, <2>2 DEF Els
    <3>2. i + 1 \in 1 .. Len(q) /\ x = q[i + 1]
      BY <1>1, <3>1
    <3>. QED  BY <1>1, <3>2 DEF Els
  <2>. QED  BY <1>3, <2>1, <2>2
<1>4. ASSUME Distinct(q)
      PROVE  Distinct(Tail(q)) /\ Head(q) \notin Els(Tail(q))
  <2>1. ASSUME NEW i \in 1 .. Len(q) - 1, NEW j \in 1 .. Len(q) - 1,
               Tail(q)[i] = Tail(q)[j]
        PROVE  i = j
    <3>1. q[i + 1] = q[j + 1] /\ i + 1 \in 1 .. Len(q) /\ j + 1 \in 1 .. Len(q)
      BY <1>1, <2>1
    <3>2. i + 1 = j + 1
      BY <1>1, <1>4, <3>1 DEF Distinct
    <3>. QED  BY <3>2
  <2>2. ASSUME NEW i \in 1 .. Len(q) - 1 PROVE Tail(q)[i] # Head(q)
    <3>1. i + 1 \in 1 .. Len(q) /\ 1 \in 1 .. Len(q) /\ i + 1 # 1
      BY <1>1
    <3>2. q[i + 1] # q[1]
      BY <1>1, <1>4, <3>1 DEF Distinct
    <3>. QED  BY <1>1, <3>2
  <2>. QED  BY <1>1, <2>1, <2>2 DEF Distinct, Els
<1>. QED  BY <1>2, <1>3, <1>4

LEMMA DistinctCount ==
  ASSUME NEW S, NEW q \in Seq(S), Distinct(q)
  PROVE  Cardinality(Els(q)) = Len(q)
<1>1. q \in [1 .. Len(q) -> Els(q)] /\ Len(q) \in Nat /\ DOMAIN q = 1 .. Len(q)
  BY DEF Els
<1>2. q \in Bijection(1 .. Len(q), Els(q))
  BY <1>1 DEF Distinct, Els, Bijection, Injection, Surjection, IsInjective
<1>. QED  BY <1>1, <1>2, FS_CountingElements DEF ExistsBijection
-----------------------------------------------------------------------------
\* Types and slots.  That pb_slots stays within PbSlots needs both: a slot is
\* returned only by a worker that holds one.

Base == TypeOK /\ SlotDiscipline

LEMMA SlotCount ==
  ASSUME TypeOK, NEW w \in Workers, NEW b \in BOOLEAN,
         has_pb_slot' = [has_pb_slot EXCEPT ![w] = b]
  PROVE  /\ Cardinality(SlotHolders) \in Nat
         /\ has_pb_slot[w] => Cardinality(SlotHolders) > 0
         /\ has_pb_slot[w] = b =>
              Cardinality(SlotHolders') = Cardinality(SlotHolders)
         /\ ~has_pb_slot[w] /\ b =>
              Cardinality(SlotHolders') = Cardinality(SlotHolders) + 1
         /\ has_pb_slot[w] /\ ~b =>
              Cardinality(SlotHolders') = Cardinality(SlotHolders) - 1
<1>. DEFINE H == SlotHolders
<1>0. has_pb_slot \in [Workers -> BOOLEAN]
  BY DEF TypeOK
<1>1. IsFiniteSet(H)
  BY Sizes, FS_Subset DEF SlotHolders
<1>2. Cardinality(H) \in Nat
  BY <1>1, FS_CardinalityType
<1>3. has_pb_slot[w] => Cardinality(H) > 0
  <2>1. has_pb_slot[w] => H # {}
    BY DEF SlotHolders
  <2>. QED  BY <1>1, <1>2, <2>1, FS_EmptySet
<1>4. has_pb_slot[w] = b => H' = H
  BY <1>0 DEF SlotHolders
<1>5. ~has_pb_slot[w] /\ b => H' = H \union {w} /\ w \notin H
  BY <1>0 DEF SlotHolders
<1>6. has_pb_slot[w] /\ ~b => H' = H \ {w} /\ w \in H
  BY <1>0 DEF SlotHolders
<1>7. w \notin H => Cardinality(H \union {w}) = Cardinality(H) + 1
  BY <1>1, FS_AddElement
<1>8. w \in H => Cardinality(H \ {w}) = Cardinality(H) - 1
  BY <1>1, FS_RemoveElement
<1>. QED
  BY <1>2, <1>3, <1>4, <1>5, <1>6, <1>7, <1>8

\* Done with an entry: what the worker held goes back, and nothing else.
LEMMA EntryDoneBase ==
  ASSUME Base, NEW w \in Workers, EntryDone(w)
  PROVE  /\ pb_slots' \in 0 .. PbSlots
         /\ has_pb_slot' \in [Workers -> BOOLEAN]
         /\ entry' = [entry EXCEPT ![w] = NoEntry]
         /\ attempt' = [attempt EXCEPT ![w] = 0]
         /\ pc' = [pc EXCEPT ![w] = "recv"]
         /\ SlotDiscipline'
<1>1. /\ has_pb_slot \in [Workers -> BOOLEAN] /\ pb_slots \in 0 .. PbSlots
      /\ pc \in [Workers -> InHand \union {"recv", "metrics", "exited"}]
      /\ PbSlots \in Nat
      /\ pb_slots + Cardinality(SlotHolders) = PbSlots
      /\ \A v \in Workers : has_pb_slot[v] => pc[v] \in {"pre", "stream"}
  BY ParametersAssumption DEF Base, TypeOK, SlotDiscipline
<1>2. /\ has_pb_slot' = [has_pb_slot EXCEPT ![w] = FALSE]
      /\ pb_slots' = IF has_pb_slot[w] THEN pb_slots + 1 ELSE pb_slots
  BY DEF EntryDone, finish_and_release_pb
<1>3. /\ Cardinality(SlotHolders) \in Nat
      /\ has_pb_slot[w] => Cardinality(SlotHolders) > 0
      /\ ~has_pb_slot[w] => Cardinality(SlotHolders') = Cardinality(SlotHolders)
      /\ has_pb_slot[w] => Cardinality(SlotHolders') = Cardinality(SlotHolders) - 1
  BY <1>1, <1>2, SlotCount DEF Base
<1>4. /\ entry' = [entry EXCEPT ![w] = NoEntry]
      /\ attempt' = [attempt EXCEPT ![w] = 0]
      /\ pc' = [pc EXCEPT ![w] = "recv"]
  BY DEF EntryDone
<1>5. pb_slots' + Cardinality(SlotHolders') = PbSlots /\ pb_slots' \in 0 .. PbSlots
  BY <1>1, <1>2, <1>3
<1>6. \A v \in Workers : has_pb_slot'[v] => pc'[v] \in {"pre", "stream"}
  BY <1>1, <1>2, <1>4
<1>. QED  BY <1>1, <1>2, <1>4, <1>5, <1>6 DEF SlotDiscipline

\* The slots are as they were: a step that leaves them alone keeps SlotDiscipline
\* when its worker holds none, or has its file still in hand.
LEMMA SlotFrame ==
  ASSUME Base, NEW w \in Workers, NEW x, UNCHANGED slotVars,
         pc' = [pc EXCEPT ![w] = x],
         pc[w] \in {"pre", "stream"} => x \in {"pre", "stream"}
  PROVE  SlotDiscipline'
BY DEF Base, TypeOK, SlotDiscipline, SlotHolders

LEMMA InitBase == Init => Base
<1>. SUFFICES ASSUME Init PROVE Base
  OBVIOUS
<1>1. cap \in Nat
  BY ParametersAssumption DEF cap, max
<1>2. local \in [Nodes \union {Root} -> Contents]
  BY ParametersAssumption, TreeAssumption DEF Init, Contents
<1>3. TypeOK
  BY <1>1, <1>2, Sizes, ParametersAssumption DEF Init, TypeOK, InHand
<1>4. SlotHolders = {}
  BY DEF Init, SlotHolders
<1>5. SlotDiscipline
  BY <1>4, FS_EmptySet, ParametersAssumption DEF Init, SlotDiscipline
<1>. QED  BY <1>3, <1>5 DEF Base

LEMMA MainType == TypeOK /\ MainStep => TypeOK'
<1>. SUFFICES ASSUME TypeOK, MainStep PROVE TypeOK'
  OBVIOUS
<1>1. CASE StartEnumeration
  <2>1. listing' \subseteq Nodes /\ unread' \subseteq Nodes \union {Root}
    BY <1>1, TreeAssumption, ParametersAssumption
    DEF StartEnumeration, TypeOK, Recursive, AllRequests
  <2>2. walk_q' \in Seq(Nodes \union {Root})
    <3>1. walk_q \in Seq(Nodes \union {Root}) /\ <<>> \in Seq(Nodes \union {Root})
      BY DEF TypeOK
    <3>2. <<Root>> \in Seq(Nodes \union {Root})
      OBVIOUS
    <3>3. walk_q' \in {<<Root>>, <<>>, walk_q}
      BY <1>1 DEF StartEnumeration
    <3>. QED  BY <3>1, <3>2, <3>3
  <2>3. /\ main_pc' = "walk"
        /\ UNCHANGED <<inputVars, discovered, report, queue, chanVars, slotVars,
                       local, sessVars, taskVars>>
    BY <1>1 DEF StartEnumeration
  <2>. QED  BY <2>1, <2>2, <2>3 DEF TypeOK
<1>2. CASE ReadDir
  <2>1. Tail(walk_q) \in Seq(Nodes \union {Root}) /\ Head(walk_q) \in Nodes \union {Root}
    BY <1>2 DEF ReadDir, TypeOK
  <2>. QED  BY <1>2, <2>1 DEF ReadDir, TypeOK
<1>3. ASSUME NEW n \in Nodes, Push(n) PROVE TypeOK'
  <2>1. queue \in Seq(discovered') /\ n \in discovered'
    BY <1>3 DEF Push, TypeOK
  <2>2. queue' \in Seq(discovered') /\ Len(queue') <= cap
    BY <1>3, <2>1, ParametersAssumption DEF Push, TypeOK, cap, max
  <2>3. walk_q' \in Seq(Nodes \union {Root})
    BY <1>3 DEF Push, TypeOK
  <2>. QED  BY <1>3, <2>2, <2>3 DEF Push, TypeOK
<1>4. CASE CloseQueue
  BY <1>4 DEF CloseQueue, TypeOK
<1>5. CASE GlobNoMatches
  BY <1>5 DEF GlobNoMatches, TypeOK
<1>6. CASE JoinAndFinalize
  BY <1>6, Sizes DEF JoinAndFinalize, TypeOK
<1>. QED  BY <1>1, <1>2, <1>3, <1>4, <1>5, <1>6 DEF MainStep

\* The end of an entry: everything but the local file system, the failures and
\* the session is as EntryDoneBase says.
LEMMA EntryDoneType ==
  ASSUME Base, NEW w \in Workers, EntryDone(w),
         UNCHANGED <<inputVars, mainVars, queue, metrics>>,
         failures' \in [Nodes -> Nat],
         local' \in [Nodes \union {Root} -> Contents],
         maybe_sess' \in [Workers -> {"None", "Live", "Dead"}],
         maybe_sftp' \in [Workers -> BOOLEAN],
         wasted' \in [Workers -> Nat]
  PROVE  Base'
<1>1. TypeOK
  BY DEF Base
<1>2. /\ pb_slots' \in 0 .. PbSlots
      /\ has_pb_slot' \in [Workers -> BOOLEAN]
      /\ entry' = [entry EXCEPT ![w] = NoEntry]
      /\ attempt' = [attempt EXCEPT ![w] = 0]
      /\ pc' = [pc EXCEPT ![w] = "recv"]
      /\ SlotDiscipline'
  BY EntryDoneBase
<1>3. /\ entry' \in [Workers -> discovered' \union {NoEntry}]
      /\ pc' \in [Workers -> InHand \union {"recv", "metrics", "exited"}]
      /\ attempt' \in [Workers -> Nat]
      /\ \A v \in Workers : entry'[v] # NoEntry <=> pc'[v] \in InHand
  BY <1>1, <1>2 DEF TypeOK, InHand
<1>4. TypeOK'
  BY <1>1, <1>2, <1>3 DEF TypeOK
<1>. QED  BY <1>2, <1>4 DEF Base

LEMMA PathType ==
  ASSUME TypeOK, NEW w \in Workers, pc[w] \in InHand
  PROVE  /\ entry[w] \in discovered /\ entry[w] \in Nodes /\ entry[w] # NoEntry
         /\ Parent[entry[w]] \in Nodes \union {Root}
         /\ local_target(entry[w]) \in Nodes \union {Root}
         /\ entry[w] \in Contents
BY TreeAssumption DEF TypeOK, local_target, Contents

LEMMA CreateType ==
  ASSUME TypeOK, NEW p \in Nodes \union {Root}, CreateDir(p) \/ CreateDirFails(p)
  PROVE  local' \in [Nodes \union {Root} -> Contents]
<1>1. "Dir" \in Contents /\ local \in [Nodes \union {Root} -> Contents]
  BY DEF TypeOK, Contents
<1>. QED  BY <1>1 DEF CreateDir, CreateDirFails

LEMMA FailureType ==
  ASSUME TypeOK, NEW n \in Nodes, SendFailure(n) \/ UNCHANGED failures
  PROVE  failures' \in [Nodes -> Nat]
<1>1. failures \in [Nodes -> Nat] /\ failures[n] + 1 \in Nat
  BY DEF TypeOK
<1>. QED  BY <1>1

LEMMA AttemptBreaksLocal ==
  ASSUME TypeOK, NEW w \in Workers, AttemptBreaks(w)
  PROVE  local' \in [Nodes \union {Root} -> Contents]
BY PathType DEF AttemptBreaks, TypeOK, Contents, InHand

LEMMA WorkerBase ==
  ASSUME Base, NEW w \in Workers, WorkerStep(w) \/ ConnectionDrops(w)
  PROVE  Base'
<1>0. TypeOK /\ SlotDiscipline
  BY DEF Base
<1>1. CASE Recv(w)
  <2>1. Head(queue) \in discovered /\ Tail(queue) \in Seq(discovered)
        /\ Len(Tail(queue)) <= cap
    BY <1>0, <1>1, ParametersAssumption DEF Recv, TypeOK, cap, max
  <2>2. Head(queue) # NoEntry
    BY <1>0, <2>1, TreeAssumption DEF TypeOK
  <2>3. TypeOK'
    BY <1>0, <1>1, <2>1, <2>2 DEF Recv, TypeOK, InHand
  <2>4. SlotDiscipline'
    BY <1>1, SlotFrame DEF Recv
  <2>. QED  BY <2>3, <2>4 DEF Base
<1>2. CASE RecvDisconnected(w)
  <2>1. TypeOK'
    BY <1>0, <1>2 DEF RecvDisconnected, TypeOK, InHand
  <2>2. SlotDiscipline'
    BY <1>2, SlotFrame DEF RecvDisconnected
  <2>. QED  BY <2>1, <2>2 DEF Base
<1>3. CASE CheckParent(w)
  <2>1. entry[w] \in Nodes /\ entry[w] # NoEntry /\ pc[w] \in InHand
    BY <1>0, <1>3, PathType DEF CheckParent, InHand
  <2>2. CASE /\ Goto(w, IF Kind[entry[w]] = "Dir" THEN "dir" ELSE "pre")
             /\ IF Kind[entry[w]] = "File" /\ pb_slots > 0
                  THEN /\ pb_slots' = pb_slots - 1
                       /\ has_pb_slot' = [has_pb_slot EXCEPT ![w] = TRUE]
                  ELSE UNCHANGED slotVars
             /\ UNCHANGED <<failures, entry, attempt>>
    <3>1. TypeOK'
      <4>1. pb_slots' \in 0 .. PbSlots /\ has_pb_slot' \in [Workers -> BOOLEAN]
        <5>1. CASE UNCHANGED slotVars
          BY <1>0, <5>1 DEF TypeOK
        <5>2. CASE /\ pb_slots > 0 /\ pb_slots' = pb_slots - 1
                   /\ has_pb_slot' = [has_pb_slot EXCEPT ![w] = TRUE]
          BY <1>0, <5>2, ParametersAssumption DEF TypeOK
        <5>. QED  BY <2>2, <5>1, <5>2
      <4>2. UNCHANGED <<inputVars, mainVars, queue, metrics, local, sessVars>>
        BY <1>3 DEF CheckParent
      <4>3. PICK x \in {"dir", "pre"} : pc' = [pc EXCEPT ![w] = x]
        BY <2>2
      <4>4. UNCHANGED <<failures, entry, attempt>>
        BY <2>2
      <4>5. /\ pc' \in [Workers -> InHand \union {"recv", "metrics", "exited"}]
            /\ \A v \in Workers : pc'[v] \in InHand <=> pc[v] \in InHand
        BY <1>0, <2>1, <4>3 DEF TypeOK, InHand
      <4>. QED  BY <1>0, <4>1, <4>2, <4>4, <4>5 DEF TypeOK
    <3>2. CASE UNCHANGED slotVars
      <4>1. pc[w] \notin {"pre", "stream"}
        BY <1>3 DEF CheckParent
      <4>. QED  BY <2>2, <3>1, <3>2, <4>1, SlotFrame DEF Base
    <3>3. CASE /\ Kind[entry[w]] = "File"
               /\ pb_slots' = pb_slots - 1
               /\ has_pb_slot' = [has_pb_slot EXCEPT ![w] = TRUE]
      <4>1. ~has_pb_slot[w] /\ has_pb_slot \in [Workers -> BOOLEAN]
        BY <1>0, <1>3 DEF SlotDiscipline, CheckParent, TypeOK
      <4>2. /\ Cardinality(SlotHolders) \in Nat
            /\ Cardinality(SlotHolders') = Cardinality(SlotHolders) + 1
        BY <1>0, <3>3, <4>1, SlotCount
      <4>3. pb_slots' + Cardinality(SlotHolders') = PbSlots
        BY <1>0, <3>3, <4>2, ParametersAssumption DEF SlotDiscipline, TypeOK
      <4>4. \A v \in Workers : has_pb_slot'[v] => pc'[v] \in {"pre", "stream"}
        BY <1>0, <2>2, <3>3, <4>1 DEF SlotDiscipline, TypeOK
      <4>. QED  BY <3>1, <4>3, <4>4 DEF Base, SlotDiscipline
    <3>. QED  BY <2>2, <3>2, <3>3
  <2>3. CASE Goto(w, "mkparent") /\ UNCHANGED <<failures, slotVars, entry, attempt>>
    <3>1. TypeOK'
      BY <1>0, <1>3, <2>1, <2>3 DEF CheckParent, TypeOK, InHand
    <3>2. pc[w] \notin {"pre", "stream"}
      BY <1>3 DEF CheckParent
    <3>. QED  BY <2>3, <3>1, <3>2, SlotFrame DEF Base
  <2>4. CASE SendFailure(entry[w]) /\ EntryDone(w)
    <3>1. failures' \in [Nodes -> Nat]
      BY <1>0, <2>1, <2>4 DEF TypeOK
    <3>2. UNCHANGED <<inputVars, mainVars, queue, metrics, local, sessVars>>
      BY <1>3 DEF CheckParent
    <3>. QED  BY <1>0, <2>4, <3>1, <3>2, EntryDoneType DEF TypeOK
  <2>. QED  BY <1>3, <2>2, <2>3, <2>4 DEF CheckParent
<1>4. CASE MakeParent(w)
  <2>1. /\ entry[w] \in Nodes /\ entry[w] # NoEntry /\ pc[w] \in InHand
        /\ Parent[entry[w]] \in Nodes \union {Root}
    BY <1>0, <1>4, PathType DEF MakeParent, InHand
  <2>2. local' \in [Nodes \union {Root} -> Contents]
    BY <1>0, <1>4, <2>1, CreateType DEF MakeParent
  <2>3. CASE Goto(w, "parent") /\ UNCHANGED <<failures, slotVars, entry, attempt>>
    <3>1. TypeOK'
      BY <1>0, <1>4, <2>1, <2>2, <2>3 DEF MakeParent, TypeOK, InHand
    <3>2. pc[w] \notin {"pre", "stream"}
      BY <1>4 DEF MakeParent
    <3>. QED  BY <2>3, <3>1, <3>2, SlotFrame DEF Base
  <2>4. CASE SendFailure(entry[w]) /\ EntryDone(w)
    <3>1. failures' \in [Nodes -> Nat]
      BY <1>0, <2>1, <2>4 DEF TypeOK
    <3>2. UNCHANGED <<inputVars, mainVars, queue, metrics, sessVars>>
      BY <1>4 DEF MakeParent
    <3>. QED  BY <1>0, <2>2, <2>4, <3>1, <3>2, EntryDoneType DEF TypeOK
  <2>. QED  BY <1>4, <2>3, <2>4 DEF MakeParent
<1>5. CASE CheckDir(w)
  <2>1. entry[w] \in Nodes /\ entry[w] # NoEntry /\ pc[w] \in InHand
    BY <1>0, <1>5, PathType DEF CheckDir, InHand
  <2>2. CASE Goto(w, "mkdir") /\ UNCHANGED <<failures, slotVars, entry, attempt>>
    <3>1. TypeOK'
      BY <1>0, <1>5, <2>1, <2>2 DEF CheckDir, TypeOK, InHand
    <3>2. pc[w] \notin {"pre", "stream"}
      BY <1>5 DEF CheckDir
    <3>. QED  BY <2>2, <3>1, <3>2, SlotFrame DEF Base
  <2>3. CASE EntryDone(w) /\ (SendFailure(entry[w]) \/ UNCHANGED failures)
    <3>1. failures' \in [Nodes -> Nat]
      BY <1>0, <2>1, <2>3, FailureType
    <3>2. UNCHANGED <<inputVars, mainVars, queue, metrics, local, sessVars>>
      BY <1>5 DEF CheckDir
    <3>. QED  BY <1>0, <2>3, <3>1, <3>2, EntryDoneType DEF TypeOK
  <2>. QED  BY <1>5, <2>2, <2>3 DEF CheckDir
<1>6. CASE MakeDir(w)
  <2>1. /\ entry[w] \in Nodes
        /\ local_target(entry[w]) \in Nodes \union {Root}
    BY <1>0, <1>6, PathType DEF MakeDir, InHand
  <2>2. local' \in [Nodes \union {Root} -> Contents]
    BY <1>0, <1>6, <2>1, CreateType DEF MakeDir
  <2>3. failures' \in [Nodes -> Nat]
    BY <1>0, <1>6, <2>1, FailureType DEF MakeDir
  <2>4. EntryDone(w) /\ UNCHANGED <<inputVars, mainVars, queue, metrics, sessVars>>
    BY <1>6 DEF MakeDir
  <2>. QED  BY <1>0, <2>2, <2>3, <2>4, EntryDoneType DEF TypeOK
<1>7. CASE EnsureReady(w)
  <2>1. TypeOK'
    BY <1>0, <1>7 DEF EnsureReady, TypeOK, InHand
  <2>2. SlotDiscipline'
    BY <1>7, SlotFrame DEF EnsureReady
  <2>. QED  BY <2>1, <2>2 DEF Base
<1>8. CASE NotReady(w)
  <2>1. TypeOK'
    <3>1. /\ maybe_sess' \in [Workers -> {"None", "Live", "Dead"}]
          /\ wasted' \in [Workers -> Nat]
          /\ attempt' \in [Workers -> Nat]
      <4>1. CASE UNCHANGED <<maybe_sess, wasted>>
        BY <1>0, <1>8, <4>1 DEF NotReady, TypeOK
      <4>2. CASE /\ maybe_sess' = [maybe_sess EXCEPT ![w] = "Live"]
                 /\ wasted' = [wasted EXCEPT ![w] = 0]
        BY <1>0, <1>8, <4>2 DEF NotReady, TypeOK
      <4>. QED  BY <1>8, <4>1, <4>2 DEF NotReady
    <3>2. UNCHANGED <<inputVars, mainVars, queue, chanVars, slotVars, local,
                      maybe_sftp, pc, entry>>
      BY <1>8 DEF NotReady
    <3>. QED  BY <1>0, <3>1, <3>2 DEF TypeOK
  <2>2. SlotDiscipline'
    BY <1>0, <1>8 DEF NotReady, SlotDiscipline, SlotHolders
  <2>. QED  BY <2>1, <2>2 DEF Base
<1>9. CASE PreTransferFails(w)
  <2>1. entry[w] \in Nodes
    BY <1>0, <1>9, PathType DEF PreTransferFails, InHand
  <2>2. /\ failures' \in [Nodes -> Nat]
        /\ wasted' \in [Workers -> Nat]
        /\ maybe_sess' \in [Workers -> {"None", "Live", "Dead"}]
        /\ maybe_sftp' \in [Workers -> BOOLEAN]
    BY <1>0, <1>9, <2>1 DEF PreTransferFails, Wasted, TypeOK
  <2>3. EntryDone(w) /\ UNCHANGED <<inputVars, mainVars, queue, metrics, local>>
    BY <1>9 DEF PreTransferFails
  <2>. QED  BY <1>0, <2>2, <2>3, EntryDoneType DEF TypeOK
<1>10. CASE StreamOk(w)
  <2>1. local' \in [Nodes \union {Root} -> Contents]
    BY <1>0, <1>10, PathType DEF StreamOk, TypeOK, InHand
  <2>2. EntryDone(w) /\ UNCHANGED <<inputVars, mainVars, queue, chanVars, sessVars>>
    BY <1>10 DEF StreamOk
  <2>. QED  BY <1>0, <2>1, <2>2, EntryDoneType DEF TypeOK
<1>11. CASE StreamRetried(w)
  <2>1. local' \in [Nodes \union {Root} -> Contents]
    BY <1>0, <1>11, AttemptBreaksLocal DEF StreamRetried
  <2>2. TypeOK'
    BY <1>0, <1>11, <2>1 DEF StreamRetried, TypeOK
  <2>3. SlotDiscipline'
    BY <1>0, <1>11 DEF StreamRetried, SlotDiscipline, SlotHolders
  <2>. QED  BY <2>2, <2>3 DEF Base
<1>12. CASE StreamFails(w)
  <2>1. entry[w] \in Nodes
    BY <1>0, <1>12, PathType DEF StreamFails, AttemptBreaks, InHand
  <2>2. local' \in [Nodes \union {Root} -> Contents]
    BY <1>0, <1>12, AttemptBreaksLocal DEF StreamFails
  <2>3. /\ failures' \in [Nodes -> Nat]
        /\ wasted' \in [Workers -> Nat]
        /\ maybe_sftp' \in [Workers -> BOOLEAN]
    BY <1>0, <1>12, <2>1 DEF StreamFails, Wasted, TypeOK
  <2>4. EntryDone(w) /\ UNCHANGED <<inputVars, mainVars, queue, metrics, maybe_sess>>
    BY <1>12 DEF StreamFails
  <2>. QED  BY <1>0, <2>2, <2>3, <2>4, EntryDoneType DEF TypeOK
<1>13. CASE SendMetrics(w)
  <2>1. TypeOK'
    BY <1>0, <1>13, Sizes DEF SendMetrics, TypeOK, InHand
  <2>2. SlotDiscipline'
    BY <1>13, SlotFrame DEF SendMetrics
  <2>. QED  BY <2>1, <2>2 DEF Base
<1>14. CASE ConnectionDrops(w)
  <2>1. TypeOK'
    BY <1>0, <1>14 DEF ConnectionDrops, TypeOK
  <2>2. SlotDiscipline'
    BY <1>0, <1>14 DEF ConnectionDrops, SlotDiscipline, SlotHolders
  <2>. QED  BY <2>1, <2>2 DEF Base
<1>. QED
  BY <1>1, <1>2, <1>3, <1>4, <1>5, <1>6, <1>7, <1>8, <1>9, <1>10, <1>11,
     <1>12, <1>13, <1>14
  DEF WorkerStep

LEMMA MainFrame ==
  ASSUME MainStep
  PROVE  UNCHANGED <<inputVars, slotVars, local, sessVars, taskVars>>
BY DEF MainStep, StartEnumeration, ReadDir, Push, CloseQueue,
       GlobNoMatches, JoinAndFinalize

LEMMA StepBase == Base /\ [Next]_vars => Base'
<1>1. ASSUME Base, MainStep PROVE Base'
  <2>1. TypeOK'
    BY <1>1, MainType DEF Base
  <2>2. SlotDiscipline'
    BY <1>1, MainFrame DEF Base, SlotDiscipline, SlotHolders
  <2>. QED  BY <2>1, <2>2 DEF Base
<1>2. ASSUME Base, UNCHANGED vars PROVE Base'
  BY <1>2 DEF Base, TypeOK, SlotDiscipline, SlotHolders, vars
<1>. QED  BY <1>1, <1>2, WorkerBase DEF Next, Finished

\* Every variable keeps its type, the bounds on the channels and on the slots
\* included, for every tree and number of workers.
THEOREM TypeCorrect == Spec => []TypeOK
BY InitBase, StepBase, PTL DEF Spec, Base

\* No progress-bar slot is lost or minted: see SlotDiscipline.
THEOREM SlotsSafe == Spec => []SlotDiscipline
BY InitBase, StepBase, PTL DEF Spec, Base

LEMMA BaseHolds == Spec => []Base
BY InitBase, StepBase, PTL DEF Spec
-----------------------------------------------------------------------------
\* The walk: what is still to be listed was not found before, so that no entry
\* is pushed twice, and no directory is read twice.

Found == listing \union discovered

Fresh ==
  /\ Distinct(walk_q)
  /\ Els(walk_q) \subseteq discovered \union {Root}
  /\ listing \intersect discovered = {}
  /\ \A n \in Found : /\ Parent[n] \in discovered \union {Root}
                      /\ Parent[n] \notin Els(walk_q)
  /\ main_pc = "start" => walk_q = <<>> /\ Found = {}
  /\ main_pc \notin {"start", "walk"} => walk_q = <<>> /\ listing = {}
  /\ ~Recursive => walk_q = <<>>
  /\ request.source = "file" => Found \subseteq {SingleFile}

\* Whatever was asked for was found, lies below what could not be read, or
\* will be found: the directory above it is in walk_q.
Frontier ==
  main_pc # "start" =>
    /\ Recursive => \A n \in Nodes :
         \/ n \in Found
         \/ Parent[n] \in Els(walk_q) \union unread
         \/ Parent[n] # Root /\ Parent[n] \notin discovered
    /\ ~Recursive => Selected \subseteq Found \/ Root \in unread

Walked == Fresh /\ Frontier

LEMMA EmptyEls == Els(<<>>) = {} /\ Distinct(<<>>)
BY DEF Els, Distinct

LEMMA OneEls == ASSUME NEW x PROVE Els(<<x>>) = {x} /\ Distinct(<<x>>)
<1>1. DOMAIN <<x>> = {1} /\ <<x>>[1] = x
  OBVIOUS
<1>. QED  BY <1>1 DEF Els, Distinct

LEMMA InitWalked == Init => Walked
BY EmptyEls DEF Init, Walked, Fresh, Frontier, Found

LEMMA SelectedTop ==
  ASSUME TypeOK, ~Recursive
  PROVE  /\ request.source = "file" => Selected = {SingleFile}
         /\ \A n \in Selected : n \in Nodes /\ Parent[n] = Root
<1>1. request.source \in {"glob", "file"}
  BY ParametersAssumption DEF TypeOK, AllRequests, Recursive
<1>2. Selected = IF request.source = "file" THEN {SingleFile} ELSE Matches
  BY <1>1 DEF Selected
<1>. QED  BY <1>2, TreeAssumption

LEMMA StartWalked == TypeOK /\ Walked /\ StartEnumeration => Walked'
<1>. SUFFICES ASSUME TypeOK, Walked, StartEnumeration PROVE Walked'
  OBVIOUS
<1>1. /\ main_pc = "start" /\ main_pc' = "walk" /\ request' = request
      /\ walk_q = <<>> /\ listing = {} /\ discovered = {} /\ discovered' = {}
      /\ request.source \in {"dir/", "dir", "glob", "file"}
      /\ Recursive' = Recursive /\ Selected' = Selected
  BY ParametersAssumption
  DEF StartEnumeration, Walked, Fresh, Found, TypeOK, AllRequests, Recursive,
      Selected
<1>2. CASE /\ walk_q' = IF Recursive THEN <<Root>> ELSE <<>>
           /\ listing' = CASE request.source = "glob" -> Matches
                           [] request.source = "file" -> {SingleFile}
                           [] Recursive               -> {}
  <2>1. CASE Recursive
    <3>1. walk_q' = <<Root>> /\ listing' = {} /\ request.source # "file"
      BY <1>1, <1>2, <2>1 DEF Recursive
    <3>. QED
      BY <1>1, <2>1, <3>1, OneEls, TreeAssumption
      DEF Walked, Fresh, Frontier, Found
  <2>2. CASE ~Recursive
    <3>1. walk_q' = <<>> /\ listing' = Selected
      BY <1>1, <1>2, <2>2 DEF Recursive, Selected
    <3>2. Fresh'
      BY <1>1, <2>2, <3>1, SelectedTop, EmptyEls DEF Fresh, Found
    <3>3. Frontier'
      BY <1>1, <2>2, <3>1 DEF Frontier, Found
    <3>. QED  BY <3>2, <3>3 DEF Walked
  <2>. QED  BY <2>1, <2>2
<1>3. CASE unread' = {Root} /\ UNCHANGED <<walk_q, listing>>
  BY <1>1, <1>3, EmptyEls, TreeAssumption DEF Walked, Fresh, Frontier, Found
<1>. QED  BY <1>2, <1>3 DEF StartEnumeration

LEMMA ReadDirWalked == TypeOK /\ Walked /\ ReadDir => Walked'
<1>. SUFFICES ASSUME TypeOK, Walked, ReadDir PROVE Walked'
  OBVIOUS
<1>. DEFINE d == Head(walk_q)
<1>1. /\ main_pc = "walk" /\ UNCHANGED <<main_pc, request, discovered>>
      /\ listing = {} /\ walk_q # <<>> /\ walk_q' = Tail(walk_q)
      /\ walk_q \in Seq(Nodes \union {Root})
      /\ Recursive /\ Recursive' = Recursive /\ request.source # "file"
  BY DEF ReadDir, TypeOK, Walked, Fresh, Recursive
<1>2. /\ Els(walk_q) = {d} \union Els(walk_q')
      /\ Distinct(walk_q') /\ d \notin Els(walk_q')
  BY <1>1, TailEls DEF Walked, Fresh
<1>3. CASE listing' = {n \in Nodes : Parent[n] = d} /\ UNCHANGED unread
  BY <1>1, <1>2, <1>3 DEF Walked, Fresh, Frontier, Found
<1>4. CASE unread' = unread \union {d} /\ UNCHANGED listing
  BY <1>1, <1>2, <1>4 DEF Walked, Fresh, Frontier, Found
<1>. QED  BY <1>3, <1>4 DEF ReadDir

LEMMA PushWalked ==
  ASSUME TypeOK, Walked, NEW n \in Nodes, Push(n)
  PROVE  Walked'
<1>1. /\ main_pc = "walk" /\ UNCHANGED <<main_pc, request, unread>>
      /\ n \in listing /\ n \notin discovered /\ n # Root
      /\ listing' = listing \ {n} /\ discovered' = discovered \union {n}
      /\ Found' = Found
      /\ walk_q \in Seq(Nodes \union {Root})
      /\ Recursive' = Recursive /\ Selected' = Selected
  BY TreeAssumption DEF Push, TypeOK, Walked, Fresh, Found, Recursive, Selected
<1>2. \A m \in Found : Parent[m] # n
  BY <1>1 DEF Walked, Fresh
<1>3. n \notin Els(walk_q)
  BY <1>1 DEF Walked, Fresh
<1>4. CASE Recursive /\ Kind[n] = "Dir"
  <2>1. walk_q' = Append(walk_q, n)
    BY <1>4 DEF Push
  <2>2. Els(walk_q') = Els(walk_q) \union {n} /\ Distinct(walk_q')
    BY <1>1, <1>3, <2>1, AppendEls DEF Walked, Fresh
  <2>. QED  BY <1>1, <1>2, <1>4, <2>2 DEF Walked, Fresh, Frontier
<1>5. CASE ~(Recursive /\ Kind[n] = "Dir")
  <2>1. walk_q' = walk_q
    BY <1>5 DEF Push
  <2>2. Recursive => \A m \in Nodes : Parent[m] # n
    BY <1>1, <1>5, TreeAssumption
  <2>. QED  BY <1>1, <1>2, <1>5, <2>1, <2>2 DEF Walked, Fresh, Frontier
<1>. QED  BY <1>4, <1>5

LEMMA WalkedFrame ==
  Walked /\ UNCHANGED <<request, main_pc, walk_q, listing, discovered, unread>>
    => Walked'
BY DEF Walked, Fresh, Frontier, Found, Recursive, Selected

LEMMA WorkerFrame ==
  ASSUME NEW w \in Workers, WorkerStep(w) \/ ConnectionDrops(w)
  PROVE  UNCHANGED <<inputVars, mainVars>>
BY DEF WorkerStep, Recv, RecvDisconnected, CheckParent, MakeParent, CheckDir,
       MakeDir, EnsureReady, NotReady, PreTransferFails, StreamOk,
       StreamRetried, StreamFails, SendMetrics, ConnectionDrops

LEMMA StepWalked == TypeOK /\ Walked /\ [Next]_vars => Walked'
<1>. SUFFICES ASSUME TypeOK, Walked, [Next]_vars PROVE Walked'
  OBVIOUS
<1>1. CASE StartEnumeration
  BY <1>1, StartWalked
<1>2. CASE ReadDir
  BY <1>2, ReadDirWalked
<1>3. ASSUME NEW n \in Nodes, Push(n) PROVE Walked'
  BY <1>3, PushWalked
<1>4. CASE CloseQueue \/ GlobNoMatches \/ JoinAndFinalize
  <2>1. /\ UNCHANGED <<request, walk_q, listing, discovered, unread>>
        /\ main_pc # "start"
        /\ main_pc' \notin {"start", "walk"}
        /\ walk_q = <<>> /\ listing = {}
    BY <1>4 DEF CloseQueue, GlobNoMatches, JoinAndFinalize, Walked, Fresh
  <2>. QED
    BY <2>1 DEF Walked, Fresh, Frontier, Found, Recursive, Selected
<1>5. ASSUME NEW w \in Workers, WorkerStep(w) \/ ConnectionDrops(w)
      PROVE  Walked'
  BY <1>5, WorkerFrame, WalkedFrame
<1>6. CASE UNCHANGED vars
  BY <1>6, WalkedFrame DEF vars
<1>. QED
  BY <1>1, <1>2, <1>3, <1>4, <1>5, <1>6 DEF Next, MainStep, Finished

LEMMA WalkedHolds == Spec => []Walked
<1>1. TypeOK /\ Walked /\ [Next]_vars => Walked'
  BY StepWalked
<1>. QED  BY <1>1, InitWalked, TypeCorrect, PTL DEF Spec

\* A node's parent is above it, and so is what is above the parent.
LEMMA AboveUp ==
  ASSUME NEW n \in Nodes
  PROVE  /\ Parent[n] \in Above(n)
         /\ Parent[n] # Root => Above(Parent[n]) \subseteq Above(n)
<1>1. Parent[n] \in Nodes \union {Root}
  BY TreeAssumption
<1>. QED  BY <1>1 DEF Above

\* What was not found lies below what was not read: with nothing left to read,
\* take a counterexample whose parent is none.
LEMMA WalkComplete == TypeOK /\ Walked => OnlyUnreadSkipped
<1>. SUFFICES ASSUME TypeOK, Walked, main_pc \notin {"start", "walk"}
              PROVE  \A n \in Selected : n \in discovered \/ Above(n) \intersect unread # {}
  BY DEF OnlyUnreadSkipped
<1>. DEFINE Lost == {n \in Nodes : n \notin discovered /\ Above(n) \intersect unread = {}}
<1>1. Found = discovered /\ Els(walk_q) = {}
  BY EmptyEls DEF Walked, Fresh, Found
<1>2. CASE Recursive
  <2>1. SUFFICES ASSUME Lost # {} PROVE FALSE
    BY <1>2 DEF Selected, Recursive
  <2>2. PICK n \in Lost : Parent[n] \notin Lost
    BY <2>1, TreeAssumption
  <2>3. Parent[n] \in Nodes \union {Root} /\ Parent[n] \notin unread
    BY <2>2, AboveUp, TreeAssumption
  <2>4. Parent[n] # Root /\ Parent[n] \notin discovered
    BY <1>1, <1>2, <2>2, <2>3 DEF Walked, Frontier
  <2>5. Above(Parent[n]) \intersect unread = {}
    BY <2>2, <2>4, AboveUp
  <2>. QED  BY <2>2, <2>3, <2>4, <2>5
<1>3. CASE ~Recursive
  <2>1. ASSUME NEW n \in Selected, Root \in unread
        PROVE  Above(n) \intersect unread # {}
    <3>1. n \in Nodes /\ Parent[n] = Root
      BY <1>3, SelectedTop
    <3>. QED  BY <2>1, <3>1, AboveUp
  <2>. QED  BY <1>1, <1>3, <2>1 DEF Walked, Frontier
<1>. QED  BY <1>2, <1>3

\* The enumeration overlooks nothing by itself: see OnlyUnreadSkipped.
THEOREM EnumerationComplete == Spec => []OnlyUnreadSkipped
BY TypeCorrect, WalkedHolds, WalkComplete, PTL
-----------------------------------------------------------------------------
\* The entries: in the channel, in a worker's hand, or dealt with.

HandKinds ==
  \A w \in Workers : /\ pc[w] \in {"pre", "stream"} => Kind[entry[w]] = "File"
                     /\ pc[w] \in {"dir", "mkdir"} => Kind[entry[w]] = "Dir"

Waiting == Els(queue) \union Taken

OneHolder ==
  /\ Distinct(queue)
  /\ \A v, w \in Workers : v # w /\ entry[v] # NoEntry => entry[v] # entry[w]
  /\ Els(queue) \intersect Taken = {}

OneReport ==
  /\ \A n \in Nodes : failures[n] + report[n] <= 1
  /\ Failed \subseteq discovered \ Waiting
  /\ main_pc # "done" => \A n \in Nodes : report[n] = 0

Dealt == HandKinds /\ OneHolder /\ OneReport

\* How a step of a worker looks to the entries.
LocalStep(w) ==
  \A p \in Nodes \union {Root} :
    local'[p] = local[p] \/ local[p] = "Absent"
      \/ (entry[w] \in Taken /\ p = local_target(entry[w]))

Resolves(w) ==
  \E n \in discovered :
    /\ entry[w] = n
    /\ entry' = [entry EXCEPT ![w] = NoEntry]
    /\ UNCHANGED queue
    /\ SendFailure(n) \/ (UNCHANGED failures /\ Arrived(n)')
    /\ LocalStep(w)

Holds(w) == UNCHANGED <<queue, entry, failures>> /\ LocalStep(w)

LEMMA InHandTaken ==
  ASSUME TypeOK, NEW w \in Workers, pc[w] \in InHand
  PROVE  /\ entry[w] \in discovered /\ entry[w] \in Nodes /\ entry[w] # NoEntry
         /\ entry[w] \in Taken
         /\ local_target(entry[w]) \in Nodes \union {Root}
BY PathType DEF Taken

LEMMA CreateStep ==
  ASSUME TypeOK, NEW p \in Nodes \union {Root}, CreateDir(p) \/ CreateDirFails(p)
  PROVE  /\ \A x \in Nodes \union {Root} : local'[x] = local[x] \/ local[x] = "Absent"
         /\ CreateDir(p) => local'[p] = "Dir"
BY DEF TypeOK, CreateDir, CreateDirFails

LEMMA WorkerSeen ==
  ASSUME TypeOK, HandKinds, NEW w \in Workers, WorkerStep(w) \/ ConnectionDrops(w)
  PROVE  Recv(w) \/ Resolves(w) \/ Holds(w)
<1>. USE DEF LocalStep
<1>1. CASE Recv(w)
  BY <1>1
<1>2. CASE RecvDisconnected(w) \/ SendMetrics(w) \/ ConnectionDrops(w)
           \/ EnsureReady(w) \/ NotReady(w)
  BY <1>2 DEF RecvDisconnected, SendMetrics, ConnectionDrops, EnsureReady,
              NotReady, Holds
<1>3. CASE CheckParent(w)
  BY <1>3, InHandTaken DEF CheckParent, EntryDone, Resolves, Holds, InHand
<1>4. CASE MakeParent(w)
  <2>1. Parent[entry[w]] \in Nodes \union {Root} /\ entry[w] \in discovered
    BY <1>4, PathType DEF MakeParent, InHand
  <2>2. LocalStep(w)
    BY <1>4, <2>1, CreateStep DEF MakeParent
  <2>. QED  BY <1>4, <2>1, <2>2 DEF MakeParent, EntryDone, Resolves, Holds
<1>5. CASE CheckDir(w)
  <2>1. PICK n \in discovered : entry[w] = n
    BY <1>5, InHandTaken DEF CheckDir, InHand
  <2>2. Kind[n] = "Dir" /\ UNCHANGED <<local, request>>
    BY <1>5, <2>1 DEF CheckDir, HandKinds
  <2>3. local[local_target(n)] = "Dir" => Arrived(n)'
    BY <2>2 DEF Arrived, local_target
  <2>. QED  BY <1>5, <2>1, <2>3 DEF CheckDir, EntryDone, Resolves, Holds
<1>6. CASE MakeDir(w)
  <2>1. PICK n \in discovered : entry[w] = n
    BY <1>6, InHandTaken DEF MakeDir, InHand
  <2>2. Kind[n] = "Dir" /\ UNCHANGED request /\ local_target(n) \in Nodes \union {Root}
    BY <1>6, <2>1, InHandTaken, WorkerFrame DEF MakeDir, HandKinds, InHand, WorkerStep
  <2>3. LocalStep(w)
    BY <1>6, <2>1, <2>2, CreateStep DEF MakeDir
  <2>4. CreateDir(local_target(n)) => Arrived(n)'
    BY <2>2, CreateStep DEF Arrived, local_target
  <2>. QED  BY <1>6, <2>1, <2>3, <2>4 DEF MakeDir, EntryDone, Resolves
<1>7. CASE PreTransferFails(w)
  BY <1>7, InHandTaken DEF PreTransferFails, EntryDone, Resolves, InHand
<1>8. CASE StreamOk(w)
  <2>1. PICK n \in discovered : entry[w] = n
    BY <1>8, InHandTaken DEF StreamOk, InHand
  <2>2. /\ Kind[n] = "File" /\ UNCHANGED request
        /\ n \in Taken /\ local_target(n) \in Nodes \union {Root}
    BY <1>8, <2>1, InHandTaken, WorkerFrame DEF StreamOk, HandKinds, InHand, WorkerStep
  <2>3. local' = [local EXCEPT ![local_target(n)] = n]
    BY <1>8, <2>1 DEF StreamOk
  <2>4. LocalStep(w) /\ Arrived(n)'
    BY <2>1, <2>2, <2>3 DEF Arrived, local_target, TypeOK
  <2>. QED  BY <1>8, <2>1, <2>4 DEF StreamOk, EntryDone, Resolves
<1>9. CASE StreamRetried(w) \/ StreamFails(w)
  <2>1. AttemptBreaks(w) /\ pc[w] \in InHand
    BY <1>9 DEF StreamRetried, StreamFails, AttemptBreaks, InHand
  <2>2. entry[w] \in Taken /\ entry[w] \in discovered
    BY <2>1, InHandTaken
  <2>3. LocalStep(w)
    BY <2>1, <2>2 DEF AttemptBreaks, TypeOK
  <2>. QED
    BY <1>9, <2>2, <2>3 DEF StreamRetried, StreamFails, EntryDone, Resolves, Holds
<1>. QED
  BY <1>1, <1>2, <1>3, <1>4, <1>5, <1>6, <1>7, <1>8, <1>9 DEF WorkerStep

LEMMA WorkerKinds ==
  ASSUME TypeOK, HandKinds, NEW w \in Workers, WorkerStep(w) \/ ConnectionDrops(w)
  PROVE  HandKinds'
<1>1. CASE Recv(w) \/ RecvDisconnected(w) \/ SendMetrics(w)
  BY <1>1 DEF Recv, RecvDisconnected, SendMetrics, HandKinds, TypeOK
<1>2. CASE pc' = [pc EXCEPT ![w] = "recv"] /\ entry' = [entry EXCEPT ![w] = NoEntry]
  BY <1>2 DEF HandKinds, TypeOK
<1>3. CASE CheckParent(w) /\ ~EntryDone(w)
  <2>1. Kind[entry[w]] \in {"File", "Dir"} /\ UNCHANGED entry
    BY <1>3, InHandTaken, TreeAssumption DEF CheckParent, InHand
  <2>2. \E x \in {IF Kind[entry[w]] = "Dir" THEN "dir" ELSE "pre", "mkparent"} :
          pc' = [pc EXCEPT ![w] = x]
    BY <1>3 DEF CheckParent
  <2>. QED  BY <2>1, <2>2 DEF HandKinds, TypeOK
<1>4. CASE MakeParent(w) \/ CheckDir(w) \/ EnsureReady(w)
  BY <1>2, <1>4
  DEF MakeParent, CheckDir, EnsureReady, EntryDone, HandKinds, TypeOK
<1>5. CASE NotReady(w) \/ StreamRetried(w) \/ ConnectionDrops(w)
  BY <1>5 DEF NotReady, StreamRetried, ConnectionDrops, HandKinds
<1>. QED
  BY <1>1, <1>2, <1>3, <1>4, <1>5
  DEF WorkerStep, EntryDone, MakeDir, PreTransferFails, StreamOk, StreamFails

\* Taking the first entry of the channel.
LEMMA RecvOnce ==
  ASSUME TypeOK, OneHolder, OneReport, NEW w \in Workers, Recv(w)
  PROVE  OneHolder' /\ OneReport' /\ Waiting' = Waiting
<1>0. Head(queue) \in discovered /\ queue \in Seq(discovered) /\ queue # <<>>
  BY DEF Recv, TypeOK
<1>1. /\ queue # <<>> /\ queue \in Seq(discovered) /\ queue' = Tail(queue)
      /\ entry \in [Workers -> discovered \union {NoEntry}]
      /\ entry[w] = NoEntry
      /\ entry' = [entry EXCEPT ![w] = Head(queue)]
      /\ Head(queue) # NoEntry
      /\ UNCHANGED <<mainVars, failures>>
  BY <1>0, TreeAssumption DEF Recv, TypeOK, InHand
<1>2. /\ Els(queue) = {Head(queue)} \union Els(queue')
      /\ Distinct(queue') /\ Head(queue) \notin Els(queue')
  BY <1>1, TailEls DEF OneHolder
<1>3. Taken' = Taken \union {Head(queue)}
  BY <1>1 DEF Taken
<1>4. Head(queue) \notin Taken
  BY <1>2 DEF OneHolder
<1>5. Waiting' = Waiting
  BY <1>2, <1>3 DEF Waiting
<1>6. \A u, v \in Workers : u # v /\ entry'[u] # NoEntry => entry'[u] # entry'[v]
  BY <1>1, <1>4 DEF OneHolder, Taken
<1>7. OneHolder'
  BY <1>2, <1>3, <1>6 DEF OneHolder
<1>8. OneReport'
  BY <1>1, <1>5 DEF OneReport, Failed
<1>. QED  BY <1>5, <1>7, <1>8

\* Dealing with the entry in hand.
LEMMA ResolveOnce ==
  ASSUME TypeOK, OneHolder, OneReport, NEW w \in Workers, NEW n \in discovered,
         entry[w] = n, entry' = [entry EXCEPT ![w] = NoEntry],
         UNCHANGED <<mainVars, queue>>, SendFailure(n) \/ UNCHANGED failures
  PROVE  /\ OneHolder' /\ OneReport' /\ Waiting' = Waiting \ {n}
         /\ Failed \subseteq Failed'
         /\ SendFailure(n) => n \in Failed'
<1>1. /\ entry \in [Workers -> discovered \union {NoEntry}]
      /\ n \in Nodes /\ n # NoEntry /\ discovered \subseteq Nodes
      /\ failures \in [Nodes -> Nat] /\ report \in [Nodes -> Nat]
  BY TreeAssumption DEF TypeOK
<1>2. Taken' = Taken \ {n} /\ n \in Taken
  BY <1>1 DEF Taken, OneHolder
<1>3. Waiting' = Waiting \ {n} /\ n \in Waiting /\ n \notin Els(queue)
  BY <1>2 DEF Waiting, OneHolder
<1>4. OneHolder'
  BY <1>1, <1>2 DEF OneHolder
<1>5. n \notin Failed
  BY <1>3 DEF OneReport
<1>6. failures[n] + report[n] = 0
  BY <1>1, <1>5 DEF Failed
<1>7. CASE UNCHANGED failures
  <2>1. Failed' = Failed
    BY <1>7 DEF Failed
  <2>2. OneReport'
    BY <1>3, <1>7, <2>1 DEF OneReport
  <2>3. SendFailure(n) => FALSE
    BY <1>1, <1>7
  <2>. QED  BY <1>3, <1>4, <2>1, <2>2, <2>3
<1>8. CASE SendFailure(n)
  <2>1. \A m \in Nodes : failures'[m] = IF m = n THEN failures[m] + 1 ELSE failures[m]
    BY <1>1, <1>8
  <2>2. Failed' = Failed \union {n}
    BY <1>1, <2>1 DEF Failed
  <2>3. \A m \in Nodes : failures'[m] + report'[m] <= 1
    BY <1>1, <1>6, <2>1 DEF OneReport
  <2>4. OneReport'
    BY <1>3, <2>2, <2>3 DEF OneReport
  <2>. QED  BY <1>3, <1>4, <2>2, <2>4
<1>. QED  BY <1>7, <1>8

LEMMA WorkerDealt ==
  ASSUME TypeOK, Dealt, NEW w \in Workers, WorkerStep(w) \/ ConnectionDrops(w)
  PROVE  Dealt'
<1>1. HandKinds'
  BY WorkerKinds DEF Dealt
<1>2. CASE Recv(w)
  BY <1>1, <1>2, RecvOnce DEF Dealt
<1>3. CASE Resolves(w)
  BY <1>1, <1>3, ResolveOnce, WorkerFrame DEF Dealt, Resolves
<1>4. CASE Holds(w)
  <2>1. UNCHANGED <<mainVars, queue, entry, failures>>
    BY <1>4, WorkerFrame DEF Holds
  <2>. QED
    BY <1>1, <2>1 DEF Dealt, OneHolder, OneReport, Failed, Taken, Waiting
<1>. QED  BY <1>2, <1>3, <1>4, WorkerSeen DEF Dealt

LEMMA PushDealt ==
  ASSUME TypeOK, Fresh, Dealt, NEW n \in Nodes, Push(n)
  PROVE  /\ Dealt'
         /\ Waiting' = Waiting \union {n} /\ Failed' = Failed
<1>1. /\ n \notin discovered /\ n \in Nodes
      /\ queue \in Seq(discovered) /\ queue' = Append(queue, n)
      /\ discovered' = discovered \union {n}
      /\ UNCHANGED <<main_pc, report, failures, entry, pc>>
      /\ Els(queue) \subseteq discovered
      /\ Taken \subseteq discovered
  BY DEF Push, Fresh, TypeOK, Els, Taken
<1>2. Els(queue') = Els(queue) \union {n} /\ Distinct(queue')
  BY <1>1, AppendEls DEF Dealt, OneHolder
<1>3. Taken' = Taken /\ Failed' = Failed
  BY <1>1 DEF Taken, Failed
<1>4. Waiting' = Waiting \union {n}
  BY <1>2, <1>3 DEF Waiting
<1>5. OneHolder'
  BY <1>1, <1>2, <1>3 DEF Dealt, OneHolder
<1>6. OneReport'
  BY <1>1, <1>3, <1>4 DEF Dealt, OneReport
<1>7. HandKinds'
  BY <1>1 DEF Dealt, HandKinds
<1>. QED  BY <1>3, <1>4, <1>5, <1>6, <1>7 DEF Dealt

LEMMA FinalizeDealt ==
  ASSUME TypeOK, Dealt, JoinAndFinalize
  PROVE  Dealt' /\ Failed' = Failed
<1>1. /\ report' = failures /\ failures' = [n \in Nodes |-> 0]
      /\ main_pc = "join" /\ main_pc' = "done"
      /\ UNCHANGED <<discovered, queue, entry, pc>>
      /\ failures \in [Nodes -> Nat]
      /\ \A n \in Nodes : report[n] = 0
  BY DEF JoinAndFinalize, TypeOK, Dealt, OneReport
<1>2. \A n \in Nodes : failures'[n] + report'[n] = failures[n] + report[n]
  BY <1>1
<1>3. Failed' = Failed
  BY <1>2 DEF Failed
<1>4. OneReport'
  BY <1>1, <1>2, <1>3 DEF Dealt, OneReport, Waiting, Taken
<1>. QED
  BY <1>1, <1>3, <1>4 DEF Dealt, OneHolder, HandKinds, Taken

LEMMA StepDealt == TypeOK /\ Fresh /\ Dealt /\ [Next]_vars => Dealt'
<1>. SUFFICES ASSUME TypeOK, Fresh, Dealt, [Next]_vars PROVE Dealt'
  OBVIOUS
<1>1. ASSUME NEW w \in Workers, WorkerStep(w) \/ ConnectionDrops(w) PROVE Dealt'
  BY <1>1, WorkerDealt
<1>2. ASSUME NEW n \in Nodes, Push(n) PROVE Dealt'
  BY <1>2, PushDealt
<1>3. CASE JoinAndFinalize
  BY <1>3, FinalizeDealt
<1>4. CASE StartEnumeration \/ ReadDir \/ CloseQueue \/ GlobNoMatches
           \/ UNCHANGED vars
  <2>1. /\ UNCHANGED <<discovered, queue, report, failures, entry, pc>>
        /\ main_pc = "done" => main_pc' = "done"
    BY <1>4 DEF StartEnumeration, ReadDir, CloseQueue, GlobNoMatches, vars
  <2>2. Taken' = Taken /\ Failed' = Failed /\ Waiting' = Waiting
    BY <2>1 DEF Taken, Failed, Waiting
  <2>3. OneReport'
    BY <2>1, <2>2 DEF Dealt, OneReport
  <2>. QED  BY <2>1, <2>2, <2>3 DEF Dealt, HandKinds, OneHolder
<1>. QED  BY <1>1, <1>2, <1>3, <1>4 DEF Next, MainStep, Finished

LEMMA InitDealt == Init => Dealt
<1>. SUFFICES ASSUME Init PROVE Dealt
  OBVIOUS
<1>1. Taken = {} /\ Failed = {}
  BY DEF Init, Taken, Failed
<1>2. HandKinds
  BY DEF Init, HandKinds
<1>3. OneHolder
  BY <1>1, EmptyEls DEF Init, OneHolder
<1>4. OneReport
  BY <1>1 DEF Init, OneReport
<1>. QED  BY <1>2, <1>3, <1>4 DEF Dealt

LEMMA DealtHolds == Spec => []Dealt
<1>1. TypeOK /\ Walked /\ Dealt /\ [Next]_vars => Dealt'
  BY StepDealt DEF Walked
<1>. QED  BY <1>1, InitDealt, TypeCorrect, WalkedHolds, PTL DEF Spec

LEMMA DealtOnce == TypeOK /\ Dealt => EachEntryOnce
<1>. SUFFICES ASSUME TypeOK, Dealt PROVE EachEntryOnce
  OBVIOUS
<1>1. Queued = Els(queue)
  BY DEF Queued, Els
<1>2. Cardinality(Queued) = Len(queue)
  BY <1>1, DistinctCount DEF TypeOK, Dealt, OneHolder
<1>. QED
  BY <1>1, <1>2 DEF EachEntryOnce, Dealt, OneHolder, OneReport, Waiting

\* An entry is in one place at a time and fails at most once: see
\* EachEntryOnce.
THEOREM EntriesOnce == Spec => []EachEntryOnce
BY TypeCorrect, DealtHolds, DealtOnce, PTL
-----------------------------------------------------------------------------
\* No silent loss.  What is at the path of an entry is taken away only by a
\* worker that has another entry for the same path in its hands; that entry then
\* answers for the path, until it is there or its failure is recorded.

Answers(m) == m \in Taken \union Failed \/ Arrived(m)

NoLoss ==
  \A n \in discovered :
    n \in Waiting \union Failed \/ Arrived(n) \/ \E m \in Rivals(n) : Answers(m)

\* What arrived stays, or gives way to the entry in the worker's hands.
LEMMA ArrivedStays ==
  ASSUME TypeOK, NEW w \in Workers, LocalStep(w), UNCHANGED request,
         NEW n \in discovered, Arrived(n)
  PROVE  \/ Arrived(n)'
         \/ entry[w] \in Taken /\ local_target(entry[w]) = local_target(n)
<1>1. n \in Nodes /\ local_target(n) \in Nodes \union {Root}
  BY DEF TypeOK, local_target
<1>2. local_target(n)' = local_target(n)
  BY DEF local_target
<1>3. local[local_target(n)] # "Absent"
  BY <1>1, TreeAssumption DEF Arrived
<1>. QED  BY <1>1, <1>2, <1>3 DEF LocalStep, Arrived

\* The entry a worker is done with answers for its path from then on, and what
\* answered for a path either still does or has given way to that entry.
LEMMA ResolvesLoss ==
  ASSUME TypeOK, Dealt, NoLoss, NEW w \in Workers,
         WorkerStep(w) \/ ConnectionDrops(w), Resolves(w)
  PROVE  NoLoss'
<1>1. UNCHANGED <<request, discovered, report, main_pc>>
  BY WorkerFrame
<1>2. PICK e \in discovered :
        /\ entry[w] = e
        /\ entry' = [entry EXCEPT ![w] = NoEntry]
        /\ UNCHANGED queue
        /\ SendFailure(e) \/ (UNCHANGED failures /\ Arrived(e)')
  BY DEF Resolves
<1>3. LocalStep(w)
  BY DEF Resolves
<1>4. /\ Waiting' = Waiting \ {e} /\ Failed \subseteq Failed'
      /\ SendFailure(e) => e \in Failed'
  BY <1>2, ResolveOnce, WorkerFrame DEF Dealt
<1>5. e \in Failed' \/ Arrived(e)'
  BY <1>2, <1>4
<1>6. Taken \ {e} \subseteq Taken'
  BY <1>2 DEF Taken, TypeOK
<1>7. ASSUME NEW n \in discovered PROVE Rivals(n)' = Rivals(n)
  BY <1>1 DEF Rivals, local_target
<1>8. ASSUME NEW n \in discovered, Arrived(n)
      PROVE  Arrived(n)' \/ local_target(e) = local_target(n)
  BY <1>1, <1>2, <1>3, <1>8, ArrivedStays
<1>9. ASSUME NEW n \in discovered, n # e, n \notin (Waiting \union Failed)'
      PROVE  Arrived(n)' \/ \E m \in Rivals(n)' : Answers(m)'
  <2>1. e \in Rivals(n)' \/ local_target(e) # local_target(n)
    BY <1>7, <1>9 DEF Rivals
  <2>2. Answers(e)'
    BY <1>5 DEF Answers
  <2>3. CASE Arrived(n)
    BY <1>8, <2>1, <2>2, <2>3
  <2>4. ASSUME NEW m \in Rivals(n), Answers(m)
        PROVE  \E r \in Rivals(n)' : Answers(r)'
    <3>1. m \in discovered /\ local_target(m) = local_target(n)
      BY DEF Rivals
    <3>2. CASE m = e
      BY <1>7, <2>2, <3>2
    <3>3. CASE m # e /\ m \in Taken \union Failed
      BY <1>4, <1>6, <1>7, <3>3 DEF Answers
    <3>4. CASE Arrived(m)
      <4>1. Arrived(m)' \/ local_target(e) = local_target(m)
        BY <1>8, <3>1, <3>4
      <4>. QED  BY <1>7, <2>1, <2>2, <3>1, <4>1 DEF Answers
    <3>. QED  BY <2>4, <3>2, <3>3, <3>4 DEF Answers
  <2>5. n \notin Waiting \union Failed
    BY <1>4, <1>9
  <2>. QED  BY <2>3, <2>4, <2>5 DEF NoLoss
<1>. QED  BY <1>1, <1>5, <1>9 DEF NoLoss

\* A worker that keeps its entry takes a path away for that entry only.
LEMMA HoldsLoss ==
  ASSUME TypeOK, Dealt, NoLoss, NEW w \in Workers,
         WorkerStep(w) \/ ConnectionDrops(w), Holds(w)
  PROVE  NoLoss'
<1>1. UNCHANGED <<request, discovered, report, main_pc>>
  BY WorkerFrame
<1>2. Waiting' = Waiting /\ Taken' = Taken /\ Failed' = Failed /\ LocalStep(w)
  BY <1>1 DEF Holds, Waiting, Taken, Failed
<1>3. Taken \subseteq discovered /\ Taken \subseteq Waiting
  BY DEF Taken, TypeOK, Waiting
<1>4. ASSUME NEW n \in discovered, n \notin (Waiting \union Failed)'
      PROVE  Arrived(n)' \/ \E m \in Rivals(n)' : Answers(m)'
  <2>1. Rivals(n)' = Rivals(n)
    BY <1>1 DEF Rivals, local_target
  <2>2. ASSUME entry[w] \in Taken, local_target(entry[w]) = local_target(n)
        PROVE  \E m \in Rivals(n)' : Answers(m)'
    BY <1>2, <1>3, <1>4, <2>1, <2>2 DEF Rivals, Answers
  <2>3. CASE Arrived(n)
    BY <1>1, <1>2, <2>2, <2>3, ArrivedStays
  <2>4. ASSUME NEW m \in Rivals(n), Answers(m)
        PROVE  \E r \in Rivals(n)' : Answers(r)'
    <3>1. m \in discovered /\ local_target(m) = local_target(n)
      BY DEF Rivals
    <3>2. CASE m \in Taken \union Failed
      BY <1>2, <2>1, <3>2 DEF Answers
    <3>3. CASE Arrived(m)
      <4>1. \/ Arrived(m)'
            \/ entry[w] \in Taken /\ local_target(entry[w]) = local_target(m)
        BY <1>1, <1>2, <3>1, <3>3, ArrivedStays
      <4>. QED  BY <2>1, <2>2, <3>1, <4>1 DEF Answers
    <3>. QED  BY <2>4, <3>2, <3>3 DEF Answers
  <2>5. n \notin Waiting \union Failed
    BY <1>2, <1>4
  <2>. QED  BY <2>3, <2>4, <2>5 DEF NoLoss
<1>. QED  BY <1>1, <1>4 DEF NoLoss

LEMMA WorkerLoss ==
  ASSUME TypeOK, Dealt, NoLoss, NEW w \in Workers, WorkerStep(w) \/ ConnectionDrops(w)
  PROVE  NoLoss'
<1>1. CASE Recv(w)
  <2>1. /\ Waiting' = Waiting
        /\ UNCHANGED <<request, discovered, report, failures, local>>
    BY <1>1, RecvOnce, WorkerFrame DEF Dealt, Recv
  <2>2. /\ entry[w] = NoEntry /\ entry' = [entry EXCEPT ![w] = Head(queue)]
        /\ entry \in [Workers -> discovered \union {NoEntry}]
    BY <1>1 DEF Recv, TypeOK, InHand
  <2>3. Taken \subseteq Taken'
    BY <2>2 DEF Taken
  <2>. QED
    BY <2>1, <2>3 DEF NoLoss, Answers, Rivals, Failed, Arrived, local_target
<1>. QED  BY <1>1, ResolvesLoss, HoldsLoss, WorkerSeen DEF Dealt

LEMMA StepLoss ==
  TypeOK /\ Fresh /\ Dealt /\ NoLoss /\ [Next]_vars => NoLoss'
<1>. SUFFICES ASSUME TypeOK, Fresh, Dealt, NoLoss, [Next]_vars
              PROVE  NoLoss'
  OBVIOUS
<1>1. ASSUME NEW w \in Workers, WorkerStep(w) \/ ConnectionDrops(w) PROVE NoLoss'
  BY <1>1, WorkerLoss
<1>2. ASSUME NEW n \in Nodes, Push(n) PROVE NoLoss'
  <2>1. /\ discovered' = discovered \union {n} /\ UNCHANGED <<request, local>>
        /\ Waiting' = Waiting \union {n} /\ Failed' = Failed /\ Taken' = Taken
    BY <1>2, PushDealt DEF Push, Taken
  <2>. QED  BY <2>1 DEF NoLoss, Answers, Rivals, Arrived, local_target
<1>3. CASE JoinAndFinalize
  <2>1. UNCHANGED <<discovered, request, local, queue, entry>> /\ Failed' = Failed
    BY <1>3, FinalizeDealt DEF JoinAndFinalize
  <2>. QED  BY <2>1 DEF NoLoss, Answers, Rivals, Waiting, Taken, Arrived, local_target
<1>4. CASE StartEnumeration \/ ReadDir \/ CloseQueue \/ GlobNoMatches
           \/ UNCHANGED vars
  <2>1. UNCHANGED <<discovered, request, local, queue, entry, failures, report>>
    BY <1>4 DEF StartEnumeration, ReadDir, CloseQueue, GlobNoMatches, vars
  <2>. QED
    BY <2>1 DEF NoLoss, Answers, Rivals, Waiting, Taken, Failed, Arrived, local_target
<1>. QED  BY <1>1, <1>2, <1>3, <1>4 DEF Next, MainStep, Finished

\* Every entry that was found and is in nobody's hands any more is at its local
\* path, or its failure is on the way to the report, or another entry answers for
\* the path they share, whatever was requested: see NoSilentLoss.
THEOREM NothingLost == Spec => []NoSilentLoss
<1>1. Init => NoLoss
  BY DEF Init, NoLoss
<1>2. TypeOK /\ Walked /\ Dealt /\ NoLoss /\ [Next]_vars => NoLoss'
  BY StepLoss DEF Walked
<1>3. NoLoss => NoSilentLoss
  <2>1. Queued = Els(queue)
    BY DEF Queued, Els
  <2>. QED  BY <2>1 DEF NoLoss, NoSilentLoss, Answers, Waiting
<1>. QED
  BY <1>1, <1>2, <1>3, TypeCorrect, WalkedHolds, DealtHolds, PTL DEF Spec
-----------------------------------------------------------------------------
\* The end: a worker leaves only when main has closed the channel and the
\* channel is empty, and main returns only when all have left.

Leaving ==
  /\ \A w \in Workers : pc[w] \in {"metrics", "exited"} =>
       queue = <<>> /\ main_pc \notin {"start", "walk"}
  /\ main_pc \in {"nomatch", "done"} =>
       AllExited /\ \A n \in Nodes : failures[n] = 0

\* A worker leaves for good, and only on an empty channel.
LEMMA WorkerPc ==
  ASSUME NEW w \in Workers, WorkerStep(w) \/ ConnectionDrops(w), TypeOK
  PROVE  /\ pc[w] # "exited"
         /\ queue = <<>> => queue' = <<>>
         /\ \A v \in Workers : pc'[v] = pc[v] \/ v = w
         /\ pc'[w] \in {"metrics", "exited"} =>
              \/ pc[w] \in {"metrics", "exited"}
              \/ queue' = <<>> /\ main_pc \notin {"start", "walk"}
<1>1. CASE Recv(w) \/ RecvDisconnected(w) \/ SendMetrics(w) \/ ConnectionDrops(w)
  BY <1>1 DEF Recv, RecvDisconnected, SendMetrics, ConnectionDrops, TypeOK
<1>2. CASE CheckParent(w)
  BY <1>2 DEF CheckParent, EntryDone, TypeOK
<1>3. CASE MakeParent(w) \/ CheckDir(w) \/ MakeDir(w)
  BY <1>3 DEF MakeParent, CheckDir, MakeDir, EntryDone, TypeOK
<1>4. CASE EnsureReady(w) \/ NotReady(w) \/ PreTransferFails(w)
  BY <1>4 DEF EnsureReady, NotReady, PreTransferFails, EntryDone, TypeOK
<1>5. CASE StreamOk(w) \/ StreamRetried(w) \/ StreamFails(w)
  BY <1>5
  DEF StreamOk, StreamRetried, StreamFails, AttemptBreaks, EntryDone, TypeOK
<1>. QED  BY <1>1, <1>2, <1>3, <1>4, <1>5 DEF WorkerStep

LEMMA StepLeaving == TypeOK /\ Dealt /\ Leaving /\ [Next]_vars => Leaving'
<1>. SUFFICES ASSUME TypeOK, Dealt, Leaving, [Next]_vars PROVE Leaving'
  OBVIOUS
<1>1. ASSUME NEW w \in Workers, WorkerStep(w) \/ ConnectionDrops(w) PROVE Leaving'
  <2>1. main_pc \notin {"nomatch", "done"} /\ main_pc' = main_pc
    BY <1>1, WorkerPc, WorkerFrame DEF Leaving, AllExited
  <2>. QED  BY <1>1, <2>1, WorkerPc DEF Leaving
<1>2. CASE StartEnumeration \/ ReadDir \/ \E n \in Nodes : Push(n)
  BY <1>2 DEF StartEnumeration, ReadDir, Push, Leaving
<1>3. CASE CloseQueue
  BY <1>3 DEF CloseQueue, Leaving
<1>4. CASE GlobNoMatches
  <2>1. \A n \in Nodes : failures[n] = 0
    <3>1. Failed = {}
      BY <1>4 DEF GlobNoMatches, NoMatches, Dealt, OneReport
    <3>. QED  BY <3>1 DEF Failed, TypeOK
  <2>. QED  BY <1>4, <2>1 DEF GlobNoMatches, Leaving, AllExited
<1>5. CASE JoinAndFinalize
  BY <1>5 DEF JoinAndFinalize, Leaving, AllExited
<1>6. CASE UNCHANGED vars
  BY <1>6 DEF vars, Leaving, AllExited
<1>. QED  BY <1>1, <1>2, <1>3, <1>4, <1>5, <1>6 DEF Next, MainStep, Finished

\* handle_ts returns only after the last worker is gone and when no failure is
\* left unread: see ReturnsAfterWorkers.
THEOREM ReturnsLast == Spec => []ReturnsAfterWorkers
<1>1. Init => Leaving
  BY DEF Init, Leaving
<1>2. TypeOK /\ Dealt /\ Leaving /\ [Next]_vars => Leaving'
  BY StepLeaving
<1>3. Leaving => ReturnsAfterWorkers
  <2>1. 0 \in Workers
    BY Sizes DEF Workers
  <2>. QED  BY <2>1 DEF Leaving, ReturnsAfterWorkers, AllExited
<1>. QED  BY <1>1, <1>2, <1>3, TypeCorrect, DealtHolds, PTL DEF Spec
-----------------------------------------------------------------------------
\* Sessions: what a worker wasted on a dead one, by the state it keeps.

Sessions ==
  \A w \in Workers :
    /\ maybe_sess[w] = "Live" => wasted[w] = 0
    /\ maybe_sess[w] = "Dead" => wasted[w] = 0 \/ (wasted[w] = 1 /\ ~maybe_sftp[w])
    /\ wasted[w] <= 2
    /\ pc[w] = "stream" => maybe_sftp[w]

LEMMA WorkerSessions ==
  ASSUME TypeOK, Sessions, NEW w \in Workers, WorkerStep(w) \/ ConnectionDrops(w)
  PROVE  Sessions'
<1>1. CASE /\ UNCHANGED sessVars
           /\ \E x : x # "stream" /\ pc' = [pc EXCEPT ![w] = x]
  BY <1>1 DEF Sessions, TypeOK
<1>2. CASE EnsureReady(w)
  BY <1>2 DEF EnsureReady, Sessions, TypeOK
<1>3. CASE NotReady(w)
  BY <1>3 DEF NotReady, Sessions, TypeOK
<1>4. CASE PreTransferFails(w)
  BY <1>4 DEF PreTransferFails, Wasted, EntryDone, Sessions, TypeOK
<1>5. CASE StreamRetried(w)
  BY <1>5 DEF StreamRetried, Sessions
<1>6. CASE StreamFails(w)
  BY <1>6 DEF StreamFails, AttemptBreaks, Wasted, EntryDone, Sessions, TypeOK
<1>7. CASE ConnectionDrops(w)
  BY <1>7 DEF ConnectionDrops, Sessions, TypeOK
<1>8. CASE CheckParent(w)
  <2>1. \E x \in {"dir", "pre", "mkparent", "recv"} : pc' = [pc EXCEPT ![w] = x]
    BY <1>8 DEF CheckParent, EntryDone
  <2>. QED  BY <1>1, <1>8, <2>1 DEF CheckParent
<1>9. CASE Recv(w) \/ RecvDisconnected(w) \/ SendMetrics(w)
  BY <1>1, <1>9 DEF Recv, RecvDisconnected, SendMetrics
<1>10. CASE MakeParent(w) \/ CheckDir(w) \/ MakeDir(w) \/ StreamOk(w)
  BY <1>1, <1>10 DEF MakeParent, CheckDir, MakeDir, StreamOk, EntryDone
<1>. QED
  BY <1>2, <1>3, <1>4, <1>5, <1>6, <1>7, <1>8, <1>9, <1>10 DEF WorkerStep

\* A dead connection costs a worker at most two files: see DeadSessionBound.
THEOREM DeadSessionsBounded == Spec => []DeadSessionBound
<1>1. Init => Sessions
  BY DEF Init, Sessions
<1>2. TypeOK /\ Sessions /\ [Next]_vars => Sessions'
  <2>. SUFFICES ASSUME TypeOK, Sessions, [Next]_vars PROVE Sessions'
    OBVIOUS
  <2>1. ASSUME NEW w \in Workers, WorkerStep(w) \/ ConnectionDrops(w) PROVE Sessions'
    BY <2>1, WorkerSessions
  <2>2. CASE MainStep
    BY <2>2, MainFrame DEF Sessions
  <2>3. CASE UNCHANGED vars
    BY <2>3 DEF vars, Sessions
  <2>. QED  BY <2>1, <2>2, <2>3 DEF Next, Finished
<1>3. Sessions => DeadSessionBound
  BY DEF Sessions, DeadSessionBound
<1>. QED  BY <1>1, <1>2, <1>3, TypeCorrect, PTL DEF Spec
=============================================================================
