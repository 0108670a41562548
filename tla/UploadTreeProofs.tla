-------------------------- MODULE UploadTreeProofs --------------------------
(* Proofs about UploadTree, for every disk, request, remote tree, number of  *)
(* workers and bound: what its state keeps to, and what one upload does to   *)
(* the remote tree.                                                          *)
EXTENDS UploadTree, SequenceTheorems, FiniteSetTheorems, WellFoundedInduction, TLAPS

Path == Seq(Names)
Chaining == {"stat", "mkdir", "again"}
Filing == {"open", "write"}
Busy == Chaining \cup Filing
Running == {"run", "done"}

GoodEntry(e) ==
  /\ e.kind \in {"Dir", "File"} /\ e.rel \in Path
  /\ e.kind = "File" => Size[e.data] \in Nat

Typed ==
  /\ request \in Requests
  /\ main_pc \in {"start", "probe", "run", "done", "refused"}
  /\ Len(entries) \in Nat
  /\ \A i \in 1 .. Len(entries) : GoodEntry(entries[i])
  /\ next \in 1 .. Len(entries) + 1
  /\ failed \subseteq 1 .. next - 1
  /\ target_is_dir_final \in BOOLEAN
  /\ faults \in 0 .. MaxFaults /\ runs \in 1 .. MaxRuns
  /\ pc \in [Workers -> Busy \cup {"recv", "exited"}]
  /\ entry \in [Workers -> 0 .. next - 1]
  /\ attempt \in [Workers -> 0 .. MaxRetries]
  /\ comp \in [Workers -> Nat] /\ tries \in [Workers -> 0 .. MaxAttempts]
  /\ pos \in [Workers -> Nat]
  /\ created_dirs \in [Workers -> SUBSET Path]

(* The root stays a directory, and a node has the two fields of a node. *)
Rooted ==
  /\ \A p \in DOMAIN remote :
       DOMAIN remote[p] = {"dir", "data"} /\ remote[p].dir \in BOOLEAN
  /\ IsDir(<<>>)

(* Before the workers start nothing has happened yet. *)
Quiet ==
  main_pc \notin Running =>
    remote = found /\ next = 1 /\ failed = {} /\ \A w \in Workers : pc[w] = "recv"

(* A worker in the chain stands below directories that are there; one at a   *)
(* file has made its directory, or needs none.                               *)
InChain(w) ==
  pc[w] \in Chaining =>
    /\ tries[w] < MaxAttempts
    /\ comp[w] \in 1 .. Len(DirPath(Mine(w)))
    /\ \A k \in 0 .. comp[w] - 1 : IsDir(SubSeq(DirPath(Mine(w)), 1, k))
SeenAgain(w) == pc[w] = "again" /\ faults = 0 => Component(w) \in DOMAIN remote
AtFile(w) ==
  /\ pc[w] \in Filing =>
       Mine(w).kind = "File" /\ DirPath(Mine(w)) \in created_dirs[w] \cup {<<>>}
  /\ pc[w] = "write" =>
       IsFile(RemotePath(Mine(w))) /\ pos[w] \in 1 .. Size[Mine(w).data] + 1
Made(w) == \A d \in created_dirs[w] : IsDir(d)
Holds(w) == pc[w] \in Busy => entry[w] \in (1 .. next - 1) \ failed
WorkerOK(w) == InChain(w) /\ SeenAgain(w) /\ AtFile(w) /\ Made(w) /\ Holds(w)

(* No entry is in two hands. *)
Apart ==
  \A w, v \in Workers : w # v /\ pc[w] \in Busy /\ pc[v] \in Busy => entry[w] # entry[v]

Base == Typed /\ Rooted /\ Quiet /\ Apart /\ \A w \in Workers : WorkerOK(w)
-----------------------------------------------------------------------------
(* Induction over the numbers, as the least member of a set. *)

Less == {ss \in Nat \X Nat : ss[1] < ss[2]}

(* A set of numbers that is not empty has a least member. *)
LEMMA LeastOf ==
  ASSUME NEW S \in SUBSET Nat, S # {}
  PROVE  \E n \in S : \A m \in S : n =< m
<1>1. IsWellFoundedOn(Less, Nat)
  BY NatLessThanWellFounded DEF OpToRel, Less
<1>2. PICK n \in S : \A m \in S : ~(<<m, n>> \in Less)
  BY <1>1, WFMin
<1>3. \A m \in S : ~(m < n)
  BY <1>2 DEF Less
<1>. QED BY <1>3

(* A set that holds 0 and, below a bound, the successor of what it holds, is *)
(* everything up to the bound.                                               *)
LEMMA UpTo ==
  ASSUME NEW S, NEW n \in Nat, 0 \in S,
         \A k \in 0 .. n : k \in S /\ k < n => k + 1 \in S
  PROVE  \A k \in 0 .. n : k \in S
<1>. DEFINE Bad == (0 .. n) \ S
<1>. SUFFICES ASSUME Bad # {} PROVE FALSE
  OBVIOUS
<1>0. Bad \in SUBSET Nat
  OBVIOUS
<1>1. PICK k \in Bad : \A m \in Bad : k =< m
  BY <1>0, LeastOf
<1>2. k # 0
  BY <1>1
<1>3. k - 1 \in 0 .. n /\ k - 1 < n
  BY <1>1, <1>2
<1>4. k - 1 \in S
  BY <1>1, <1>3
<1>5. k - 1 + 1 = k
  BY <1>3
<1>. QED BY <1>3, <1>4, <1>5
-----------------------------------------------------------------------------
(* Paths and the remote tree. *)

(* What is cut from the front of a path, and the path above that. *)
LEMMA PathPrefixes ==
  ASSUME NEW D \in Path, NEW c \in 0 .. Len(D)
  PROVE  /\ SubSeq(D, 1, c) \in Path /\ Len(SubSeq(D, 1, c)) = c
         /\ SubSeq(D, 1, 0) = <<>>
         /\ c # 0 => Front(SubSeq(D, 1, c)) = SubSeq(D, 1, c - 1)
         /\ SubSeq(D, 1, Len(D)) = D
<1>1. Len(D) \in Nat /\ \A i \in 1 .. Len(D) : D[i] \in Names
  BY DEF Path
<1>2. SubSeq(D, 1, c) \in Path /\ Len(SubSeq(D, 1, c)) = c
  BY <1>1, SubSeqProperties DEF Path
<1>3. SubSeq(D, 1, 0) = <<>>
  BY SubSeqEmpty
<1>4. SubSeq(D, 1, Len(D)) = D
  BY SubSeqFull DEF Path
<1>5. ASSUME c # 0 PROVE Front(SubSeq(D, 1, c)) = SubSeq(D, 1, c - 1)
  <2>1. Front(SubSeq(D, 1, c)) = SubSeq(SubSeq(D, 1, c), 1, c - 1)
    BY <1>2 DEF Front
  <2>2. CASE c = 1
    BY <2>1, <2>2, SubSeqEmpty
  <2>3. CASE c # 1
    <3>1. c - 1 \in 1 .. c - 1 + 1 /\ c \in 1 .. Len(D) /\ 1 \in 1 .. Len(D) /\ 1 \in 1 .. c - 1 + 1
      BY <1>1, <1>5, <2>3
    <3>2. SubSeq(SubSeq(D, 1, c), 1, c - 1) = SubSeq(D, 1 + 1 - 1, 1 + (c - 1) - 1)
      BY <3>1, SubSeqOfSubSeq DEF Path
    <3>. QED BY <2>1, <3>1, <3>2
  <2>. QED BY <2>2, <2>3
<1>. QED BY <1>2, <1>3, <1>4, <1>5

(* Where an entry goes is a path, and so is the directory it needs. *)
LEMMA PathTypes ==
  ASSUME request.target \in Path, NEW e, GoodEntry(e)
  PROVE  /\ RemotePath(e) \in Path /\ DirPath(e) \in Path
         /\ Len(DirPath(e)) \in Nat
         /\ DirPath(e) # <<>> => 1 \in 1 .. Len(DirPath(e))
<1>1. RemotePath(e) \in Path
  BY ConcatProperties DEF RemotePath, GoodEntry, Path
<1>2. Front(RemotePath(e)) \in Path
  <2>1. \A i \in 1 .. Len(RemotePath(e)) - 1 : RemotePath(e)[i] \in Names
    BY <1>1 DEF Path
  <2>2. Len(RemotePath(e)) - 1 \in Int
    BY <1>1 DEF Path
  <2>. QED BY <2>1, <2>2, SubSeqProperties DEF Front, Path
<1>3. DirPath(e) \in Path
  BY <1>1, <1>2 DEF DirPath
<1>. QED BY <1>1, <1>3, EmptySeq DEF Path

(* The tree never loses a node, nor turns a file into a directory. *)
Kept ==
  \A p : /\ p \in DOMAIN remote => p \in DOMAIN remote'
         /\ IsDir(p) => IsDir(p)'
         /\ IsFile(p) => IsFile(p)'

(* Making a directory where nothing is. *)
LEMMA MkdirKeeps ==
  ASSUME Rooted, NEW p, p \notin DOMAIN remote, remote' = WithNode(p, Directory)
  PROVE  Rooted' /\ Kept /\ IsDir(p)' /\ p \in DOMAIN remote'
<1>1. DOMAIN remote' = DOMAIN remote \cup {p}
  BY DEF WithNode
<1>2. \A q \in DOMAIN remote : remote'[q] = remote[q]
  BY DEF WithNode
<1>3. remote'[p] = Directory
  BY DEF WithNode
<1>4. DOMAIN Directory = {"dir", "data"} /\ Directory.dir = TRUE
  BY DEF Directory
<1>5. Kept /\ IsDir(p)'
  BY <1>1, <1>2, <1>3, <1>4 DEF Kept, IsDir, IsFile
<1>6. IsDir(<<>>)'
  BY <1>5 DEF Kept, Rooted
<1>7. \A q \in DOMAIN remote' : DOMAIN remote'[q] = {"dir", "data"} /\ remote'[q].dir \in BOOLEAN
  BY <1>1, <1>2, <1>3, <1>4 DEF Rooted
<1>. QED BY <1>1, <1>5, <1>6, <1>7 DEF Rooted

(* Opening a file truncates it or makes it. *)
LEMMA OpenKeepsTree ==
  ASSUME Rooted, NEW p, ~IsDir(p), remote' = WithNode(p, [dir |-> FALSE, data |-> <<>>])
  PROVE  /\ Rooted' /\ Kept /\ IsFile(p)'
         /\ remote'[p].data = <<>>
         /\ \A q \in DOMAIN remote \ {p} : remote'[q] = remote[q]
         /\ DOMAIN remote' = DOMAIN remote \cup {p}
<1>1. DOMAIN remote' = DOMAIN remote \cup {p}
  BY DEF WithNode
<1>2. \A q \in DOMAIN remote \ {p} : remote'[q] = remote[q]
  BY DEF WithNode
<1>3. remote'[p] = [dir |-> FALSE, data |-> <<>>]
  BY DEF WithNode
<1>4. DOMAIN remote'[p] = {"dir", "data"} /\ remote'[p].dir = FALSE /\ remote'[p].data = <<>>
  BY <1>3
<1>5. Kept /\ IsFile(p)'
  BY <1>1, <1>2, <1>4 DEF Kept, IsDir, IsFile
<1>6. IsDir(<<>>)'
  BY <1>5 DEF Kept, Rooted
<1>7. \A q \in DOMAIN remote' : DOMAIN remote'[q] = {"dir", "data"} /\ remote'[q].dir \in BOOLEAN
  BY <1>1, <1>2, <1>4 DEF Rooted
<1>. QED BY <1>1, <1>2, <1>4, <1>5, <1>6, <1>7 DEF Rooted

(* Writing a chunk changes the data of one file. *)
LEMMA WriteKeeps ==
  ASSUME Rooted, NEW p, NEW x, IsFile(p), remote' = [remote EXCEPT ![p].data = x]
  PROVE  /\ Rooted' /\ Kept /\ IsFile(p)'
         /\ remote'[p].data = x
         /\ \A q \in DOMAIN remote \ {p} : remote'[q] = remote[q]
         /\ DOMAIN remote' = DOMAIN remote
<1>1. DOMAIN remote' = DOMAIN remote /\ p \in DOMAIN remote
  BY DEF IsFile
<1>2. \A q \in DOMAIN remote \ {p} : remote'[q] = remote[q]
  OBVIOUS
<1>3. remote'[p] = [remote[p] EXCEPT !.data = x]
  BY <1>1
<1>4. DOMAIN remote[p] = {"dir", "data"} /\ remote[p].dir = FALSE
  BY <1>1 DEF Rooted, IsFile
<1>5. DOMAIN remote'[p] = {"dir", "data"} /\ remote'[p].dir = FALSE /\ remote'[p].data = x
  BY <1>3, <1>4
<1>6. Kept /\ IsFile(p)'
  BY <1>1, <1>2, <1>5 DEF Kept, IsDir, IsFile
<1>7. IsDir(<<>>)'
  BY <1>6 DEF Kept, Rooted
<1>8. \A q \in DOMAIN remote' : DOMAIN remote'[q] = {"dir", "data"} /\ remote'[q].dir \in BOOLEAN
  BY <1>1, <1>2, <1>5 DEF Rooted
<1>. QED BY <1>1, <1>2, <1>5, <1>6, <1>7, <1>8 DEF Rooted

(* A step that leaves the tree alone. *)
LEMMA SameTree ==
  ASSUME Rooted, remote' = remote
  PROVE  Rooted' /\ Kept
BY DEF Rooted, Kept, IsDir, IsFile
-----------------------------------------------------------------------------
(* Patterns. *)

(* The pattern from i on can be laid over the text from j on. *)
Laid(pat, text, cut, k) ==
  IF pat[k] = "*" THEN cut[k - 1] =< cut[k]
  ELSE cut[k] = cut[k - 1] + 1 /\ pat[k] \in {"?", text[cut[k]]}
Covers(pat, text, i, j) ==
  \E cut \in [i - 1 .. Len(pat) -> 0 .. Len(text)] :
    /\ cut[i - 1] = j - 1 /\ cut[Len(pat)] = Len(text)
    /\ \A k \in i .. Len(pat) : Laid(pat, text, cut, k)

(* A layout of the rest of a pattern grows by the character before it.      *)
LEMMA Extend ==
  ASSUME NEW pat, NEW text, Len(pat) \in Nat, Len(text) \in Nat,
         NEW i \in 1 .. Len(pat), NEW j \in 1 .. Len(text) + 1,
         NEW cut \in [i .. Len(pat) -> 0 .. Len(text)],
         cut[Len(pat)] = Len(text),
         \A k \in i + 1 .. Len(pat) : Laid(pat, text, cut, k),
         IF pat[i] = "*" THEN j - 1 =< cut[i]
         ELSE cut[i] = j /\ pat[i] \in {"?", text[j]}
  PROVE  Covers(pat, text, i, j)
<1>. DEFINE c == [k \in i - 1 .. Len(pat) |-> IF k = i - 1 THEN j - 1 ELSE cut[k]]
<1>1. c \in [i - 1 .. Len(pat) -> 0 .. Len(text)]
  <2>1. ASSUME NEW k \in i - 1 .. Len(pat), k # i - 1 PROVE k \in i .. Len(pat)
    BY <2>1
  <2>2. j - 1 \in 0 .. Len(text)
    OBVIOUS
  <2>. QED BY <2>1, <2>2
<1>2. c[i - 1] = j - 1 /\ \A k \in i .. Len(pat) : c[k] = cut[k]
  OBVIOUS
<1>3. ASSUME NEW k \in i .. Len(pat) PROVE Laid(pat, text, c, k)
  <2>1. CASE k = i
    BY <1>2, <2>1 DEF Laid
  <2>2. CASE k # i
    <3>1. k \in i + 1 .. Len(pat) /\ k - 1 \in i .. Len(pat)
      BY <2>2
    <3>2. c[k] = cut[k] /\ c[k - 1] = cut[k - 1]
      BY <1>2, <3>1
    <3>3. Laid(pat, text, cut, k)
      BY <3>1
    <3>. QED BY <3>2, <3>3 DEF Laid
  <2>. QED BY <2>1, <2>2
<1>4. c[Len(pat)] = Len(text)
  BY <1>2
<1>. HIDE DEF c
<1>. QED BY <1>1, <1>2, <1>3, <1>4 DEF Covers

(* And the other way round: what a layout says of its first character.      *)
LEMMA Shorten ==
  ASSUME NEW pat, NEW text, Len(pat) \in Nat, Len(text) \in Nat,
         NEW i \in 1 .. Len(pat), NEW j \in 1 .. Len(text) + 1, Covers(pat, text, i, j)
  PROVE  \E cut \in [i .. Len(pat) -> 0 .. Len(text)] :
           /\ cut[Len(pat)] = Len(text)
           /\ \A k \in i + 1 .. Len(pat) : Laid(pat, text, cut, k)
           /\ IF pat[i] = "*" THEN j - 1 =< cut[i]
              ELSE cut[i] = j /\ pat[i] \in {"?", text[j]}
<1>1. PICK c \in [i - 1 .. Len(pat) -> 0 .. Len(text)] :
        /\ c[i - 1] = j - 1 /\ c[Len(pat)] = Len(text)
        /\ \A k \in i .. Len(pat) : Laid(pat, text, c, k)
  BY DEF Covers
<1>. DEFINE cut == [k \in i .. Len(pat) |-> c[k]]
<1>2. cut \in [i .. Len(pat) -> 0 .. Len(text)]
  OBVIOUS
<1>3. cut[Len(pat)] = Len(text)
  BY <1>1
<1>4. ASSUME NEW k \in i + 1 .. Len(pat) PROVE Laid(pat, text, cut, k)
  <2>1. k \in i .. Len(pat) /\ k - 1 \in i .. Len(pat)
    OBVIOUS
  <2>2. cut[k] = c[k] /\ cut[k - 1] = c[k - 1]
    BY <2>1
  <2>3. Laid(pat, text, c, k)
    BY <1>1, <2>1
  <2>. QED BY <2>2, <2>3 DEF Laid
<1>5. IF pat[i] = "*" THEN j - 1 =< cut[i] ELSE cut[i] = j /\ pat[i] \in {"?", text[j]}
  <2>1. Laid(pat, text, c, i) /\ c[i - 1] = j - 1 /\ cut[i] = c[i]
    BY <1>1
  <2>2. j - 1 + 1 = j
    OBVIOUS
  <2>. QED BY <2>1, <2>2 DEF Laid
<1>. HIDE DEF cut
<1>. QED BY <1>2, <1>3, <1>4, <1>5

(* Laying a pattern over a text follows the recurrence of wildcard_match. *)
LEMMA CoversStep ==
  ASSUME NEW pat, NEW text, Len(pat) \in Nat, Len(text) \in Nat,
         NEW i \in 1 .. Len(pat) + 1, NEW j \in 1 .. Len(text) + 1
  PROVE  Covers(pat, text, i, j) <=>
           IF i > Len(pat) THEN j > Len(text)
           ELSE IF pat[i] = "*"
           THEN Covers(pat, text, i + 1, j) \/ (j =< Len(text) /\ Covers(pat, text, i, j + 1))
           ELSE j =< Len(text) /\ pat[i] \in {"?", text[j]} /\ Covers(pat, text, i + 1, j + 1)
<1>1. CASE i > Len(pat)
  <2>1. i = Len(pat) + 1 /\ i - 1 = Len(pat)
    BY <1>1
  <2>2. ASSUME Covers(pat, text, i, j) PROVE j > Len(text)
    <3>1. PICK c \in [i - 1 .. Len(pat) -> 0 .. Len(text)] :
            c[i - 1] = j - 1 /\ c[Len(pat)] = Len(text)
      BY <2>2 DEF Covers
    <3>. QED BY <2>1, <3>1
  <2>3. ASSUME j > Len(text) PROVE Covers(pat, text, i, j)
    <3>. DEFINE c == [k \in i - 1 .. Len(pat) |-> Len(text)]
    <3>1. c \in [i - 1 .. Len(pat) -> 0 .. Len(text)]
      OBVIOUS
    <3>2. c[i - 1] = j - 1 /\ c[Len(pat)] = Len(text)
      BY <2>1, <2>3
    <3>3. \A k \in i .. Len(pat) : FALSE
      BY <2>1
    <3>. HIDE DEF c
    <3>. QED BY <3>1, <3>2, <3>3 DEF Covers
  <2>. QED BY <1>1, <2>2, <2>3
<1>2. CASE i =< Len(pat)
  <2>0. i \in 1 .. Len(pat)
    BY <1>2
  <2>1. ASSUME Covers(pat, text, i, j), pat[i] = "*"
        PROVE  Covers(pat, text, i + 1, j) \/ (j =< Len(text) /\ Covers(pat, text, i, j + 1))
    <3>1. PICK cut \in [i .. Len(pat) -> 0 .. Len(text)] :
            /\ cut[Len(pat)] = Len(text)
            /\ \A k \in i + 1 .. Len(pat) : Laid(pat, text, cut, k)
            /\ j - 1 =< cut[i]
      BY <2>0, <2>1, Shorten
    <3>2. cut[i] \in 0 .. Len(text)
      BY <2>0
    <3>3. CASE cut[i] = j - 1
      <4>1. i + 1 - 1 = i
        BY <2>0
      <4>. QED BY <3>1, <3>3, <4>1 DEF Covers
    <3>4. CASE cut[i] # j - 1
      <4>. DEFINE b == j + 1
      <4>1. j =< Len(text) /\ b \in 1 .. Len(text) + 1 /\ b - 1 =< cut[i]
        BY <3>1, <3>2, <3>4
      <4>. HIDE DEF b
      <4>2. Covers(pat, text, i, b)
        BY <2>0, <2>1, <3>1, <4>1, Extend
      <4>. QED BY <4>1, <4>2 DEF b
    <3>. QED BY <3>3, <3>4
  <2>2. ASSUME Covers(pat, text, i, j), pat[i] # "*"
        PROVE  j =< Len(text) /\ pat[i] \in {"?", text[j]} /\ Covers(pat, text, i + 1, j + 1)
    <3>1. PICK cut \in [i .. Len(pat) -> 0 .. Len(text)] :
            /\ cut[Len(pat)] = Len(text)
            /\ \A k \in i + 1 .. Len(pat) : Laid(pat, text, cut, k)
            /\ cut[i] = j /\ pat[i] \in {"?", text[j]}
      BY <2>0, <2>2, Shorten
    <3>2. cut[i] \in 0 .. Len(text)
      BY <2>0
    <3>3. i + 1 - 1 = i /\ j + 1 - 1 = j
      BY <2>0
    <3>. QED BY <3>1, <3>2, <3>3 DEF Covers
  <2>3. ASSUME NEW b \in 1 .. Len(text) + 1, Covers(pat, text, i + 1, b),
               IF pat[i] = "*" THEN b = j ELSE b = j + 1 /\ pat[i] \in {"?", text[j]}
        PROVE  Covers(pat, text, i, j)
    <3>0. i + 1 - 1 = i
      BY <2>0
    <3>1. PICK cut \in [i .. Len(pat) -> 0 .. Len(text)] :
            /\ cut[i] = b - 1 /\ cut[Len(pat)] = Len(text)
            /\ \A k \in i + 1 .. Len(pat) : Laid(pat, text, cut, k)
      <4>1. PICK cut \in [i + 1 - 1 .. Len(pat) -> 0 .. Len(text)] :
              /\ cut[i + 1 - 1] = b - 1 /\ cut[Len(pat)] = Len(text)
              /\ \A k \in i + 1 .. Len(pat) : Laid(pat, text, cut, k)
        <5>1. Covers(pat, text, i + 1, b)
          BY <2>3
        <5>. QED BY ONLY <5>1 DEF Covers
      <4>2. cut \in [i .. Len(pat) -> 0 .. Len(text)] /\ cut[i] = b - 1
        BY <3>0, <4>1
      <4>. QED BY <4>1, <4>2
    <3>2. IF pat[i] = "*" THEN j - 1 =< cut[i] ELSE cut[i] = j /\ pat[i] \in {"?", text[j]}
      BY <2>3, <3>1
    <3>. QED BY <2>0, <3>1, <3>2, Extend
  <2>4. ASSUME pat[i] = "*", j =< Len(text), Covers(pat, text, i, j + 1)
        PROVE  Covers(pat, text, i, j)
    <3>0. PICK b \in 1 .. Len(text) + 1 : b = j + 1
      BY <2>4
    <3>1. PICK cut \in [i .. Len(pat) -> 0 .. Len(text)] :
            /\ cut[Len(pat)] = Len(text)
            /\ \A k \in i + 1 .. Len(pat) : Laid(pat, text, cut, k)
            /\ b - 1 =< cut[i]
      <4>1. Covers(pat, text, i, b)
        BY <2>4, <3>0
      <4>2. \E cut \in [i .. Len(pat) -> 0 .. Len(text)] :
              /\ cut[Len(pat)] = Len(text)
              /\ \A k \in i + 1 .. Len(pat) : Laid(pat, text, cut, k)
              /\ IF pat[i] = "*" THEN b - 1 =< cut[i]
                 ELSE cut[i] = b /\ pat[i] \in {"?", text[b]}
        BY <2>0, <4>1, Shorten
      <4>. QED BY <2>4, <4>2
    <3>2. cut[i] \in 0 .. Len(text)
      BY <2>0
    <3>3. j - 1 =< cut[i]
      BY <3>0, <3>1, <3>2
    <3>. QED BY <2>0, <2>4, <3>1, <3>3, Extend
  <2>5. CASE pat[i] = "*"
    BY <1>2, <2>1, <2>3, <2>4, <2>5
  <2>6. CASE pat[i] # "*"
    <3>1. j =< Len(text) => j + 1 \in 1 .. Len(text) + 1
      OBVIOUS
    <3>. QED BY <1>2, <2>2, <2>3, <2>6, <3>1
  <2>. QED BY <2>5, <2>6
<1>. QED BY <1>1, <1>2


(* One step of wildcard_match's recurrence, and what it finds if the steps   *)
(* after it find what they should.                                           *)
Tried(pat, text, h, i, j) ==
  IF i > Len(pat) THEN j > Len(text)
  ELSE IF pat[i] = "*"
  THEN h[<<i + 1, j>>] \/ (j =< Len(text) /\ h[<<i, j + 1>>])
  ELSE j =< Len(text) /\ pat[i] \in {"?", text[j]} /\ h[<<i + 1, j + 1>>]

LEMMA TriedCovers ==
  ASSUME NEW pat, NEW text, Len(pat) \in Nat, Len(text) \in Nat, NEW h,
         NEW i \in 1 .. Len(pat) + 1, NEW j \in 1 .. Len(text) + 1,
         i =< Len(pat) => (h[<<i + 1, j>>] <=> Covers(pat, text, i + 1, j)),
         j =< Len(text) => (h[<<i, j + 1>>] <=> Covers(pat, text, i, j + 1)),
         i =< Len(pat) /\ j =< Len(text) =>
           (h[<<i + 1, j + 1>>] <=> Covers(pat, text, i + 1, j + 1))
  PROVE  Covers(pat, text, i, j) <=> Tried(pat, text, h, i, j)
<1>1. Covers(pat, text, i, j) <=>
        IF i > Len(pat) THEN j > Len(text)
        ELSE IF pat[i] = "*"
        THEN Covers(pat, text, i + 1, j) \/ (j =< Len(text) /\ Covers(pat, text, i, j + 1))
        ELSE j =< Len(text) /\ pat[i] \in {"?", text[j]} /\ Covers(pat, text, i + 1, j + 1)
  BY CoversStep
<1>2. ~(i > Len(pat)) <=> i =< Len(pat)
  OBVIOUS
<1>3. CASE i > Len(pat)
  BY <1>1, <1>3, Zenon DEF Tried
<1>4. CASE ~(i > Len(pat)) /\ pat[i] = "*"
  BY <1>1, <1>2, <1>4, Zenon DEF Tried
<1>5. CASE ~(i > Len(pat)) /\ pat[i] # "*"
  BY <1>1, <1>2, <1>5, Zenon DEF Tried
<1>. QED BY <1>3, <1>4, <1>5, Zenon

(* It finds something or not.                                                *)
LEMMA TriedBoolean ==
  ASSUME NEW pat, NEW text, NEW h, NEW i, NEW j
  PROVE  Tried(pat, text, h, i, j) \in BOOLEAN
<1>1. CASE i > Len(pat)
  <2>1. (j > Len(text)) \in BOOLEAN
    OBVIOUS
  <2>. QED BY <1>1, <2>1, Zenon DEF Tried
<1>2. CASE ~(i > Len(pat)) /\ pat[i] = "*"
  <2>1. (h[<<i + 1, j>>] \/ (j =< Len(text) /\ h[<<i, j + 1>>])) \in BOOLEAN
    BY Zenon
  <2>. QED BY <1>2, <2>1, Zenon DEF Tried
<1>3. CASE ~(i > Len(pat)) /\ pat[i] # "*"
  <2>1. (j =< Len(text) /\ pat[i] \in {"?", text[j]} /\ h[<<i + 1, j + 1>>]) \in BOOLEAN
    BY Zenon
  <2>. QED BY <1>3, <2>1, Zenon DEF Tried
<1>. QED BY <1>1, <1>2, <1>3, Zenon

(* wildcard_match finds exactly the texts the pattern can be laid over.      *)
LEMMA MatchIsCover ==
  ASSUME NEW pat, NEW text, Len(pat) \in Nat, Len(text) \in Nat
  PROVE  wildcard_match(pat, text) <=> Covers(pat, text, 1, 1)
<1>. DEFINE m == Len(pat)
            n == Len(text)
            Cells == (1 .. m + 1) \X (1 .. n + 1)
            Fix(h) == h = [at \in Cells |-> Tried(pat, text, h, at[1], at[2])]
            f == [at \in Cells |-> Covers(pat, text, at[1], at[2])]
            helper == CHOOSE h : Fix(h)
<1>0. m \in Nat /\ n \in Nat
  OBVIOUS
<1>1. \A i \in 1 .. m + 1, j \in 1 .. n + 1 : f[<<i, j>>] = Covers(pat, text, i, j)
  OBVIOUS
<1>2. ASSUME NEW i \in 1 .. m + 1, NEW j \in 1 .. n + 1
      PROVE  /\ i =< Len(pat) => i + 1 \in 1 .. m + 1 /\ (i + 1) + j > i + j
             /\ j =< Len(text) => j + 1 \in 1 .. n + 1 /\ i + (j + 1) > i + j
             /\ i =< Len(pat) /\ j =< Len(text) => (i + 1) + (j + 1) > i + j
  BY <1>0
<1>3. \A at \in Cells : f[at] = Tried(pat, text, f, at[1], at[2])
  <2>1. ASSUME NEW i \in 1 .. m + 1, NEW j \in 1 .. n + 1
        PROVE  f[<<i, j>>] = Tried(pat, text, f, i, j)
    <3>. HIDE DEF f
    <3>1. /\ i =< Len(pat) => (f[<<i + 1, j>>] <=> Covers(pat, text, i + 1, j))
          /\ j =< Len(text) => (f[<<i, j + 1>>] <=> Covers(pat, text, i, j + 1))
          /\ i =< Len(pat) /\ j =< Len(text) =>
               (f[<<i + 1, j + 1>>] <=> Covers(pat, text, i + 1, j + 1))
      BY <1>1, <1>2
    <3>2. Covers(pat, text, i, j) <=> Tried(pat, text, f, i, j)
      BY <3>1, TriedCovers
    <3>3. Covers(pat, text, i, j) \in BOOLEAN
      BY DEF Covers
    <3>4. Tried(pat, text, f, i, j) \in BOOLEAN
      BY TriedBoolean
    <3>. QED BY <1>1, <3>2, <3>3, <3>4
  <2>. HIDE DEF f
  <2>. QED BY <2>1
<1>4. Fix(f)
  BY <1>3, Zenon
<1>5. Fix(helper)
  <2>. HIDE DEF Fix
  <2>. QED BY <1>4
<1>6. wildcard_match(pat, text) = helper[<<1, 1>>]
  BY DEF wildcard_match, Tried
<1>7. \A i \in 1 .. m + 1, j \in 1 .. n + 1 : helper[<<i, j>>] = Tried(pat, text, helper, i, j)
  <2>1. ASSUME NEW h, Fix(h), NEW i \in 1 .. m + 1, NEW j \in 1 .. n + 1
        PROVE  h[<<i, j>>] = Tried(pat, text, h, i, j)
    BY <2>1
  <2>. HIDE DEF Fix, helper
  <2>. QED BY <1>5, <2>1
<1>. HIDE DEF f, Fix, Cells, helper
<1>. DEFINE Left(i, j) == (m + 1 - i) + (n + 1 - j)
            Bad == {d \in 0 .. m + n : \E i \in 1 .. m + 1, j \in 1 .. n + 1 :
                     /\ d = Left(i, j)
                     /\ ~(helper[<<i, j>>] <=> Covers(pat, text, i, j))}
<1>8. ASSUME NEW i \in 1 .. m + 1, NEW j \in 1 .. n + 1
      PROVE  /\ Left(i, j) \in 0 .. m + n
             /\ \A a \in 1 .. m + 1, b \in 1 .. n + 1 :
                  a + b > i + j => Left(a, b) < Left(i, j)
  BY <1>0
<1>. HIDE DEF Left
<1>9. \A i \in 1 .. m + 1, j \in 1 .. n + 1 :
        Left(i, j) \notin Bad => (helper[<<i, j>>] <=> Covers(pat, text, i, j))
  BY <1>8
<1>10. Bad = {}
  <2>. SUFFICES ASSUME Bad # {} PROVE FALSE
    OBVIOUS
  <2>1. Bad \in SUBSET Nat
    OBVIOUS
  <2>2. PICK d \in Bad : \A e \in Bad : d =< e
    <3>. HIDE DEF Bad
    <3>. QED BY <2>1, LeastOf
  <2>3. PICK i \in 1 .. m + 1, j \in 1 .. n + 1 :
          d = Left(i, j) /\ ~(helper[<<i, j>>] <=> Covers(pat, text, i, j))
    BY <2>2
  <2>. HIDE DEF Bad
  <2>4. ASSUME NEW a \in 1 .. m + 1, NEW b \in 1 .. n + 1, a + b > i + j
        PROVE  helper[<<a, b>>] <=> Covers(pat, text, a, b)
    <3>1. Left(a, b) < d /\ Left(a, b) \in Nat /\ d \in Nat
      BY <1>8, <2>1, <2>3, <2>4
    <3>2. Left(a, b) \notin Bad
      BY <2>2, <3>1
    <3>. QED BY <1>9, <3>2
  <2>5. /\ i =< Len(pat) => (helper[<<i + 1, j>>] <=> Covers(pat, text, i + 1, j))
        /\ j =< Len(text) => (helper[<<i, j + 1>>] <=> Covers(pat, text, i, j + 1))
        /\ i =< Len(pat) /\ j =< Len(text) =>
             (helper[<<i + 1, j + 1>>] <=> Covers(pat, text, i + 1, j + 1))
    BY <1>2, <2>4
  <2>6. Covers(pat, text, i, j) <=> Tried(pat, text, helper, i, j)
    BY <2>5, TriedCovers
  <2>7. helper[<<i, j>>] = Tried(pat, text, helper, i, j)
    BY <1>7
  <2>. QED BY <2>3, <2>6, <2>7
<1>11. helper[<<1, 1>>] <=> Covers(pat, text, 1, 1)
  <2>1. 1 \in 1 .. m + 1 /\ 1 \in 1 .. n + 1
    BY <1>0
  <2>2. Left(1, 1) \notin Bad
    BY <1>10
  <2>. HIDE DEF Bad
  <2>. QED BY <1>9, <2>1, <2>2
<1>. QED BY <1>6, <1>11

(* wildcard_match and the definition of a match agree on every two names.   *)
LEMMA MatchIsMatches ==
  ASSUME NEW pat \in Names, NEW text \in Names
  PROVE  wildcard_match(pat, text) <=> Matches(pat, text)
<1>1. Len(pat) \in Nat /\ Len(text) \in Nat /\ DOMAIN pat = 1 .. Len(pat)
  BY NamesAssumption
<1>2. Covers(pat, text, 1, 1) <=> Matches(pat, text)
  <2>1. Covers(pat, text, 1, 1) <=>
          \E cut \in [0 .. Len(pat) -> 0 .. Len(text)] :
            /\ cut[0] = 0 /\ cut[Len(pat)] = Len(text)
            /\ \A k \in 1 .. Len(pat) : Laid(pat, text, cut, k)
    BY DEF Covers
  <2>. QED BY <1>1, <2>1 DEF Laid, Matches
<1>. QED BY <1>1, <1>2, MatchIsCover
-----------------------------------------------------------------------------
(* What the sequences of several listings are flattened to. *)

Good(ss, g, S, k) ==
  /\ g \in [1 .. k -> Seq(S)]
  /\ \A i \in 1 .. k : g[i] = IF i = 1 THEN ss[i] ELSE g[i - 1] \o ss[i]

(* Joining the first k sequences, then the next one. *)
LEMMA JoinStep ==
  ASSUME NEW S, NEW ss, NEW k \in Nat, NEW z \in Nat, z = k + 1, ss[z] \in Seq(S),
         NEW g, Good(ss, g, S, k)
  PROVE  \E h : Good(ss, h, S, z)
<1>. DEFINE new == IF z = 1 THEN ss[z] ELSE g[z - 1] \o ss[z]
            h == [i \in 1 .. z |-> IF i = z THEN new ELSE g[i]]
<1>1. z - 1 = k /\ z \in 1 .. z /\ \A i \in 1 .. z : i = z \/ (i \in 1 .. k /\ i # z)
  OBVIOUS
<1>2. \A i \in 1 .. k : i \in 1 .. z /\ i # z /\ (i # 1 => i - 1 \in 1 .. k)
  OBVIOUS
<1>3. new \in Seq(S)
  <2>1. CASE z = 1
    BY <2>1
  <2>2. CASE z # 1
    <3>1. z - 1 \in 1 .. k
      BY <2>2
    <3>2. g[z - 1] \in Seq(S)
      BY <3>1 DEF Good
    <3>. QED BY <2>2, <3>2, ConcatProperties
  <2>. QED BY <2>1, <2>2
<1>. HIDE DEF new
<1>4. h[z] = new /\ \A i \in 1 .. k : h[i] = g[i]
  BY <1>1, <1>2
<1>5. h = [i \in 1 .. z |-> h[i]]
  OBVIOUS
<1>. HIDE DEF h
<1>6. ASSUME NEW i \in 1 .. k
      PROVE  h[i] \in Seq(S) /\ h[i] = IF i = 1 THEN ss[i] ELSE h[i - 1] \o ss[i]
  BY <1>2, <1>4 DEF Good
<1>7. h[z] \in Seq(S) /\ h[z] = IF z = 1 THEN ss[z] ELSE h[z - 1] \o ss[z]
  <2>1. z # 1 => z - 1 \in 1 .. k
    OBVIOUS
  <2>2. z # 1 => h[z - 1] = g[z - 1]
    BY <1>4, <2>1
  <2>. QED BY <1>3, <1>4, <2>2 DEF new
<1>8. \A i \in 1 .. z : h[i] \in Seq(S) /\ h[i] = IF i = 1 THEN ss[i] ELSE h[i - 1] \o ss[i]
  BY <1>1, <1>6, <1>7
<1>. QED BY <1>5, <1>8 DEF Good

(* FlattenSeq joins its sequences one after the other. *)
LEMMA JoinExists ==
  ASSUME NEW S, NEW ss \in Seq(Seq(S)), Len(ss) # 0
  PROVE  \E g : Good(ss, g, S, Len(ss)) /\ FlattenSeq(ss) = g[Len(ss)]
<1>. DEFINE n == Len(ss)
            Joined == {k \in 0 .. n : \E g : Good(ss, g, S, k)}
<1>1. n \in Nat /\ n # 0 /\ \A i \in 1 .. n : ss[i] \in Seq(S)
  OBVIOUS
<1>2. 0 \in Joined
  <2>1. Good(ss, [i \in 1 .. 0 |-> <<>>], S, 0)
    BY DEF Good
  <2>. QED BY <1>1, <2>1
<1>3. \A k \in 0 .. n : k \in Joined /\ k < n => k + 1 \in Joined
  <2>. SUFFICES ASSUME NEW k \in 0 .. n, k \in Joined, k < n PROVE k + 1 \in Joined
    OBVIOUS
  <2>1. PICK z \in 1 .. n : z = k + 1
    BY <1>1
  <2>2. PICK g : Good(ss, g, S, k)
    OBVIOUS
  <2>3. \E h : Good(ss, h, S, z)
    BY <1>1, <2>1, <2>2, JoinStep
  <2>. QED BY <2>1, <2>3
<1>4. PICK g : Good(ss, g, S, n)
  <2>1. \A k \in 0 .. n : k \in Joined
    <3>. HIDE DEF Joined, n
    <3>. QED BY <1>1, <1>2, <1>3, UpTo
  <2>. QED BY <1>1, <2>1
<1>. DEFINE Fix(f) == f = [i \in 1 .. n |-> IF i = 1 THEN ss[i] ELSE f[i - 1] \o ss[i]]
            fl == CHOOSE f : Fix(f)
<1>5. Fix(g)
  <2>1. g = [i \in 1 .. n |-> g[i]]
    BY <1>4 DEF Good
  <2>. QED BY <1>4, <2>1 DEF Good
<1>6. Fix(fl)
  <2>. HIDE DEF Fix
  <2>. QED BY <1>5
<1>7. FlattenSeq(ss) = fl[n]
  BY <1>1 DEF FlattenSeq
<1>. HIDE DEF fl
<1>8. DOMAIN fl = 1 .. n /\ \A i \in 1 .. n : fl[i] = IF i = 1 THEN ss[i] ELSE fl[i - 1] \o ss[i]
  BY <1>6
<1>9. \A k \in 0 .. n : k \in {x \in Nat : x = 0 \/ fl[x] = g[x]}
  <2>. DEFINE Same == {x \in Nat : x = 0 \/ fl[x] = g[x]}
  <2>1. 0 \in Same
    OBVIOUS
  <2>2. \A k \in 0 .. n : k \in Same /\ k < n => k + 1 \in Same
    <3>. SUFFICES ASSUME NEW k \in 0 .. n, k \in Same, k < n PROVE k + 1 \in Same
      OBVIOUS
    <3>1. PICK z \in 1 .. n : z = k + 1
      BY <1>1
    <3>. HIDE DEF n, Fix, Joined
    <3>2. g[z] = IF z = 1 THEN ss[z] ELSE g[z - 1] \o ss[z]
      BY <1>4 DEF Good
    <3>3. fl[z] = IF z = 1 THEN ss[z] ELSE fl[z - 1] \o ss[z]
      BY <1>8
    <3>4. (k # 0 => fl[k] = g[k]) /\ z - 1 = k /\ (z = 1 <=> k = 0)
      BY <3>1
    <3>5. fl[z] = g[z]
      BY <3>2, <3>3, <3>4
    <3>6. fl[k + 1] = g[k + 1]
      BY <3>1, <3>5
    <3>. QED BY <3>6
  <2>. HIDE DEF Same, n
  <2>3. \A k \in 0 .. n : k \in Same
    BY <1>1, <2>1, <2>2, UpTo
  <2>. QED BY <2>3 DEF Same
<1>10. n \in 0 .. n
  BY <1>1
<1>. QED BY <1>1, <1>4, <1>7, <1>9, <1>10

(* Where the elements of a sequence come from: a and b say which sequence    *)
(* and which place in it, each place once.                                   *)
Origins(ss, x, k, a, b) ==
  /\ a \in [1 .. Len(x) -> Nat] /\ b \in [1 .. Len(x) -> Nat]
  /\ \A q \in 1 .. Len(x) :
       a[q] \in 1 .. k /\ b[q] \in 1 .. Len(ss[a[q]]) /\ x[q] = ss[a[q]][b[q]]
  /\ \A q, r \in 1 .. Len(x) : a[q] = a[r] /\ b[q] = b[r] => q = r
  /\ \A i \in 1 .. k : \A j \in 1 .. Len(ss[i]) :
       \E q \in 1 .. Len(x) : a[q] = i /\ b[q] = j

(* Joining one more sequence keeps account of the origins.                  *)
LEMMA OriginStep ==
  ASSUME NEW S, NEW ss, NEW k \in Nat, NEW x \in Seq(S), ss[k + 1] \in Seq(S),
         NEW a, NEW b, Origins(ss, x, k, a, b)
  PROVE  \E c, d : Origins(ss, x \o ss[k + 1], k + 1, c, d)
<1>. DEFINE y == ss[k + 1]
            L == Len(x)
            M == Len(y)
            c == [q \in 1 .. L + M |-> IF q =< L THEN a[q] ELSE k + 1]
            d == [q \in 1 .. L + M |-> IF q =< L THEN b[q] ELSE q - L]
<1>1. L \in Nat /\ M \in Nat /\ Len(x \o y) = L + M
  BY ConcatProperties
<1>2. \A q \in 1 .. L : q \in 1 .. L + M /\ c[q] = a[q] /\ d[q] = b[q] /\ (x \o y)[q] = x[q]
                        /\ a[q] \in 1 .. k /\ b[q] \in Nat
  <2>1. \A q \in 1 .. L : q \in 1 .. L + M
    BY <1>1
  <2>2. \A q \in 1 .. L : (x \o y)[q] = x[q]
    BY <1>1, <2>1, ConcatProperties
  <2>3. \A q \in 1 .. L : c[q] = a[q] /\ d[q] = b[q]
    BY <1>1, <2>1
  <2>4. \A q \in 1 .. L : a[q] \in 1 .. k /\ b[q] \in Nat
    BY DEF Origins
  <2>. HIDE DEF c, d, L, M
  <2>. QED BY <2>1, <2>2, <2>3, <2>4
<1>3. \A q \in L + 1 .. L + M : q \in 1 .. L + M /\ c[q] = k + 1 /\ d[q] = q - L /\ (x \o y)[q] = y[q - L]
                                /\ q - L \in 1 .. M
  <2>1. \A q \in L + 1 .. L + M : q \in 1 .. L + M /\ ~(q =< L) /\ q - L \in 1 .. M
    BY <1>1
  <2>2. \A q \in L + 1 .. L + M : (x \o y)[q] = y[q - L]
    BY <1>1, <2>1, ConcatProperties
  <2>. QED BY <2>1, <2>2
<1>4. \A q \in 1 .. L + M : q \in 1 .. L \/ q \in L + 1 .. L + M
  BY <1>1
<1>5. DOMAIN c = 1 .. L + M /\ DOMAIN d = 1 .. L + M
      /\ c = [q \in 1 .. L + M |-> c[q]] /\ d = [q \in 1 .. L + M |-> d[q]]
  OBVIOUS
<1>6. k + 1 \in Nat /\ k + 1 \notin 1 .. k /\ \A i \in 1 .. k + 1 : i \in 1 .. k \/ i = k + 1
  OBVIOUS
<1>7. \A i \in 1 .. k : i \in 1 .. k + 1
  OBVIOUS
<1>. HIDE DEF c, d, L
<1>8. \A q \in 1 .. L + M :
        c[q] \in 1 .. k + 1 /\ d[q] \in 1 .. Len(ss[c[q]]) /\ (x \o y)[q] = ss[c[q]][d[q]]
  <2>1. ASSUME NEW q \in 1 .. L
        PROVE c[q] \in 1 .. k + 1 /\ d[q] \in 1 .. Len(ss[c[q]]) /\ (x \o y)[q] = ss[c[q]][d[q]]
    BY <1>2, <1>7 DEF Origins, L
  <2>2. ASSUME NEW q \in L + 1 .. L + M
        PROVE c[q] \in 1 .. k + 1 /\ d[q] \in 1 .. Len(ss[c[q]]) /\ (x \o y)[q] = ss[c[q]][d[q]]
    <3>1. k + 1 \in 1 .. k + 1
      OBVIOUS
    <3>. QED BY <1>3, <3>1
  <2>. QED BY <1>4, <2>1, <2>2
<1>9. ASSUME NEW q \in 1 .. L + M, NEW r \in 1 .. L + M, c[q] = c[r], d[q] = d[r]
      PROVE  q = r
  <2>1. CASE q \in 1 .. L /\ r \in 1 .. L
    BY <1>2, <1>9, <2>1 DEF Origins, L
  <2>2. CASE q \in 1 .. L /\ r \in L + 1 .. L + M
    BY <1>2, <1>3, <1>6, <1>9, <2>2
  <2>3. CASE q \in L + 1 .. L + M /\ r \in 1 .. L
    BY <1>2, <1>3, <1>6, <1>9, <2>3
  <2>4. CASE q \in L + 1 .. L + M /\ r \in L + 1 .. L + M
    BY <1>1, <1>3, <1>9, <2>4
  <2>. QED BY <1>4, <2>1, <2>2, <2>3, <2>4
<1>10. ASSUME NEW i \in 1 .. k + 1, NEW j \in 1 .. Len(ss[i])
       PROVE  \E q \in 1 .. L + M : c[q] = i /\ d[q] = j
  <2>1. CASE i \in 1 .. k
    <3>1. PICK q \in 1 .. L : a[q] = i /\ b[q] = j
      BY <2>1 DEF Origins, L
    <3>2. q \in 1 .. L + M /\ c[q] = i /\ d[q] = j
      BY <1>2, <3>1
    <3>. QED BY <3>2
  <2>2. CASE i = k + 1
    <3>1. PICK q \in L + 1 .. L + M : q - L = j
      <4>. DEFINE u == j + L
      <4>1. u \in L + 1 .. L + M /\ u - L = j
        BY <1>1, <2>2
      <4>. HIDE DEF u
      <4>. QED BY <4>1
    <3>2. q \in 1 .. L + M /\ c[q] = k + 1 /\ d[q] = q - L
      BY <1>3
    <3>. QED BY <2>2, <3>1, <3>2
  <2>. QED BY <1>6, <2>1, <2>2
<1>11. c \in [1 .. L + M -> Nat] /\ d \in [1 .. L + M -> Nat]
  <2>1. \A q \in 1 .. L + M : c[q] \in Nat /\ d[q] \in Nat
    <3>1. \A q \in 1 .. L : c[q] \in Nat /\ d[q] \in Nat
      BY <1>2
    <3>2. \A q \in L + 1 .. L + M : c[q] \in Nat /\ d[q] \in Nat
      BY <1>1, <1>3, <1>6
    <3>. QED BY <1>4, <3>1, <3>2
  <2>. QED BY <1>5, <2>1
<1>. DEFINE z == x \o y
<1>12. Len(z) = L + M /\ \A q \in 1 .. L + M : z[q] = ss[c[q]][d[q]]
  BY <1>1, <1>8
<1>. HIDE DEF z, y, M
<1>13. Origins(ss, z, k + 1, c, d)
  BY <1>8, <1>9, <1>10, <1>11, <1>12 DEF Origins
<1>. QED BY <1>13 DEF z, y

(* Every element of every sequence is in the flattened one, once. *)
LEMMA FlattenOrigins ==
  ASSUME NEW S, NEW ss \in Seq(Seq(S)), Len(ss) # 0
  PROVE  /\ FlattenSeq(ss) \in Seq(S)
         /\ \E a, b : Origins(ss, FlattenSeq(ss), Len(ss), a, b)
<1>. DEFINE n == Len(ss)
<1>1. n \in Nat /\ n # 0 /\ \A i \in 1 .. n : ss[i] \in Seq(S)
  OBVIOUS
<1>2. PICK g : Good(ss, g, S, n) /\ FlattenSeq(ss) = g[n]
  BY JoinExists
<1>. DEFINE Known == {k \in Nat : k = 0 \/ \E a, b : Origins(ss, g[k], k, a, b)}
<1>3. 0 \in Known
  OBVIOUS
<1>4. \A k \in 0 .. n : k \in Known /\ k < n => k + 1 \in Known
  <2>. SUFFICES ASSUME NEW k \in 0 .. n, k \in Known, k < n
                PROVE  k + 1 \in Known
    OBVIOUS
  <2>1. k + 1 \in 1 .. n /\ k + 1 - 1 = k /\ (k + 1 = 1 <=> k = 0) /\ k \in Nat
    BY <1>1
  <2>0. PICK z \in 1 .. n : z = k + 1
    BY <2>1
  <2>3. g[z] = IF z = 1 THEN ss[z] ELSE g[z - 1] \o ss[z]
    <3>. HIDE DEF n
    <3>. QED BY <1>2 DEF Good
  <2>2. g[k + 1] = IF k = 0 THEN ss[k + 1] ELSE g[k] \o ss[k + 1]
    <3>1. z - 1 = k /\ (z = 1 <=> k = 0)
      BY <2>0
    <3>. QED BY <2>0, <2>3, <3>1
  <2>. SUFFICES \E a, b : Origins(ss, g[k + 1], k + 1, a, b)
    BY <2>1
  <2>5. CASE k = 0
    <3>1. g[k + 1] = ss[1] /\ ss[1] \in Seq(S) /\ Len(ss[1]) \in Nat
      BY <1>1, <2>2, <2>1, <2>5
    <3>. DEFINE c == [q \in 1 .. Len(ss[1]) |-> 1]
                d == [q \in 1 .. Len(ss[1]) |-> q]
    <3>2. c \in [1 .. Len(ss[1]) -> Nat] /\ d \in [1 .. Len(ss[1]) -> Nat]
          /\ \A q \in 1 .. Len(ss[1]) : c[q] = 1 /\ d[q] = q
      BY <3>1
    <3>. HIDE DEF c, d
    <3>3. \A i \in 1 .. 1 : i = 1
      OBVIOUS
    <3>4. 1 \in 1 .. 1
      OBVIOUS
    <3>5. Origins(ss, ss[1], 1, c, d)
      BY <3>2, <3>3, <3>4 DEF Origins
    <3>. QED BY <2>5, <3>1, <3>5
  <2>4. CASE k # 0
    <3>1. PICK a, b : Origins(ss, g[k], k, a, b)
      BY <2>4
    <3>2. g[k] \in Seq(S)
      <4>1. k \in 1 .. n
        BY <1>1, <2>4
      <4>. HIDE DEF n
      <4>. QED BY <1>2, <4>1 DEF Good
    <3>3. \E c, d : Origins(ss, g[k] \o ss[k + 1], k + 1, c, d)
      BY <1>1, <2>1, <3>1, <3>2, OriginStep
    <3>. QED BY <2>1, <2>2, <2>4, <3>3
  <2>. QED BY <2>5, <2>4
<1>5. \A k \in 0 .. n : k \in Known
  <2>. HIDE DEF Known, n
  <2>. QED BY <1>1, <1>3, <1>4, UpTo
<1>6. n \in 0 .. n /\ n \in 1 .. n
  BY <1>1
<1>. QED BY <1>1, <1>2, <1>5, <1>6 DEF Good
-----------------------------------------------------------------------------
(* What the sources name. *)

SourceOK(s) == s.path \in Path

(* Two paths lie in one directory when one starts with the directory of the  *)
(* other and is as long.                                                     *)
LEMMA SameFront ==
  ASSUME NEW p \in Path, NEW q \in Path, p # <<>>, q # <<>>
  PROVE  Front(p) = Front(q) <=> Len(p) = Len(q) /\ IsPrefix(Front(q), p)
<1>1. Len(p) \in Nat \ {0} /\ Len(q) \in Nat \ {0}
  BY EmptySeq DEF Path
<1>. DEFINE m == Len(p) - 1
            n == Len(q) - 1
<1>2. m \in 0 .. Len(p) /\ n \in 0 .. Len(q)
  BY <1>1
<1>3. Front(p) = SubSeq(p, 1, m) /\ Front(q) = SubSeq(q, 1, n)
  BY DEF Front
<1>4. Len(SubSeq(p, 1, m)) = m /\ Len(SubSeq(q, 1, n)) = n /\ SubSeq(q, 1, n) \in Path
  BY <1>2, PathPrefixes
<1>5. SubSeq(SubSeq(q, 1, n), 1, n) = SubSeq(q, 1, n)
  BY <1>4, PathPrefixes
<1>6. IsPrefix(Front(q), p) <=> n =< Len(p) /\ SubSeq(q, 1, n) = SubSeq(p, 1, n)
  BY <1>3, <1>4, <1>5 DEF IsPrefix
<1>7. ASSUME Front(p) = Front(q) PROVE Len(p) = Len(q) /\ IsPrefix(Front(q), p)
  <2>1. m = n
    BY <1>3, <1>4, <1>7
  <2>. QED BY <1>1, <1>3, <1>6, <1>7, <2>1
<1>8. ASSUME Len(p) = Len(q), IsPrefix(Front(q), p) PROVE Front(p) = Front(q)
  BY <1>3, <1>6, <1>8
<1>. QED BY <1>7, <1>8

(* The last name of a path is a name. *)
LEMMA LastIsName ==
  ASSUME NEW p \in Path, p # <<>>
  PROVE  Last(p) \in Names /\ SubSeq(p, Len(p), Len(p)) = <<Last(p)>> /\ <<Last(p)>> \in Path
         /\ Len(p) \in Nat \ {0}
<1>1. Len(p) \in Nat \ {0}
  BY EmptySeq DEF Path
<1>2. Last(p) \in Names
  BY <1>1 DEF Last, Path
<1>3. SubSeq(p, Len(p), Len(p)) = <<Last(p)>>
  <2>. DEFINE n == Len(p)
              z == SubSeq(p, n, n)
  <2>1. \A i \in n .. n : p[i] \in Names
    BY <1>1 DEF Path
  <2>2. z \in Path /\ Len(z) = 1 /\ z[1] = p[n]
    <3>1. n \in Int /\ n - n + 1 = 1 /\ n + 1 - 1 = n /\ n =< n /\ 1 \in 1 .. 1
      BY <1>1
    <3>2. z \in Seq(Names) /\ Len(z) = (IF n =< n THEN n - n + 1 ELSE 0)
          /\ \A i \in 1 .. n - n + 1 : z[i] = p[n + i - 1]
      BY <2>1, <3>1, SubSeqProperties
    <3>. QED BY <3>1, <3>2 DEF Path
  <2>. HIDE DEF z
  <2>3. z = <<p[n]>>
    BY <2>2 DEF Path
  <2>. QED BY <2>3 DEF z, Last
<1>4. <<Last(p)>> \in Path
  BY <1>2 DEF Path
<1>. QED BY <1>1, <1>2, <1>3, <1>4

(* What is below a directory lies under its path. *)
LEMMA Above ==
  ASSUME NEW p \in DOMAIN Local, NEW q, IsStrictPrefix(q, p), q \in Path
  PROVE  q \in DOMAIN Local /\ Local[q].kind = "dir"
<1>1. p \in Path /\ Len(p) \in Nat /\ Len(q) \in Nat
  BY LocalAssumption DEF Path
<1>2. SubSeq(q, 1, Len(q)) = q /\ SubSeq(p, 1, Len(p)) = p
  BY <1>1, SubSeqFull DEF Path
<1>3. Len(q) =< Len(p) /\ q = SubSeq(p, 1, Len(q)) /\ q # p
  BY <1>2 DEF IsStrictPrefix, IsPrefix
<1>4. Len(q) \in 0 .. Len(p) - 1
  BY <1>1, <1>2, <1>3
<1>5. PICK k \in 0 .. Len(p) - 1 : q = SubSeq(p, 1, k)
  BY <1>3, <1>4
<1>. QED BY <1>5, LocalAssumption

(* A source that can be read takes exactly the local entries it names.       *)
LEMMA TakenIsNamed ==
  ASSUME NEW s, SourceOK(s), ~SourceFails(s)
  PROVE  /\ Taken(s) = {p \in DOMAIN Local : Named(s, p)}
         /\ Taken(s) \subseteq DOMAIN Local
         /\ \A p \in Taken(s) : p \in Path /\ Local[p].kind # "broken"
<1>0. DOMAIN Local \subseteq Path /\ s.path \in Path
  BY LocalAssumption DEF Path, SourceOK
<1>1. CASE has_glob(s)
  <2>1. s.path # <<>>
    BY <1>1 DEF has_glob
  <2>2. Last(s.path) \in Names /\ Len(s.path) # 0
    BY <1>0, <2>1, LastIsName
  <2>3. ASSUME NEW p \in DOMAIN Local
        PROVE  p \in Taken(s) <=> Named(s, p)
    <3>1. CASE p = <<>>
      <4>1. Len(p) = 0
        BY <3>1
      <4>. QED BY <1>1, <2>2, <3>1, <4>1 DEF Taken, Named
    <3>2. CASE p # <<>>
      <4>1. p \in Path
        BY <1>0
      <4>2. Last(p) \in Names
        BY <3>2, <4>1, LastIsName
      <4>3. Front(p) = Front(s.path) <=> Len(p) = Len(s.path) /\ IsPrefix(Front(s.path), p)
        BY <1>0, <2>1, <3>2, <4>1, SameFront
      <4>4. wildcard_match(Last(s.path), Last(p)) <=> Matches(Last(s.path), Last(p))
        BY <2>2, <4>2, MatchIsMatches
      <4>5. p \in Taken(s) <=> /\ p \notin Unlisted /\ Front(p) = Front(s.path)
                              /\ wildcard_match(Last(s.path), Last(p))
        BY <1>1, <3>2 DEF Taken
      <4>6. Named(s, p) <=> /\ p \notin Unlisted
                            /\ Len(p) = Len(s.path) /\ IsPrefix(Front(s.path), p)
                            /\ Matches(Last(s.path), Last(p))
        BY <1>1 DEF Named
      <4>. QED BY <4>3, <4>4, <4>5, <4>6
    <3>. QED BY <3>1, <3>2
  <2>4. Taken(s) \subseteq DOMAIN Local
    BY <1>1 DEF Taken
  <2>5. \A p \in Taken(s) : KindAt(p) # "broken"
    BY <1>1 DEF SourceFails
  <2>. QED BY <1>0, <2>3, <2>4, <2>5 DEF KindAt
<1>2. CASE ~has_glob(s)
  <2>1. s.path \in DOMAIN Local /\ KindAt(s.path) # "broken"
    BY <1>2 DEF SourceFails, KindAt
  <2>2. IsPrefix(s.path, s.path)
    BY <1>0 DEF IsPrefix, Path
  <2>3. CASE KindAt(s.path) = "dir"
    <3>1. Taken(s) = {p \in DOMAIN Local :
             IsStrictPrefix(s.path, p) /\ KindAt(p) \in {"dir", "file"} /\ ~Hidden(s.path, p)}
      BY <1>2, <2>3 DEF Taken
    <3>2. ASSUME NEW p \in DOMAIN Local PROVE p \in Taken(s) <=> Named(s, p)
      BY <1>2, <2>3, <3>1 DEF Named, IsStrictPrefix
    <3>. QED BY <1>0, <3>1, <3>2 DEF KindAt
  <2>4. CASE KindAt(s.path) # "dir"
    <3>1. Taken(s) = {s.path}
      BY <1>2, <2>4 DEF Taken
    <3>2. ASSUME NEW p \in DOMAIN Local PROVE p \in Taken(s) <=> Named(s, p)
      <4>1. CASE p = s.path
        <5>1. ~Hidden(s.path, s.path)
          <6>. SUFFICES ASSUME NEW q \in Unlisted, IsStrictPrefix(s.path, q), IsPrefix(q, s.path)
                        PROVE  FALSE
            BY DEF Hidden
          <6>1. q \in DOMAIN Local
            BY LocalAssumption
          <6>. QED BY <1>0, <2>4, <6>1, Above DEF KindAt
        <5>. QED BY <1>2, <2>2, <2>4, <3>1, <4>1, <5>1 DEF Named
      <4>2. CASE p # s.path
        <5>1. ~IsPrefix(s.path, p)
          <6>. SUFFICES ASSUME IsPrefix(s.path, p) PROVE FALSE
            OBVIOUS
          <6>1. IsStrictPrefix(s.path, p)
            BY <4>2 DEF IsStrictPrefix
          <6>. QED BY <1>0, <2>4, <6>1, Above DEF KindAt
        <5>. QED BY <1>2, <3>1, <4>2, <5>1 DEF Named
      <4>. QED BY <4>1, <4>2
    <3>. QED BY <1>0, <2>1, <3>1, <3>2 DEF KindAt
  <2>. QED BY <2>3, <2>4
<1>. QED BY <1>1, <1>2

(* What an entry says of the local file or directory it stands for.          *)
LEMMA EntryShape ==
  ASSUME NEW s, SourceOK(s), ~SourceFails(s), NEW p \in Taken(s)
  PROVE  /\ GoodEntry(make_local_entry(s, p))
         /\ make_local_entry(s, p).rel = SubSeq(p, Len(RootOf(s)) + 1, Len(p))
         /\ make_local_entry(s, p).kind = IF KindAt(p) = "dir" THEN "Dir" ELSE "File"
         /\ make_local_entry(s, p).data = Local[p].data
<1>. DEFINE e == make_local_entry(s, p)
<1>0. p \in Path /\ p \in DOMAIN Local /\ s.path \in Path /\ Local[p].kind # "broken"
  BY TakenIsNamed DEF SourceOK
<1>1. e.kind = (IF KindAt(p) = "dir" THEN "Dir" ELSE "File") /\ e.data = Local[p].data
      /\ e.rel = (IF has_glob(s) \/ KindAt(s.path) # "dir" THEN <<Last(p)>>
                  ELSE SubSeq(p, Len(s.path) + 1, Len(p)))
  BY DEF make_local_entry
<1>2. e.kind = "File" => Size[e.data] \in Nat
  BY <1>0, <1>1, LocalAssumption DEF KindAt
<1>3. e.rel = SubSeq(p, Len(RootOf(s)) + 1, Len(p)) /\ e.rel \in Path
  <2>1. CASE has_glob(s) \/ KindAt(s.path) # "dir"
    <3>1. p # <<>> /\ s.path # <<>> /\ Len(p) = Len(s.path)
      <4>1. CASE has_glob(s)
        <5>1. p # <<>> /\ s.path # <<>>
          BY <4>1 DEF Taken, has_glob
        <5>2. Named(s, p)
          BY <1>0, TakenIsNamed
        <5>. QED BY <4>1, <5>1, <5>2 DEF Named
      <4>2. CASE ~has_glob(s)
        <5>1. p = s.path
          BY <2>1, <4>2 DEF Taken
        <5>2. p # <<>>
          BY <2>1, <4>2, <5>1, LocalAssumption DEF KindAt
        <5>. QED BY <5>1, <5>2
      <4>. QED BY <4>1, <4>2
    <3>2. Len(p) \in Nat \ {0}
      BY <1>0, <3>1, LastIsName
    <3>3. Len(RootOf(s)) = Len(p) - 1
      <4>1. RootOf(s) = SubSeq(s.path, 1, Len(p) - 1)
        BY <2>1, <3>1 DEF RootOf, Front
      <4>. DEFINE k == Len(p) - 1
      <4>2. k \in 0 .. Len(s.path)
        BY <3>1, <3>2
      <4>. HIDE DEF k
      <4>3. Len(SubSeq(s.path, 1, k)) = k
        BY <1>0, <4>2, PathPrefixes
      <4>. QED BY <4>1, <4>3 DEF k
    <3>4. Len(RootOf(s)) + 1 = Len(p)
      BY <3>2, <3>3
    <3>. QED BY <1>0, <1>1, <2>1, <3>1, <3>4, LastIsName
  <2>2. CASE ~(has_glob(s) \/ KindAt(s.path) # "dir")
    <3>1. RootOf(s) = s.path /\ e.rel = SubSeq(p, Len(s.path) + 1, Len(p))
      BY <1>1, <2>2 DEF RootOf
    <3>2. Len(s.path) + 1 \in 1 .. Len(s.path) + 1 /\ Len(p) \in Int /\ Len(s.path) + 1 \in Int
          /\ Len(s.path) \in Nat
      BY <1>0 DEF Path
    <3>3. \A i \in Len(s.path) + 1 .. Len(p) : p[i] \in Names
      BY <1>0, <3>2 DEF Path
    <3>. QED BY <3>1, <3>2, <3>3, SubSeqProperties DEF Path
  <2>. QED BY <2>1, <2>2
<1>4. e.kind \in {"Dir", "File"}
  BY <1>1
<1>. HIDE DEF e
<1>5. GoodEntry(e) /\ e.rel = SubSeq(p, Len(RootOf(s)) + 1, Len(p))
      /\ e.kind = (IF KindAt(p) = "dir" THEN "Dir" ELSE "File") /\ e.data = Local[p].data
  BY <1>1, <1>2, <1>3, <1>4 DEF GoodEntry
<1>. QED BY <1>5 DEF e

(* A listing has an entry for everything the source takes, each once.        *)
LEMMA Listed ==
  ASSUME NEW s, SourceOK(s), ~SourceFails(s), NEW l \in Listings(s)
  PROVE  /\ Len(l) \in Nat /\ l \in Seq({make_local_entry(s, p) : p \in Taken(s)})
         /\ \A i, j \in 1 .. Len(l) : l[i] = l[j] => i = j
         /\ \A p \in Taken(s) : \E j \in 1 .. Len(l) : l[j] = make_local_entry(s, p)
<1>. DEFINE Img == {make_local_entry(s, p) : p \in Taken(s)}
            c == Cardinality(Img)
            f == [p \in Taken(s) |-> make_local_entry(s, p)]
<1>1. IsFiniteSet(Taken(s))
  BY TakenIsNamed, LocalAssumption, FS_Subset
<1>2. IsFiniteSet(Img)
  <2>1. f \in Surjection(Taken(s), Img)
    BY DEF Surjection
  <2>. QED BY <1>1, <2>1, FS_Surjection
<1>3. c \in Nat
  BY <1>2, FS_CardinalityType
<1>4. l \in [1 .. c -> Img] /\ \A i, j \in 1 .. c : i # j => l[i] # l[j]
  <2>1. l \in SetToSeqs(Img)
    BY DEF Listings
  <2>. HIDE DEF Img
  <2>. QED BY <2>1 DEF SetToSeqs
<1>. HIDE DEF c, Img, f
<1>5. l \in Seq(Img) /\ Len(l) = c
  BY <1>3, <1>4, SeqDef
<1>6. l \in Injection(1 .. c, Img)
  BY <1>4 DEF Injection, IsInjective
<1>7. Cardinality(1 .. c) = c
  BY <1>3, FS_Interval
<1>8. l \in Surjection(1 .. c, Img)
  BY <1>2, <1>6, <1>7, FS_Injection DEF c
<1>9. \A x \in Img : \E j \in 1 .. c : l[j] = x
  BY <1>8 DEF Surjection
<1>. QED BY <1>3, <1>4, <1>5, <1>9 DEF Img

(* A path that is not empty is one longer than what is above it.            *)
LEMMA FrontLength ==
  ASSUME NEW p \in Path, Len(p) # 0
  PROVE  Len(SubSeq(p, 1, Len(p) - 1)) = Len(p) - 1 /\ Len(p) - 1 \in 0 .. Len(p)
<1>. DEFINE k == Len(p) - 1
<1>1. k \in 0 .. Len(p)
  BY DEF Path
<1>2. Len(SubSeq(p, 1, k)) = k
  <2>. HIDE DEF k
  <2>. QED BY <1>1, PathPrefixes
<1>. QED BY <1>1, <1>2

(* A path is what lies above a place in it and what follows.                 *)
LEMMA Rejoined ==
  ASSUME NEW p \in Path, NEW k \in 0 .. Len(p)
  PROVE  SubSeq(p, 1, k) \o SubSeq(p, k + 1, Len(p)) = p
<1>1. Len(p) \in Nat /\ p \in Seq(Names)
  BY DEF Path
<1>2. 1 \in 1 .. Len(p) + 1 /\ k \in 1 - 1 .. Len(p) /\ Len(p) \in k .. Len(p)
  BY <1>1
<1>. QED BY <1>1, <1>2, ConcatAdjacentSubSeq, SubSeqFull

(* What is taken lies below the root of its source.                          *)
LEMMA BelowRoot ==
  ASSUME NEW s, SourceOK(s), ~SourceFails(s), NEW p \in Taken(s)
  PROVE  p = RootOf(s) \o make_local_entry(s, p).rel
<1>. DEFINE k == Len(RootOf(s))
<1>0. p \in Path /\ p \in DOMAIN Local /\ s.path \in Path /\ Len(p) \in Nat /\ Len(s.path) \in Nat
  BY TakenIsNamed DEF SourceOK, Path
<1>1. RootOf(s) = SubSeq(p, 1, k) /\ k \in 0 .. Len(p)
  <2>1. CASE has_glob(s)
    <3>1. Front(p) = Front(s.path) /\ p # <<>>
      BY <2>1 DEF Taken
    <3>2. Len(p) \in Nat \ {0}
      BY <1>0, <3>1, LastIsName
    <3>3. RootOf(s) = SubSeq(p, 1, Len(p) - 1)
      BY <2>1, <3>1 DEF RootOf, Front
    <3>. QED BY <1>0, <3>2, <3>3, FrontLength
  <2>2. CASE ~has_glob(s) /\ KindAt(s.path) # "dir"
    <3>1. p = s.path
      BY <2>2 DEF Taken
    <3>2. p # <<>>
      BY <2>2, <3>1, LocalAssumption DEF KindAt
    <3>3. Len(p) \in Nat \ {0}
      BY <1>0, <3>2, LastIsName
    <3>4. RootOf(s) = SubSeq(p, 1, Len(p) - 1)
      BY <2>2, <3>1 DEF RootOf, Front
    <3>. QED BY <1>0, <3>3, <3>4, FrontLength
  <2>3. CASE ~has_glob(s) /\ KindAt(s.path) = "dir"
    <3>1. RootOf(s) = s.path /\ IsPrefix(s.path, p)
      BY <2>3 DEF RootOf, Taken, IsStrictPrefix
    <3>2. SubSeq(s.path, 1, Len(s.path)) = s.path
      BY <1>0, SubSeqFull DEF Path
    <3>. QED BY <1>0, <3>1, <3>2 DEF IsPrefix
  <2>. QED BY <2>1, <2>2, <2>3
<1>2. make_local_entry(s, p).rel = SubSeq(p, k + 1, Len(p))
  BY EntryShape
<1>. HIDE DEF k
<1>. QED BY <1>0, <1>1, <1>2, Rejoined

(* Two things a source takes never have one entry.                           *)
LEMMA EntryInjective ==
  ASSUME NEW s, SourceOK(s), ~SourceFails(s), NEW p \in Taken(s), NEW q \in Taken(s),
         make_local_entry(s, p) = make_local_entry(s, q)
  PROVE  p = q
BY BelowRoot

(* The entry a claim stands for. *)
EntryOf(c) == make_local_entry(request.sources[c[1]], c[2])

(* Each entry stands for one claim and each claim for one entry.             *)
Stands(o) ==
  /\ o \in [1 .. Len(entries) -> Claims]
  /\ \A q \in 1 .. Len(entries) : entries[q] = EntryOf(o[q])
  /\ \A q, r \in 1 .. Len(entries) : o[q] = o[r] => q = r
  /\ \A c \in Claims : \E q \in 1 .. Len(entries) : o[q] = c

(* What a request is made of.                                               *)
LEMMA RequestTyped ==
  ASSUME request \in Requests
  PROVE  /\ request.target \in Path /\ request.slash \in BOOLEAN
         /\ Len(request.sources) \in Nat
         /\ DOMAIN request.sources = 1 .. Len(request.sources)
         /\ \A i \in 1 .. Len(request.sources) : SourceOK(request.sources[i])
<1>1. request.sources \in Seq([path : Path, slash : BOOLEAN])
  BY RequestsAssumption DEF Path
<1>2. \A i \in 1 .. Len(request.sources) : request.sources[i] \in [path : Path, slash : BOOLEAN]
  <2>. DEFINE R == [path : Path, slash : BOOLEAN]
  <2>1. request.sources \in Seq(R)
    BY <1>1
  <2>. HIDE DEF R
  <2>2. \A i \in 1 .. Len(request.sources) : request.sources[i] \in R
    BY <2>1
  <2>. QED BY <2>2 DEF R
<1>3. \A i \in 1 .. Len(request.sources) : SourceOK(request.sources[i])
  BY <1>2 DEF SourceOK
<1>4. Len(request.sources) \in Nat /\ DOMAIN request.sources = 1 .. Len(request.sources)
  BY <1>1, LenProperties
<1>. QED BY <1>3, <1>4, RequestsAssumption DEF Path

(* enumerate_local_sources returns an entry for every claim of the request,  *)
(* one each, and nothing else.                                              *)
LEMMA EnumerationIsRight ==
  ASSUME request \in Requests, ~Refused,
         NEW l, DOMAIN l = DOMAIN request.sources,
         l = [i \in DOMAIN l |-> l[i]],
         \A i \in DOMAIN l : l[i] \in Listings(request.sources[i]),
         entries' = FlattenSeq(l), request' = request
  PROVE  /\ Len(entries)' \in Nat
         /\ \A q \in 1 .. Len(entries)' : GoodEntry(entries'[q])
         /\ \E o : Stands(o)'
<1>. DEFINE n == Len(request.sources)
            S(i) == request.sources[i]
            All == UNION {{make_local_entry(S(i), p) : p \in Taken(S(i))} : i \in 1 .. n}
            E == entries'
<1>1. n \in Nat /\ n # 0 /\ DOMAIN l = 1 .. n /\ \A i \in 1 .. n : SourceOK(S(i)) /\ ~SourceFails(S(i))
  <2>1. n # 0
    BY RequestTyped, EmptySeq, RequestsAssumption DEF Refused
  <2>. QED BY <2>1, RequestTyped DEF Refused
<1>2. ASSUME NEW i \in 1 .. n
      PROVE  /\ Len(l[i]) \in Nat /\ l[i] \in Seq(All)
             /\ \A j \in 1 .. Len(l[i]) : \E p \in Taken(S(i)) : l[i][j] = make_local_entry(S(i), p)
             /\ \A j, k \in 1 .. Len(l[i]) : l[i][j] = l[i][k] => j = k
             /\ \A p \in Taken(S(i)) : \E j \in 1 .. Len(l[i]) : l[i][j] = make_local_entry(S(i), p)
  <2>. DEFINE Img == {make_local_entry(S(i), p) : p \in Taken(S(i))}
  <2>1. l[i] \in Listings(S(i))
    BY <1>1
  <2>2. /\ Len(l[i]) \in Nat /\ l[i] \in Seq(Img)
        /\ \A j, k \in 1 .. Len(l[i]) : l[i][j] = l[i][k] => j = k
        /\ \A p \in Taken(S(i)) : \E j \in 1 .. Len(l[i]) : l[i][j] = make_local_entry(S(i), p)
    BY <1>1, <2>1, Listed
  <2>3. Img \subseteq All
    OBVIOUS
  <2>4. l[i] \in Seq(All)
    <3>. HIDE DEF Img, All
    <3>. QED BY <2>2, <2>3, SeqMonotonic
  <2>5. \A j \in 1 .. Len(l[i]) : l[i][j] \in Img
    <3>. HIDE DEF Img
    <3>. QED BY <2>2
  <2>. QED BY <2>2, <2>4, <2>5
<1>. HIDE DEF All
<1>3. l \in Seq(Seq(All)) /\ Len(l) = n
  <2>1. l \in [1 .. n -> Seq(All)]
    BY <1>1, <1>2
  <2>. QED BY <1>1, <2>1, SeqDef
<1>4. E \in Seq(All) /\ \E a, b : Origins(l, E, n, a, b)
  BY <1>1, <1>3, FlattenOrigins
<1>5. PICK a, b : Origins(l, E, n, a, b)
  BY <1>4
<1>. DEFINE N == Len(E)
            P(q) == CHOOSE p \in Taken(S(a[q])) : E[q] = make_local_entry(S(a[q]), p)
            o == [q \in 1 .. N |-> <<a[q], P(q)>>]
<1>6. N \in Nat
  BY <1>4
<1>7. ASSUME NEW q \in 1 .. N
      PROVE  a[q] \in 1 .. n /\ P(q) \in Taken(S(a[q])) /\ E[q] = make_local_entry(S(a[q]), P(q))
             /\ b[q] \in 1 .. Len(l[a[q]]) /\ E[q] = l[a[q]][b[q]]
  <2>1. a[q] \in 1 .. n /\ b[q] \in 1 .. Len(l[a[q]]) /\ E[q] = l[a[q]][b[q]]
    BY <1>5 DEF Origins
  <2>2. \E p \in Taken(S(a[q])) : E[q] = make_local_entry(S(a[q]), p)
    <3>. HIDE DEF S
    <3>1. \E p \in Taken(S(a[q])) : l[a[q]][b[q]] = make_local_entry(S(a[q]), p)
      BY <1>2, <2>1
    <3>. QED BY <2>1, <3>1
  <2>. HIDE DEF S, E
  <2>. QED BY <2>1, <2>2
<1>. HIDE DEF P
<1>8. \A q \in 1 .. N : GoodEntry(E[q])
  <2>. SUFFICES ASSUME NEW q \in 1 .. N PROVE GoodEntry(E[q])
    OBVIOUS
  <2>1. SourceOK(S(a[q])) /\ ~SourceFails(S(a[q]))
    BY <1>1, <1>7
  <2>. QED BY <1>7, <2>1, EntryShape
<1>9. \A i \in 1 .. n : \A p : <<i, p>> \in Claims <=> p \in Taken(S(i))
  <2>. SUFFICES ASSUME NEW i \in 1 .. n, NEW p PROVE <<i, p>> \in Claims <=> p \in Taken(S(i))
    OBVIOUS
  <2>1. Taken(S(i)) = {x \in DOMAIN Local : Named(S(i), x)}
    BY <1>1, TakenIsNamed
  <2>2. <<i, p>> \in Claims <=> p \in DOMAIN Local /\ Named(S(i), p)
    BY <1>1 DEF Claims
  <2>. QED BY <2>1, <2>2
<1>10. \A c \in Claims : c = <<c[1], c[2]>> /\ c[1] \in 1 .. n /\ c[2] \in Taken(S(c[1]))
  <2>. SUFFICES ASSUME NEW c \in Claims PROVE c = <<c[1], c[2]>> /\ c[1] \in 1 .. n /\ c[2] \in Taken(S(c[1]))
    OBVIOUS
  <2>1. c \in (DOMAIN request.sources) \X DOMAIN Local
    BY DEF Claims
  <2>2. c = <<c[1], c[2]>> /\ c[1] \in 1 .. n
    BY <1>1, <2>1
  <2>. QED BY <1>9, <2>2
<1>11. ASSUME NEW q \in 1 .. N PROVE o[q] \in Claims /\ o[q][1] = a[q] /\ o[q][2] = P(q)
  BY <1>7, <1>9
<1>12. DOMAIN o = 1 .. N /\ o = [q \in 1 .. N |-> o[q]]
  OBVIOUS
<1>. HIDE DEF o, N
<1>13. ASSUME NEW q \in 1 .. N, NEW r \in 1 .. N, o[q] = o[r] PROVE q = r
  <2>1. a[q] = a[r] /\ P(q) = P(r)
    BY <1>11, <1>13
  <2>2. E[q] = E[r]
    BY <1>7, <2>1
  <2>3. l[a[q]][b[q]] = l[a[q]][b[r]] /\ b[q] \in 1 .. Len(l[a[q]]) /\ b[r] \in 1 .. Len(l[a[q]])
        /\ a[q] \in 1 .. n
    BY <1>7, <2>1, <2>2
  <2>4. b[q] = b[r]
    BY <1>2, <2>3
  <2>. QED BY <1>5, <2>1, <2>4 DEF Origins, N
<1>14. ASSUME NEW c \in Claims PROVE \E q \in 1 .. N : o[q] = c
  <2>. DEFINE i == c[1]
              p == c[2]
  <2>1. c = <<i, p>> /\ i \in 1 .. n /\ p \in Taken(S(i))
    BY <1>10
  <2>2. PICK j \in 1 .. Len(l[i]) : l[i][j] = make_local_entry(S(i), p)
    BY <1>2, <2>1
  <2>3. PICK q \in 1 .. N : a[q] = i /\ b[q] = j
    BY <1>5, <2>1 DEF Origins, N
  <2>4. E[q] = make_local_entry(S(i), p) /\ E[q] = make_local_entry(S(i), P(q)) /\ P(q) \in Taken(S(i))
    BY <1>7, <2>2, <2>3
  <2>5. P(q) = p
    <3>1. make_local_entry(S(i), p) = make_local_entry(S(i), P(q))
      BY <2>4
    <3>. QED BY <1>1, <2>1, <2>4, <3>1, EntryInjective
  <2>6. o[q] = <<a[q], P(q)>>
    BY DEF o, N
  <2>. QED BY <2>1, <2>3, <2>5, <2>6
<1>15. \A q \in 1 .. N : E[q] = make_local_entry(request.sources[o[q][1]], o[q][2])
  BY <1>7, <1>11
<1>16. Claims' = Claims
  BY DEF Claims
<1>17. o \in [1 .. N -> Claims]
  BY <1>11, <1>12
<1>18. PICK z :
         /\ z \in [1 .. N -> Claims]
         /\ \A q \in 1 .. N : E[q] = make_local_entry(request.sources[z[q][1]], z[q][2])
         /\ \A q, r \in 1 .. N : z[q] = z[r] => q = r
         /\ \A c \in Claims : \E q \in 1 .. N : z[q] = c
  BY <1>13, <1>14, <1>15, <1>17
<1>19. Stands(z)'
  BY <1>16, <1>18 DEF Stands, EntryOf, N
<1>. QED BY <1>6, <1>8, <1>19 DEF N

-----------------------------------------------------------------------------
(* What the state keeps to, step by step. *)

(* What a worker holds is an entry of the list.                              *)
LEMMA MineIsGood ==
  ASSUME Typed, NEW w \in Workers, entry[w] # 0
  PROVE  /\ entry[w] \in 1 .. Len(entries) /\ GoodEntry(Mine(w))
         /\ RemotePath(Mine(w)) \in Path /\ DirPath(Mine(w)) \in Path
         /\ Len(DirPath(Mine(w))) \in Nat
         /\ DirPath(Mine(w)) # <<>> => 1 \in 1 .. Len(DirPath(Mine(w)))
<1>1. entry[w] \in 1 .. Len(entries)
  BY DEF Typed
<1>2. GoodEntry(Mine(w))
  BY <1>1 DEF Typed, Mine
<1>. QED BY <1>1, <1>2, RequestTyped, PathTypes DEF Typed

(* Where entries go does not change while the list and the target do not.    *)
LEMMA SamePaths ==
  ASSUME UNCHANGED mainVars
  PROVE  /\ \A e : RemotePath(e)' = RemotePath(e) /\ DirPath(e)' = DirPath(e)
         /\ \A w \in Workers : entry'[w] = entry[w] =>
              /\ Mine(w)' = Mine(w) /\ RemotePath(Mine(w))' = RemotePath(Mine(w))
              /\ DirPath(Mine(w))' = DirPath(Mine(w))
<1>1. request' = request /\ entries' = entries /\ target_is_dir_final' = target_is_dir_final
  BY DEF mainVars
<1>2. \A e : RemotePath(e)' = RemotePath(e)
  BY <1>1 DEF RemotePath
<1>3. \A e : DirPath(e)' = DirPath(e)
  BY <1>2 DEF DirPath
<1>4. ASSUME NEW w \in Workers, entry'[w] = entry[w]
      PROVE  /\ Mine(w)' = Mine(w) /\ RemotePath(Mine(w))' = RemotePath(Mine(w))
             /\ DirPath(Mine(w))' = DirPath(Mine(w))
  <2>1. Mine(w)' = Mine(w)
    BY <1>1, <1>4 DEF Mine
  <2>2. RemotePath(Mine(w))' = RemotePath(Mine(w))
    BY <1>1, <2>1 DEF RemotePath
  <2>3. DirPath(Mine(w))' = DirPath(Mine(w))
    BY <2>1, <2>2 DEF DirPath
  <2>. QED BY <2>1, <2>2, <2>3
<1>. QED BY <1>2, <1>3, <1>4

(* Nothing another worker does disturbs a worker that does not move.         *)
LEMMA OtherWorker ==
  ASSUME Typed, Kept, UNCHANGED mainVars, NEW v \in Workers, WorkerOK(v),
         pc'[v] = pc[v], entry'[v] = entry[v], comp'[v] = comp[v], tries'[v] = tries[v],
         pos'[v] = pos[v], created_dirs'[v] = created_dirs[v],
         next' \in Nat, next' >= next, faults' \in Nat, faults' >= faults,
         pc[v] \in Busy => entry[v] \notin failed'
  PROVE  WorkerOK(v)'
<1>1. /\ Mine(v)' = Mine(v) /\ RemotePath(Mine(v))' = RemotePath(Mine(v))
      /\ DirPath(Mine(v))' = DirPath(Mine(v))
  BY SamePaths
<1>2. InChain(v)'
  BY <1>1 DEF WorkerOK, InChain, Kept
<1>3. SeenAgain(v)'
  <2>1. Component(v)' = Component(v)
    BY <1>1 DEF Component
  <2>2. faults' = 0 => faults = 0
    BY DEF Typed
  <2>. QED BY <2>1, <2>2 DEF WorkerOK, SeenAgain, Kept
<1>4. AtFile(v)'
  BY <1>1 DEF WorkerOK, AtFile, Kept
<1>5. Made(v)'
  BY DEF WorkerOK, Made, Kept
<1>6. Holds(v)'
  BY DEF WorkerOK, Holds, Typed
<1>. QED BY <1>2, <1>3, <1>4, <1>5, <1>6 DEF WorkerOK

(* A step of worker w that touches only its own part of the state.           *)
OwnStep(w) ==
  /\ UNCHANGED mainVars
  /\ \A v \in Workers \ {w} :
       /\ pc'[v] = pc[v] /\ entry'[v] = entry[v] /\ comp'[v] = comp[v] /\ tries'[v] = tries[v]
       /\ pos'[v] = pos[v] /\ created_dirs'[v] = created_dirs[v]
  /\ next' \in Nat /\ next' >= next
  /\ faults' \in 0 .. MaxFaults /\ faults' >= faults

(* So it is enough to look at that worker.                                   *)
LEMMA OneWorker ==
  ASSUME Base, NEW w \in Workers, OwnStep(w), Kept, Rooted', Typed', main_pc \in Running,
         WorkerOK(w)', failed' \subseteq failed \cup {entry[w]},
         failed' # failed => pc[w] \in Busy,
         pc'[w] \in Busy =>
           \/ pc[w] \in Busy /\ entry'[w] = entry[w]
           \/ \A v \in Workers : entry'[w] # entry[v]
  PROVE  Base'
<1>1. Apart'
  BY DEF Base, OwnStep, Apart
<1>2. Quiet'
  BY DEF OwnStep, Quiet, mainVars
<1>3. ASSUME NEW v \in Workers, v # w PROVE WorkerOK(v)'
  <2>1. pc[v] \in Busy => entry[v] \notin failed'
    BY <1>3 DEF Base, WorkerOK, Holds, Apart
  <2>2. faults' \in Nat
    BY LimitsAssumption DEF OwnStep
  <2>3. Typed /\ WorkerOK(v)
    BY DEF Base
  <2>4. /\ UNCHANGED mainVars
        /\ pc'[v] = pc[v] /\ entry'[v] = entry[v] /\ comp'[v] = comp[v] /\ tries'[v] = tries[v]
        /\ pos'[v] = pos[v] /\ created_dirs'[v] = created_dirs[v]
        /\ next' \in Nat /\ next' >= next /\ faults' >= faults
    BY <1>3 DEF OwnStep
  <2>. QED BY <2>1, <2>2, <2>3, <2>4, OtherWorker
<1>. QED BY <1>1, <1>2, <1>3 DEF Base

(* A fault uses one up.                                                      *)
LEMMA FaultCounts ==
  ASSUME Typed
  PROVE  /\ Fault => faults' \in 0 .. MaxFaults /\ faults' >= faults /\ faults' # 0
         /\ NoFault => faults' = faults /\ faults' \in 0 .. MaxFaults /\ faults' >= faults
<1>1. faults \in Nat /\ MaxFaults \in Nat /\ faults =< MaxFaults
  BY LimitsAssumption DEF Typed
<1>2. Fault => faults < MaxFaults /\ faults' = faults + 1
  BY DEF Fault
<1>3. NoFault => faults' = faults
  BY DEF NoFault
<1>. QED BY <1>1, <1>2, <1>3

(* What may be there beforehand, and a process that has done nothing yet.   *)
LEMMA InitBase == Init => Base
<1>. SUFFICES ASSUME Init PROVE Base
  OBVIOUS
<1>1. Len(entries) = 0 /\ next = 1 /\ failed = {}
  BY DEF Init
<1>2. Typed
  <2>1. \A w \in Workers : pc[w] = "recv"
    BY DEF Init, ForAll
  <2>2. pc \in [Workers -> Busy \cup {"recv", "exited"}]
    BY DEF Init, ForAll
  <2>3. entry \in [Workers -> 0 .. next - 1] /\ attempt \in [Workers -> 0 .. MaxRetries]
    BY <1>1, LimitsAssumption DEF Init, ForAll
  <2>4. tries \in [Workers -> 0 .. MaxAttempts] /\ comp \in [Workers -> Nat] /\ pos \in [Workers -> Nat]
    BY LimitsAssumption DEF Init, ForAll
  <2>5. created_dirs \in [Workers -> SUBSET Path]
    BY DEF Init, ForAll
  <2>6. /\ request \in Requests /\ main_pc = "start" /\ target_is_dir_final = FALSE
        /\ faults = 0 /\ runs = 1
    BY DEF Init
  <2>7. /\ Len(entries) \in Nat /\ next \in 1 .. Len(entries) + 1 /\ failed \subseteq 1 .. next - 1
        /\ \A i \in 1 .. Len(entries) : GoodEntry(entries[i])
    BY <1>1
  <2>8. faults \in 0 .. MaxFaults /\ runs \in 1 .. MaxRuns
    BY <2>6, LimitsAssumption
  <2>. QED BY <2>2, <2>3, <2>4, <2>5, <2>6, <2>7, <2>8 DEF Typed
<1>3. Rooted
  BY RemoteAssumption DEF Rooted, Init, IsDir
<1>4. \A w \in Workers : pc[w] = "recv" /\ created_dirs[w] = {}
  BY DEF Init, ForAll
<1>5. Quiet
  BY <1>1, <1>4 DEF Quiet, Init
<1>6. Apart /\ \A w \in Workers : WorkerOK(w)
  BY <1>4 DEF Apart, WorkerOK, InChain, SeenAgain, AtFile, Made, Holds, Busy, Chaining, Filing
<1>. QED BY <1>2, <1>3, <1>5, <1>6 DEF Base

(* While every worker waits there is nothing to say of a worker but what it  *)
(* remembers to have made.                                                   *)
LEMMA AllWait ==
  ASSUME \A w \in Workers : pc'[w] = "recv", \A w \in Workers : Made(w)'
  PROVE  Apart' /\ \A w \in Workers : WorkerOK(w)'
<1>1. "recv" \notin Busy /\ "recv" \notin Chaining /\ "recv" \notin Filing /\ "recv" # "again"
      /\ "recv" # "write"
  BY DEF Busy, Chaining, Filing
<1>. QED BY <1>1 DEF Apart, WorkerOK, InChain, SeenAgain, AtFile, Holds

(* A refusal of the sources changes nothing else.                           *)
LEMMA RefuseBase == Base /\ RefuseSources => Base'
<1>. SUFFICES ASSUME Base, RefuseSources PROVE Base'
  OBVIOUS
<1>1. Typed'
  BY DEF RefuseSources, Base, Typed, workVars
<1>2. Rooted' /\ Kept
  BY SameTree DEF RefuseSources, Base
<1>3. Quiet'
  BY DEF RefuseSources, Base, Quiet, Running
<1>4. \A w \in Workers : pc'[w] = "recv" /\ Made(w)'
  BY <1>2 DEF RefuseSources, Base, Quiet, Running, WorkerOK, Made, workVars, Kept
<1>. QED BY <1>1, <1>2, <1>3, <1>4, AllWait DEF Base

(* The enumeration fills the list with good entries.                        *)
LEMMA EnumerateBase == Base /\ EnumerateSources => Base'
<1>. SUFFICES ASSUME Base, EnumerateSources PROVE Base'
  OBVIOUS
<1>1. PICK l \in [DOMAIN request.sources -> UNION {Listings(request.sources[i]) :
                                                  i \in DOMAIN request.sources}] :
        /\ \A i \in DOMAIN l : l[i] \in Listings(request.sources[i])
        /\ entries' = FlattenSeq(l)
  BY DEF EnumerateSources
<1>2. /\ Len(entries)' \in Nat
      /\ \A q \in 1 .. Len(entries)' : GoodEntry(entries'[q])
  <2>1. DOMAIN l = DOMAIN request.sources /\ l = [i \in DOMAIN l |-> l[i]]
    OBVIOUS
  <2>2. request \in Requests /\ ~Refused /\ request' = request
    BY DEF EnumerateSources, Base, Typed
  <2>. QED BY <1>1, <2>1, <2>2, EnumerationIsRight
<1>3. next = 1 /\ failed = {} /\ \A w \in Workers : pc[w] = "recv"
  BY DEF EnumerateSources, Base, Quiet, Running
<1>4. Typed'
  <2>1. next' = next /\ failed' = failed /\ entry' = entry /\ pc' = pc /\ attempt' = attempt
        /\ comp' = comp /\ tries' = tries /\ pos' = pos /\ created_dirs' = created_dirs
        /\ request' = request /\ main_pc' = "probe" /\ target_is_dir_final' = target_is_dir_final
        /\ faults' = faults /\ runs' = runs
    BY DEF EnumerateSources, workVars
  <2>. QED BY <1>2, <1>3, <2>1 DEF Base, Typed
<1>5. Rooted' /\ Kept
  BY SameTree DEF EnumerateSources, Base
<1>6. Quiet'
  BY DEF EnumerateSources, Base, Quiet, Running
<1>7. \A w \in Workers : pc'[w] = "recv" /\ Made(w)'
  BY <1>3, <1>5 DEF EnumerateSources, Base, WorkerOK, Made, workVars, Kept
<1>. QED BY <1>4, <1>5, <1>6, <1>7, AllWait DEF Base

(* The target is there: the main thread decides, the tree stays.            *)
LEMMA FoundBase == Base /\ TargetFound => Base'
<1>. SUFFICES ASSUME Base, TargetFound PROVE Base'
  OBVIOUS
<1>1. Typed'
  <2>1. main_pc' \in {"run", "refused"} /\ target_is_dir_final' \in BOOLEAN
    BY DEF TargetFound, IsDir, Base, Rooted
  <2>. QED BY <2>1 DEF TargetFound, Base, Typed, workVars
<1>2. Rooted' /\ Kept
  BY SameTree DEF TargetFound, Base
<1>3. next = 1 /\ failed = {} /\ remote = found /\ \A w \in Workers : pc[w] = "recv"
  BY DEF TargetFound, Base, Quiet, Running
<1>4. Quiet'
  BY <1>3 DEF TargetFound, Quiet
<1>5. \A w \in Workers : pc'[w] = "recv" /\ Made(w)'
  BY <1>2, <1>3 DEF TargetFound, Base, WorkerOK, Made, workVars, Kept
<1>. QED BY <1>1, <1>2, <1>4, <1>5, AllWait DEF Base

(* The target is made, or the upload refused.                               *)
LEMMA MissingBase == Base /\ TargetMissing => Base'
<1>. SUFFICES ASSUME Base, TargetMissing PROVE Base'
  OBVIOUS
<1>1. PICK fails \in BOOLEAN :
        /\ target_is_dir_final' = TRUE
        /\ remote' = IF TargetMade(fails) THEN WithNode(request.target, Directory) ELSE remote
        /\ main_pc' = IF TargetMade(fails) /\ ~request.slash THEN "run" ELSE "refused"
  BY DEF TargetMissing
<1>2. faults' \in 0 .. MaxFaults
  BY FaultCounts DEF TargetMissing, Base
<1>3. Typed'
  BY <1>1, <1>2 DEF TargetMissing, Base, Typed, workVars
<1>4. Rooted' /\ Kept
  <2>1. CASE TargetMade(fails)
    BY <1>1, <2>1, MkdirKeeps DEF Base, TargetMade, MkdirAllowed
  <2>2. CASE ~TargetMade(fails)
    BY <1>1, <2>2, SameTree DEF Base
  <2>. QED BY <2>1, <2>2
<1>5. next = 1 /\ failed = {} /\ remote = found /\ \A w \in Workers : pc[w] = "recv"
  BY DEF TargetMissing, Base, Quiet, Running
<1>6. Quiet'
  <2>1. CASE TargetMade(fails) /\ ~request.slash
    BY <1>1, <2>1 DEF Quiet, Running
  <2>2. CASE ~(TargetMade(fails) /\ ~request.slash)
    BY <1>1, <1>5, <2>2 DEF Quiet, TargetMissing, TargetMade
  <2>. QED BY <2>1, <2>2
<1>7. \A w \in Workers : pc'[w] = "recv" /\ Made(w)'
  BY <1>4, <1>5 DEF TargetMissing, Base, WorkerOK, Made, workVars, Kept
<1>. QED BY <1>3, <1>4, <1>6, <1>7, AllWait DEF Base

(* A rerun starts from the tree it finds.                                   *)
LEMMA KillBase == Base /\ KillAndRerun => Base'
<1>. SUFFICES ASSUME Base, KillAndRerun PROVE Base'
  OBVIOUS
<1>1. Typed'
  <2>1. Len(entries') = 0 /\ next' = 1 /\ failed' = {} /\ runs' \in 1 .. MaxRuns
    BY LimitsAssumption DEF KillAndRerun, Base, Typed
  <2>2. request' = request /\ main_pc' = "start" /\ target_is_dir_final' = FALSE /\ faults' = faults
    BY DEF KillAndRerun
  <2>3. pc' \in [Workers -> Busy \cup {"recv", "exited"}]
    BY DEF KillAndRerun, ForAll
  <2>4. entry' \in [Workers -> 0 .. next' - 1] /\ attempt' \in [Workers -> 0 .. MaxRetries]
    BY <2>1, LimitsAssumption DEF KillAndRerun, ForAll
  <2>5. tries' \in [Workers -> 0 .. MaxAttempts] /\ comp' \in [Workers -> Nat] /\ pos' \in [Workers -> Nat]
    BY LimitsAssumption DEF KillAndRerun, ForAll
  <2>6. created_dirs' \in [Workers -> SUBSET Path]
    BY DEF KillAndRerun, ForAll
  <2>7. /\ Len(entries') \in Nat /\ next' \in 1 .. Len(entries') + 1 /\ failed' \subseteq 1 .. next' - 1
        /\ \A i \in 1 .. Len(entries') : GoodEntry(entries'[i])
    BY <2>1
  <2>8. faults' \in 0 .. MaxFaults /\ runs' \in 1 .. MaxRuns /\ request' \in Requests
    BY <2>1, <2>2 DEF Base, Typed
  <2>. QED BY <2>2, <2>3, <2>4, <2>5, <2>6, <2>7, <2>8 DEF Typed
<1>2. Rooted'
  BY SameTree DEF KillAndRerun, Base
<1>3. \A w \in Workers : pc'[w] = "recv" /\ created_dirs'[w] = {}
  BY DEF KillAndRerun, ForAll
<1>4. Quiet'
  BY <1>3 DEF KillAndRerun, Quiet
<1>5. \A w \in Workers : Made(w)'
  BY <1>3 DEF Made
<1>. QED BY <1>1, <1>2, <1>3, <1>4, <1>5, AllWait DEF Base

(* Nothing moves.                                                           *)
LEMMA StutterBase == Base /\ UNCHANGED vars => Base'
<1>. SUFFICES ASSUME Base, UNCHANGED vars PROVE Base'
  OBVIOUS
<1>1. request' = request /\ found' = found /\ main_pc' = main_pc /\ entries' = entries
      /\ target_is_dir_final' = target_is_dir_final /\ runs' = runs /\ remote' = remote
      /\ next' = next /\ failed' = failed /\ pc' = pc /\ entry' = entry /\ attempt' = attempt
      /\ comp' = comp /\ tries' = tries /\ pos' = pos /\ created_dirs' = created_dirs
      /\ faults' = faults
  BY DEF vars, mainVars, workVars
<1>2. Typed'
  BY <1>1 DEF Base, Typed
<1>3. Rooted' /\ Kept
  BY <1>1, SameTree DEF Base
<1>4. Quiet' /\ Apart'
  BY <1>1 DEF Base, Quiet, Apart
<1>5. ASSUME NEW w \in Workers PROVE WorkerOK(w)'
  <2>1. pc[w] \in Busy => entry[w] \notin failed'
    BY <1>1 DEF Base, WorkerOK, Holds
  <2>2. next' \in Nat /\ next' >= next /\ faults' \in Nat /\ faults' >= faults
    BY <1>1, LimitsAssumption DEF Base, Typed
  <2>. QED BY <1>1, <1>3, <2>1, <2>2, OtherWorker DEF Base, mainVars
<1>. QED BY <1>2, <1>3, <1>4, <1>5 DEF Base

(* The workers are gone, and what they made is there.                       *)
LEMMA FinishBase == Base /\ Finish => Base'
<1>. SUFFICES ASSUME Base, Finish PROVE Base'
  OBVIOUS
<1>1. request' = request /\ found' = found /\ main_pc = "run" /\ main_pc' = "done" /\ entries' = entries
      /\ target_is_dir_final' = target_is_dir_final /\ runs' = runs /\ remote' = remote
      /\ next' = next /\ failed' = failed /\ pc' = pc /\ entry' = entry /\ attempt' = attempt
      /\ comp' = comp /\ tries' = tries /\ pos' = pos /\ created_dirs' = created_dirs
      /\ faults' = faults
  BY DEF Finish, workVars
<1>2. Typed'
  BY <1>1 DEF Base, Typed
<1>3. Rooted' /\ Kept
  BY <1>1, SameTree DEF Base
<1>4. Quiet' /\ Apart'
  BY <1>1 DEF Base, Quiet, Apart, Running
<1>5. ASSUME NEW w \in Workers PROVE WorkerOK(w)'
  <2>1. pc'[w] = "exited" /\ Made(w)'
    BY <1>1, <1>3 DEF Finish, Base, WorkerOK, Made, Kept
  <2>. QED BY <2>1 DEF WorkerOK, InChain, SeenAgain, AtFile, Holds, Busy, Chaining, Filing
<1>. QED BY <1>2, <1>3, <1>4, <1>5 DEF Base

(* A step that takes worker w from the chain or from a file, the tree and    *)
(* its own part of the state aside.                                          *)
WorkerMoves(w) ==
  /\ main_pc \in Running /\ pc[w] \in Busy
  /\ UNCHANGED <<mainVars, next, entry>>
  /\ \E p \in Busy \cup {"recv"} : pc' = [pc EXCEPT ![w] = p]
  /\ faults' \in 0 .. MaxFaults /\ faults' >= faults
  /\ failed' \in {failed, failed \cup {entry[w]}}
  /\ \/ UNCHANGED comp
     \/ \E c \in Nat : comp' = [comp EXCEPT ![w] = c]
  /\ \/ UNCHANGED tries
     \/ \E c \in 0 .. MaxAttempts : tries' = [tries EXCEPT ![w] = c]
  /\ \/ UNCHANGED pos
     \/ \E c \in Nat : pos' = [pos EXCEPT ![w] = c]
  /\ \/ UNCHANGED attempt
     \/ \E c \in 0 .. MaxRetries : attempt' = [attempt EXCEPT ![w] = c]
  /\ \/ UNCHANGED created_dirs
     \/ \E d \in Path : created_dirs' = [created_dirs EXCEPT ![w] = @ \cup {d}]

(* A change at one worker keeps the type and the other workers.              *)
LEMMA OneChange ==
  ASSUME NEW S, NEW f \in [Workers -> S], NEW g, NEW w \in Workers,
         g = f \/ \E c \in S : g = [f EXCEPT ![w] = c]
  PROVE  g \in [Workers -> S] /\ \A v \in Workers \ {w} : g[v] = f[v]
<1>1. CASE g = f
  BY <1>1
<1>2. CASE \E c \in S : g = [f EXCEPT ![w] = c]
  BY <1>2
<1>. QED BY <1>1, <1>2

(* A move keeps the types, and is the worker's own.                          *)
LEMMA MovesTyped ==
  ASSUME Base, NEW w \in Workers, WorkerMoves(w)
  PROVE  /\ Typed' /\ OwnStep(w) /\ failed' \subseteq failed \cup {entry[w]}
         /\ failed' # failed => pc[w] \in Busy
         /\ entry'[w] = entry[w]
         /\ entry[w] \in 1 .. next - 1
<1>0. entry[w] \in 1 .. next - 1 /\ next \in Nat
  BY DEF Base, WorkerOK, Holds, WorkerMoves, Typed
<1>1. pc' \in [Workers -> Busy \cup {"recv", "exited"}] /\ \A v \in Workers \ {w} : pc'[v] = pc[v]
  BY DEF Base, Typed, WorkerMoves
<1>2. comp' \in [Workers -> Nat] /\ \A v \in Workers \ {w} : comp'[v] = comp[v]
  <2>1. comp \in [Workers -> Nat]
    BY DEF Base, Typed
  <2>2. comp' = comp \/ \E c \in Nat : comp' = [comp EXCEPT ![w] = c]
    BY DEF WorkerMoves
  <2>. QED BY <2>1, <2>2, OneChange
<1>3. tries' \in [Workers -> 0 .. MaxAttempts] /\ \A v \in Workers \ {w} : tries'[v] = tries[v]
  <2>1. tries \in [Workers -> 0 .. MaxAttempts]
    BY DEF Base, Typed
  <2>2. tries' = tries \/ \E c \in 0 .. MaxAttempts : tries' = [tries EXCEPT ![w] = c]
    BY DEF WorkerMoves
  <2>. QED BY <2>1, <2>2, OneChange
<1>4. pos' \in [Workers -> Nat] /\ \A v \in Workers \ {w} : pos'[v] = pos[v]
  <2>1. pos \in [Workers -> Nat]
    BY DEF Base, Typed
  <2>2. pos' = pos \/ \E c \in Nat : pos' = [pos EXCEPT ![w] = c]
    BY DEF WorkerMoves
  <2>. QED BY <2>1, <2>2, OneChange
<1>5. attempt' \in [Workers -> 0 .. MaxRetries]
  <2>1. attempt \in [Workers -> 0 .. MaxRetries]
    BY DEF Base, Typed
  <2>2. attempt' = attempt \/ \E c \in 0 .. MaxRetries : attempt' = [attempt EXCEPT ![w] = c]
    BY DEF WorkerMoves
  <2>. QED BY <2>1, <2>2, OneChange
<1>6. created_dirs' \in [Workers -> SUBSET Path]
      /\ \A v \in Workers \ {w} : created_dirs'[v] = created_dirs[v]
  <2>1. created_dirs \in [Workers -> SUBSET Path]
    BY DEF Base, Typed
  <2>2. \/ created_dirs' = created_dirs
        \/ \E d \in Path : created_dirs' = [created_dirs EXCEPT ![w] = @ \cup {d}]
    BY DEF WorkerMoves
  <2>3. \A d \in Path : created_dirs[w] \cup {d} \in SUBSET Path
    BY <2>1
  <2>4. \/ created_dirs' = created_dirs
        \/ \E c \in SUBSET Path : created_dirs' = [created_dirs EXCEPT ![w] = c]
    BY <2>2, <2>3
  <2>. QED BY <2>1, <2>4, OneChange
<1>7. failed' \subseteq 1 .. next - 1 /\ failed' \subseteq failed \cup {entry[w]}
  BY <1>0 DEF Base, Typed, WorkerMoves
<1>8. next' = next /\ entry' = entry
  BY DEF WorkerMoves
<1>9. request' = request /\ main_pc' = main_pc /\ entries' = entries
      /\ target_is_dir_final' = target_is_dir_final /\ runs' = runs
  BY DEF WorkerMoves, mainVars
<1>10. Typed'
  BY <1>1, <1>2, <1>3, <1>4, <1>5, <1>6, <1>7, <1>8, <1>9 DEF Base, Typed, WorkerMoves
<1>11. OwnStep(w)
  BY <1>0, <1>1, <1>2, <1>3, <1>4, <1>6, <1>8 DEF OwnStep, WorkerMoves
<1>. QED BY <1>0, <1>7, <1>8, <1>10, <1>11 DEF WorkerMoves

(* Where the first step of an operation leads.                               *)
LEMMA FirstStepIs ==
  ASSUME NEW w, NEW i
  PROVE  /\ FirstStep(w, i) \in {"stat", "recv", "open"}
         /\ FirstStep(w, i) = "stat" <=>
              DirPath(entries[i]) \notin created_dirs[w] /\ DirPath(entries[i]) # <<>>
         /\ FirstStep(w, i) = "open" <=> /\ DirPath(entries[i]) \in created_dirs[w] \cup {<<>>}
                                         /\ entries[i].kind # "Dir"
BY DEF FirstStep

(* A worker takes the next entry, which is in no other hand.                *)
LEMMA RecvBase == ASSUME Base, NEW w \in Workers, Recv(w) PROVE Base'
<1>0. /\ main_pc \in Running /\ next \in 1 .. Len(entries) /\ Len(entries) \in Nat /\ next' = next + 1
      /\ entry' = [entry EXCEPT ![w] = next] /\ pc' = [pc EXCEPT ![w] = FirstStep(w, next)]
      /\ comp' = [comp EXCEPT ![w] = 1] /\ tries' = [tries EXCEPT ![w] = 0]
      /\ pos' = [pos EXCEPT ![w] = 0] /\ attempt' = [attempt EXCEPT ![w] = 1]
      /\ created_dirs' = created_dirs /\ faults' = faults /\ failed' = failed /\ remote' = remote
      /\ UNCHANGED mainVars
  BY DEF Recv, Running, Base, Typed
<1>1. FirstStep(w, next) \in {"stat", "recv", "open"}
  BY FirstStepIs
<1>2. Typed'
  <2>1. pc' \in [Workers -> Busy \cup {"recv", "exited"}]
    BY <1>0, <1>1 DEF Base, Typed, Busy, Chaining, Filing
  <2>2. entry' \in [Workers -> 0 .. next' - 1]
    <3>1. entry \in [Workers -> 0 .. next - 1]
      BY DEF Base, Typed
    <3>2. 0 .. next - 1 \subseteq 0 .. next' - 1 /\ next \in 0 .. next' - 1
      BY <1>0
    <3>3. entry \in [Workers -> 0 .. next' - 1]
      BY <3>1, <3>2
    <3>. QED BY <1>0, <3>2, <3>3, OneChange
  <2>3. comp' \in [Workers -> Nat] /\ pos' \in [Workers -> Nat]
    BY <1>0 DEF Base, Typed
  <2>4. tries' \in [Workers -> 0 .. MaxAttempts] /\ attempt' \in [Workers -> 0 .. MaxRetries]
    <3>1. tries \in [Workers -> 0 .. MaxAttempts] /\ attempt \in [Workers -> 0 .. MaxRetries]
      BY DEF Base, Typed
    <3>2. 0 \in 0 .. MaxAttempts /\ 1 \in 0 .. MaxRetries
      BY LimitsAssumption
    <3>. QED BY <1>0, <3>1, <3>2, OneChange
  <2>5. next' \in 1 .. Len(entries) + 1 /\ failed' \subseteq 1 .. next' - 1
    BY <1>0 DEF Base, Typed
  <2>. QED BY <1>0, <2>1, <2>2, <2>3, <2>4, <2>5 DEF Base, Typed, mainVars
<1>3. Rooted' /\ Kept
  BY <1>0, SameTree DEF Base
<1>4. OwnStep(w)
  BY <1>0 DEF OwnStep, Base, Typed
<1>5. Mine(w)' = entries[next] /\ entry'[w] = next /\ pc'[w] = FirstStep(w, next)
      /\ comp'[w] = 1 /\ tries'[w] = 0
  BY <1>0 DEF Base, Typed, Mine, mainVars
<1>6. DirPath(Mine(w))' = DirPath(entries[next]) /\ GoodEntry(entries[next])
      /\ DirPath(entries[next]) \in Path
      /\ (DirPath(entries[next]) # <<>> => 1 \in 1 .. Len(DirPath(entries[next])))
  <2>1. DirPath(Mine(w))' = DirPath(entries[next])
    BY <1>0, <1>5 DEF DirPath, RemotePath, mainVars
  <2>2. GoodEntry(entries[next])
    BY <1>0 DEF Base, Typed
  <2>. QED BY <2>1, <2>2, RequestTyped, PathTypes DEF Base, Typed
<1>7. WorkerOK(w)'
  <2>1. InChain(w)'
    <3>. SUFFICES ASSUME pc'[w] \in Chaining
                  PROVE  (/\ tries[w] < MaxAttempts /\ comp[w] \in 1 .. Len(DirPath(Mine(w)))
                          /\ \A k \in 0 .. comp[w] - 1 : IsDir(SubSeq(DirPath(Mine(w)), 1, k)))'
      BY DEF InChain
    <3>1. DirPath(entries[next]) # <<>>
      BY <1>1, <1>5, FirstStepIs DEF Chaining
    <3>2. \A k \in 0 .. 1 - 1 : k = 0
      OBVIOUS
    <3>3. SubSeq(DirPath(entries[next]), 1, 0) = <<>>
      BY SubSeqEmpty
    <3>4. tries'[w] < MaxAttempts /\ comp'[w] \in 1 .. Len(DirPath(Mine(w))')
      BY <1>5, <1>6, <3>1, LimitsAssumption
    <3>5. ASSUME NEW k \in 0 .. comp'[w] - 1 PROVE IsDir(SubSeq(DirPath(Mine(w)), 1, k))'
      <4>1. k = 0
        BY <1>5, <3>5
      <4>2. SubSeq(DirPath(Mine(w)), 1, k)' = <<>>
        BY <1>6, <3>3, <4>1
      <4>. QED BY <1>3, <4>2 DEF Rooted, IsDir
    <3>. QED BY <3>4, <3>5
  <2>2. SeenAgain(w)'
    BY <1>1, <1>5 DEF SeenAgain
  <2>3. AtFile(w)'
    <3>1. pc'[w] # "write"
      BY <1>1, <1>5
    <3>2. ASSUME pc'[w] = "open"
          PROVE  entries[next].kind = "File" /\ DirPath(entries[next]) \in created_dirs[w] \cup {<<>>}
      BY <1>5, <1>6, <3>2, FirstStepIs DEF GoodEntry
    <3>. QED BY <1>0, <1>5, <1>6, <3>1, <3>2 DEF AtFile, Filing
  <2>4. Made(w)'
    BY <1>0, <1>3 DEF Base, WorkerOK, Made, Kept
  <2>5. Holds(w)'
    BY <1>0, <1>5 DEF Holds, Base, Typed
  <2>. QED BY <2>1, <2>2, <2>3, <2>4, <2>5 DEF WorkerOK
<1>8. \A v \in Workers : entry'[w] # entry[v]
  BY <1>0, <1>5 DEF Base, Typed
<1>. QED BY <1>0, <1>2, <1>3, <1>4, <1>7, <1>8, OneWorker

(* A worker with nothing left to take holds nothing.                        *)
LEMMA ExitBase == ASSUME Base, NEW w \in Workers, Exit(w) PROVE Base'
<1>0. /\ main_pc \in Running /\ pc' = [pc EXCEPT ![w] = "exited"] /\ UNCHANGED mainVars
      /\ remote' = remote /\ next' = next /\ failed' = failed /\ faults' = faults
      /\ entry' = entry /\ attempt' = attempt /\ comp' = comp /\ tries' = tries
      /\ pos' = pos /\ created_dirs' = created_dirs
  BY DEF Exit, Running, workVars
<1>1. Rooted' /\ Kept
  BY <1>0, SameTree DEF Base
<1>2. pc' \in [Workers -> Busy \cup {"recv", "exited"}] /\ pc'[w] = "exited"
      /\ \A v \in Workers \ {w} : pc'[v] = pc[v]
  BY <1>0 DEF Base, Typed
<1>3. Typed'
  BY <1>0, <1>2 DEF Base, Typed, mainVars
<1>4. OwnStep(w)
  <2>1. next \in Nat /\ faults \in 0 .. MaxFaults
    BY DEF Base, Typed
  <2>2. next >= next /\ faults >= faults
    BY <2>1, LimitsAssumption
  <2>. QED BY <1>0, <1>2, <2>1, <2>2 DEF OwnStep
<1>5. Made(w)'
  BY <1>0, <1>1 DEF Base, WorkerOK, Made, Kept
<1>6. WorkerOK(w)'
  BY <1>2, <1>5 DEF WorkerOK, InChain, SeenAgain, AtFile, Holds, Busy, Chaining, Filing
<1>. QED BY <1>0, <1>1, <1>2, <1>3, <1>4, <1>6, OneWorker DEF Busy, Chaining, Filing

(* Where a worker in the chain is.                                           *)
LEMMA ChainFacts ==
  ASSUME Base, NEW w \in Workers, pc[w] \in Chaining
  PROVE  /\ DirPath(Mine(w)) \in Path /\ Len(DirPath(Mine(w))) \in Nat
         /\ comp[w] \in 1 .. Len(DirPath(Mine(w))) /\ comp[w] \in Nat /\ tries[w] \in Nat
         /\ tries[w] < MaxAttempts
         /\ IsDir(Front(Component(w)))
         /\ comp[w] = Len(DirPath(Mine(w))) => Component(w) = DirPath(Mine(w))
         /\ \A k \in 0 .. comp[w] - 1 : IsDir(SubSeq(DirPath(Mine(w)), 1, k))
         /\ GoodEntry(Mine(w))
         /\ pc[w] \in Busy /\ entry[w] \in (1 .. next - 1) \ failed
         /\ main_pc \in Running
<1>. DEFINE D == DirPath(Mine(w))
            c == comp[w]
<1>1. pc[w] \in Busy
  BY DEF Busy
<1>2. entry[w] \in (1 .. next - 1) \ failed
  BY <1>1 DEF Base, WorkerOK, Holds
<1>3. D \in Path /\ Len(D) \in Nat /\ GoodEntry(Mine(w))
  <2>1. entry[w] # 0
    BY <1>2
  <2>. QED BY <2>1, MineIsGood DEF Base
<1>4. /\ tries[w] < MaxAttempts /\ c \in 1 .. Len(D)
      /\ \A k \in 0 .. c - 1 : IsDir(SubSeq(D, 1, k))
  BY DEF Base, WorkerOK, InChain
<1>5. c \in Nat /\ tries[w] \in Nat
  BY DEF Base, Typed
<1>6. main_pc \in Running
  BY <1>1 DEF Base, Quiet, Busy, Chaining, Filing
<1>7. IsDir(Front(Component(w)))
  <2>. HIDE DEF D, c
  <2>1. c \in 0 .. Len(D) /\ c # 0 /\ c - 1 \in 0 .. c - 1
    BY <1>3, <1>4, <1>5
  <2>2. Front(SubSeq(D, 1, c)) = SubSeq(D, 1, c - 1)
    BY <1>3, <2>1, PathPrefixes
  <2>. QED BY <1>4, <2>1, <2>2 DEF Component, D, c
<1>8. c = Len(D) => Component(w) = D
  BY <1>3, PathPrefixes DEF Component
<1>. QED BY <1>1, <1>2, <1>3, <1>4, <1>5, <1>6, <1>7, <1>8

(* What a step of the chain leaves alone.                                    *)
ChainStep(w) ==
  /\ pc[w] \in Chaining
  /\ UNCHANGED chainUnchanged
  /\ faults' \in 0 .. MaxFaults /\ faults' >= faults
  /\ Kept /\ Rooted'

(* A component that is a directory now has been passed.                      *)
LEMMA PassedOK ==
  ASSUME Base, NEW w \in Workers, ChainStep(w), Passed(w),
         NEW here, here = Component(w), IsDir(here)'
  PROVE  Base' /\ failed' = failed
<1>. DEFINE D == DirPath(Mine(w))
            c == comp[w]
<1>0. /\ D \in Path /\ Len(D) \in Nat /\ c \in 1 .. Len(D) /\ c \in Nat /\ tries[w] < MaxAttempts
      /\ c = Len(D) => Component(w) = D
      /\ \A k \in 0 .. c - 1 : IsDir(SubSeq(D, 1, k))
      /\ GoodEntry(Mine(w)) /\ pc[w] \in Busy /\ entry[w] \in (1 .. next - 1) \ failed
      /\ main_pc \in Running
  BY ChainFacts DEF ChainStep
<1>1. UNCHANGED <<mainVars, next, entry, attempt, pos>>
  BY DEF ChainStep, chainUnchanged
<1>2. UNCHANGED tries /\ UNCHANGED failed
  BY DEF Passed
<1>3. /\ Mine(w)' = Mine(w) /\ DirPath(Mine(w))' = D
  BY <1>1, SamePaths
<1>4. CASE c < Len(D)
  <2>1. comp' = [comp EXCEPT ![w] = c + 1] /\ pc' = [pc EXCEPT ![w] = "stat"]
        /\ UNCHANGED created_dirs
    BY <1>4 DEF Passed
  <2>2. WorkerMoves(w)
    <3>1. \E p \in Busy \cup {"recv"} : pc' = [pc EXCEPT ![w] = p]
      BY <2>1 DEF Busy, Chaining
    <3>2. \E x \in Nat : comp' = [comp EXCEPT ![w] = x]
      <4>1. c + 1 \in Nat
        BY <1>0
      <4>. QED BY <2>1, <4>1, Zenon
    <3>. QED BY <1>0, <1>1, <1>2, <2>1, <3>1, <3>2 DEF WorkerMoves, ChainStep
  <2>3. pc'[w] = "stat" /\ comp'[w] = c + 1 /\ tries'[w] = tries[w]
    BY <1>2, <2>1 DEF Base, Typed
  <2>4. InChain(w)'
    <3>1. comp'[w] \in 1 .. Len(D)
      BY <1>0, <1>4, <2>3
    <3>2. ASSUME NEW k \in 0 .. comp'[w] - 1 PROVE IsDir(SubSeq(DirPath(Mine(w)), 1, k))'
      <4>1. SubSeq(DirPath(Mine(w)), 1, k)' = SubSeq(D, 1, k)
        BY <1>3
      <4>2. PICK q : q = SubSeq(D, 1, k)
        OBVIOUS
      <4>3. IsDir(q)'
        <5>1. CASE k = c
          BY <4>2, <5>1 DEF Component
        <5>2. CASE k # c
          <6>1. k \in 0 .. c - 1
            BY <1>0, <2>3, <5>2
          <6>2. IsDir(q)
            BY <1>0, <4>2, <6>1
          <6>. QED BY <6>2 DEF ChainStep, Kept
        <5>. QED BY <5>1, <5>2
      <4>. QED BY <4>1, <4>2, <4>3 DEF IsDir
    <3>. QED BY <1>0, <1>3, <2>3, <3>1, <3>2 DEF InChain
  <2>5. Made(w)'
    BY <2>1 DEF Base, WorkerOK, Made, ChainStep, Kept
  <2>6. WorkerOK(w)'
    BY <1>0, <1>1, <1>2, <2>3, <2>4, <2>5 DEF WorkerOK, SeenAgain, AtFile, Holds, Filing
  <2>. QED BY <1>0, <1>1, <1>2, <2>2, <2>6, MovesTyped, OneWorker DEF ChainStep
<1>5. CASE ~(c < Len(D))
  <2>1. UNCHANGED comp /\ created_dirs' = [created_dirs EXCEPT ![w] = @ \cup {D}]
        /\ pc' = [pc EXCEPT ![w] = IF Mine(w).kind = "Dir" THEN "recv" ELSE "open"]
    BY <1>5 DEF Passed
  <2>2. WorkerMoves(w)
    <3>1. \E p \in Busy \cup {"recv"} : pc' = [pc EXCEPT ![w] = p]
      BY <2>1 DEF Busy, Filing
    <3>2. \E x \in Path : created_dirs' = [created_dirs EXCEPT ![w] = @ \cup {x}]
      BY <1>0, <2>1
    <3>. QED BY <1>0, <1>1, <1>2, <2>1, <3>1, <3>2 DEF WorkerMoves, ChainStep
  <2>3. pc'[w] = (IF Mine(w).kind = "Dir" THEN "recv" ELSE "open")
        /\ created_dirs'[w] = created_dirs[w] \cup {D}
    BY <2>1 DEF Base, Typed
  <2>4. IsDir(D)'
    <3>1. c = Len(D)
      BY <1>0, <1>5
    <3>2. here = D
      BY <1>0, <3>1
    <3>. QED BY <1>3, <3>2 DEF IsDir
  <2>5. Made(w)'
    BY <1>3, <2>3, <2>4 DEF Base, WorkerOK, Made, ChainStep, Kept, IsDir
  <2>6. AtFile(w)'
    <3>1. Mine(w).kind # "Dir" => Mine(w).kind = "File"
      BY <1>0 DEF GoodEntry
    <3>. QED BY <1>3, <2>3, <3>1 DEF AtFile, Filing
  <2>7. InChain(w)' /\ SeenAgain(w)' /\ Holds(w)'
    BY <1>0, <1>1, <1>2, <2>3 DEF InChain, SeenAgain, Holds, Chaining
  <2>8. WorkerOK(w)'
    BY <2>5, <2>6, <2>7 DEF WorkerOK
  <2>. QED BY <1>0, <1>1, <1>2, <2>2, <2>8, MovesTyped, OneWorker DEF ChainStep
<1>. QED BY <1>2, <1>4, <1>5

(* The chain begun again, or given up.                                       *)
LEMMA ChainFailsOK ==
  ASSUME Base, NEW w \in Workers, ChainStep(w), ChainFails(w)
  PROVE  Base'
<1>. DEFINE D == DirPath(Mine(w))
<1>0. /\ D \in Path /\ Len(D) \in Nat /\ comp[w] \in 1 .. Len(D) /\ tries[w] \in Nat
      /\ tries[w] < MaxAttempts /\ pc[w] \in Busy /\ entry[w] \in (1 .. next - 1) \ failed
      /\ main_pc \in Running
  BY ChainFacts DEF ChainStep
<1>1. UNCHANGED <<mainVars, next, entry, attempt, pos>>
  BY DEF ChainStep, chainUnchanged
<1>2. comp' = [comp EXCEPT ![w] = 1] /\ tries' = [tries EXCEPT ![w] = tries[w] + 1]
      /\ UNCHANGED created_dirs
  BY DEF ChainFails
<1>3. \/ pc' = [pc EXCEPT ![w] = "stat"] /\ failed' = failed /\ tries[w] + 1 < MaxAttempts
      \/ pc' = [pc EXCEPT ![w] = "recv"] /\ failed' = failed \cup {entry[w]}
  BY DEF ChainFails
<1>4. WorkerMoves(w)
  <2>1. \E p \in Busy \cup {"recv"} : pc' = [pc EXCEPT ![w] = p]
    BY <1>3 DEF Busy, Chaining
  <2>2. \E x \in 0 .. MaxAttempts : tries' = [tries EXCEPT ![w] = x]
    <3>1. tries[w] + 1 \in 0 .. MaxAttempts
      BY <1>0, LimitsAssumption
    <3>. QED BY <1>2, <3>1, Zenon
  <2>3. \E x \in Nat : comp' = [comp EXCEPT ![w] = x]
    BY <1>2
  <2>4. failed' \in {failed, failed \cup {entry[w]}}
    BY <1>3
  <2>. QED BY <1>0, <1>1, <1>2, <2>1, <2>2, <2>3, <2>4 DEF WorkerMoves, ChainStep
<1>5. /\ Mine(w)' = Mine(w) /\ DirPath(Mine(w))' = D
  BY <1>1, SamePaths
<1>6. Made(w)'
  BY <1>2 DEF Base, WorkerOK, Made, ChainStep, Kept
<1>7. WorkerOK(w)'
  <2>1. CASE pc' = [pc EXCEPT ![w] = "stat"] /\ failed' = failed /\ tries[w] + 1 < MaxAttempts
    <3>1. pc'[w] = "stat" /\ comp'[w] = 1 /\ tries'[w] = tries[w] + 1
      BY <1>2, <2>1 DEF Base, Typed
    <3>2. ASSUME NEW k \in 0 .. comp'[w] - 1 PROVE IsDir(SubSeq(DirPath(Mine(w)), 1, k))'
      <4>1. k = 0
        BY <3>1, <3>2
      <4>2. SubSeq(DirPath(Mine(w)), 1, k)' = <<>>
        BY <1>5, <4>1, SubSeqEmpty
      <4>. QED BY <4>2 DEF ChainStep, Rooted, IsDir
    <3>3. InChain(w)'
      BY <1>0, <1>5, <2>1, <3>1, <3>2 DEF InChain
    <3>. QED BY <1>0, <1>1, <1>6, <2>1, <3>1, <3>3 DEF WorkerOK, SeenAgain, AtFile, Holds, Filing
  <2>2. CASE pc' = [pc EXCEPT ![w] = "recv"] /\ failed' = failed \cup {entry[w]}
    <3>1. pc'[w] = "recv"
      BY <2>2 DEF Base, Typed
    <3>. QED BY <1>6, <3>1 DEF WorkerOK, InChain, SeenAgain, AtFile, Holds, Busy, Chaining, Filing
  <2>. QED BY <1>3, <2>1, <2>2
<1>. QED BY <1>0, <1>1, <1>4, <1>7, MovesTyped, OneWorker DEF ChainStep

(* The worker goes on to the next call about the same component.             *)
LEMMA SameComponent ==
  ASSUME Base, NEW w \in Workers, ChainStep(w), UNCHANGED <<comp, tries, failed, created_dirs>>,
         NEW p \in Chaining, pc' = [pc EXCEPT ![w] = p],
         p = "again" /\ faults' = 0 => Component(w) \in DOMAIN remote
  PROVE  Base'
<1>0. /\ pc[w] \in Busy /\ entry[w] \in (1 .. next - 1) \ failed /\ main_pc \in Running
  BY ChainFacts DEF ChainStep
<1>1. UNCHANGED <<mainVars, next, entry, attempt, pos>>
  BY DEF ChainStep, chainUnchanged
<1>2. WorkerMoves(w)
  <2>1. \E x \in Busy \cup {"recv"} : pc' = [pc EXCEPT ![w] = x]
    BY DEF Busy
  <2>. QED BY <1>0, <1>1, <2>1 DEF WorkerMoves, ChainStep
<1>3. /\ Mine(w)' = Mine(w) /\ DirPath(Mine(w))' = DirPath(Mine(w))
  BY <1>1, SamePaths
<1>4. pc'[w] = p
  BY DEF Base, Typed
<1>5. InChain(w)'
  BY <1>3 DEF ChainStep, Base, WorkerOK, InChain, Kept
<1>6. SeenAgain(w)'
  BY <1>3, <1>4 DEF SeenAgain, Component, ChainStep, Kept
<1>7. AtFile(w)' /\ Holds(w)'
  BY <1>0, <1>1, <1>4 DEF AtFile, Holds, Chaining, Filing
<1>8. Made(w)'
  BY DEF Base, WorkerOK, Made, ChainStep, Kept
<1>9. WorkerOK(w)'
  BY <1>5, <1>6, <1>7, <1>8 DEF WorkerOK
<1>. QED BY <1>0, <1>1, <1>2, <1>9, MovesTyped, OneWorker DEF ChainStep

(* A component looked at.                                                   *)
LEMMA StatBase == ASSUME Base, NEW w \in Workers, StatComponent(w) PROVE Base'
<1>1. pc[w] \in Chaining /\ UNCHANGED chainUnchanged /\ remote' = remote
  BY DEF StatComponent, Chaining
<1>2. Rooted' /\ Kept
  BY <1>1, SameTree DEF Base
<1>3. faults' \in 0 .. MaxFaults /\ faults' >= faults
  BY FaultCounts DEF StatComponent, Base
<1>4. ChainStep(w)
  BY <1>1, <1>2, <1>3 DEF ChainStep
<1>5. CASE IsDir(Component(w)) /\ Passed(w)
  <2>1. PICK here : here = Component(w)
    OBVIOUS
  <2>2. IsDir(here)'
    BY <1>1, <1>5, <2>1 DEF IsDir
  <2>. QED BY <1>4, <1>5, <2>1, <2>2, PassedOK
<1>6. CASE ChainFails(w)
  BY <1>4, <1>6, ChainFailsOK
<1>7. CASE pc' = [pc EXCEPT ![w] = "mkdir"] /\ UNCHANGED <<comp, tries, failed, created_dirs>>
  <2>1. "mkdir" \in Chaining
    BY DEF Chaining
  <2>. QED BY <1>4, <1>7, <2>1, SameComponent
<1>. QED BY <1>5, <1>6, <1>7 DEF StatComponent

(* A component made, or an answer that another may have made it.            *)
LEMMA MakeBase == ASSUME Base, NEW w \in Workers, MakeComponent(w) PROVE Base'
<1>1. pc[w] \in Chaining /\ UNCHANGED chainUnchanged
  BY DEF MakeComponent, Chaining
<1>2. faults' \in 0 .. MaxFaults /\ faults' >= faults
  BY FaultCounts DEF MakeComponent, Base
<1>3. CASE MkdirAllowed(Component(w)) /\ remote' = WithNode(Component(w), Directory) /\ Passed(w)
  <2>1. PICK here : here = Component(w)
    OBVIOUS
  <2>2. Rooted' /\ Kept /\ IsDir(here)'
    <3>1. here \notin DOMAIN remote /\ remote' = WithNode(here, Directory)
      BY <1>3, <2>1 DEF MkdirAllowed
    <3>. QED BY <3>1, MkdirKeeps DEF Base
  <2>. QED BY <1>1, <1>2, <1>3, <2>1, <2>2, PassedOK DEF ChainStep
<1>4. CASE /\ IF MkdirAllowed(Component(w)) THEN Fault ELSE NoFault
           /\ pc' = [pc EXCEPT ![w] = "again"]
           /\ UNCHANGED <<remote, comp, tries, failed, created_dirs>>
  <2>1. Rooted' /\ Kept
    BY <1>4, SameTree DEF Base
  <2>2. faults' = 0 => Component(w) \in DOMAIN remote
    <3>1. IsDir(Front(Component(w)))
      BY <1>1, ChainFacts
    <3>. QED BY <1>4, <3>1, FaultCounts DEF MkdirAllowed, Base
  <2>3. "again" \in Chaining
    BY DEF Chaining
  <2>. QED BY <1>1, <1>2, <1>4, <2>1, <2>2, <2>3, SameComponent DEF ChainStep
<1>. QED BY <1>3, <1>4 DEF MakeComponent

(* The second look at a component.                                          *)
LEMMA AgainBase == ASSUME Base, NEW w \in Workers, StatAgain(w) PROVE Base'
<1>1. pc[w] \in Chaining /\ UNCHANGED chainUnchanged /\ remote' = remote
  BY DEF StatAgain, Chaining
<1>2. Rooted' /\ Kept
  BY <1>1, SameTree DEF Base
<1>3. faults' \in 0 .. MaxFaults /\ faults' >= faults
  BY FaultCounts DEF StatAgain, Base
<1>4. ChainStep(w)
  BY <1>1, <1>2, <1>3 DEF ChainStep
<1>5. CASE IsDir(Component(w)) /\ Passed(w)
  <2>1. PICK here : here = Component(w)
    OBVIOUS
  <2>2. IsDir(here)'
    BY <1>1, <1>5, <2>1 DEF IsDir
  <2>. QED BY <1>4, <1>5, <2>1, <2>2, PassedOK
<1>6. CASE ChainFails(w)
  BY <1>4, <1>6, ChainFailsOK
<1>. QED BY <1>5, <1>6 DEF StatAgain

(* Where a worker at a file is.                                              *)
LEMMA FileFacts ==
  ASSUME Base, NEW w \in Workers, pc[w] \in Filing
  PROVE  /\ GoodEntry(Mine(w)) /\ Mine(w).kind = "File" /\ Size[Mine(w).data] \in Nat
         /\ DirPath(Mine(w)) \in created_dirs[w] \cup {<<>>}
         /\ pc[w] \in Busy /\ entry[w] \in (1 .. next - 1) \ failed
         /\ main_pc \in Running
         /\ FirstStep(w, entry[w]) = "open"
         /\ IsDir(DirPath(Mine(w)))
<1>1. pc[w] \in Busy
  BY DEF Busy
<1>2. entry[w] \in (1 .. next - 1) \ failed
  BY <1>1 DEF Base, WorkerOK, Holds
<1>3. GoodEntry(Mine(w))
  <2>1. entry[w] # 0
    BY <1>2
  <2>. QED BY <2>1, MineIsGood DEF Base
<1>4. Mine(w).kind = "File" /\ DirPath(Mine(w)) \in created_dirs[w] \cup {<<>>}
  BY DEF Base, WorkerOK, AtFile
<1>5. main_pc \in Running
  BY <1>1 DEF Base, Quiet, Busy, Chaining, Filing
<1>6. FirstStep(w, entry[w]) = "open"
  BY <1>4 DEF FirstStep, Mine
<1>7. IsDir(DirPath(Mine(w)))
  BY <1>4 DEF Base, WorkerOK, Made, Rooted
<1>. QED BY <1>1, <1>2, <1>3, <1>4, <1>5, <1>6, <1>7 DEF GoodEntry

(* What a step at a file leaves alone.                                       *)
FileStep(w) ==
  /\ pc[w] \in Filing
  /\ UNCHANGED fileUnchanged
  /\ faults' \in 0 .. MaxFaults /\ faults' >= faults
  /\ Kept /\ Rooted'
  /\ pos' = pos \/ \E x \in Nat : pos' = [pos EXCEPT ![w] = x]

(* A step at a file, to where the worker stands next.                        *)
LEMMA FileStepOK ==
  ASSUME Base, NEW w \in Workers, FileStep(w),
         NEW p \in {"open", "write", "recv"}, pc' = [pc EXCEPT ![w] = p],
         failed' = failed \/ (p = "recv" /\ failed' = failed \cup {entry[w]}),
         attempt' = attempt \/ \E x \in 0 .. MaxRetries : attempt' = [attempt EXCEPT ![w] = x],
         NEW path, path = RemotePath(Mine(w)),
         p = "write" => IsFile(path)' /\ pos'[w] \in 1 .. Size[Mine(w).data] + 1
  PROVE  Base'
<1>0. /\ Mine(w).kind = "File" /\ DirPath(Mine(w)) \in created_dirs[w] \cup {<<>>}
      /\ pc[w] \in Busy /\ entry[w] \in (1 .. next - 1) \ failed /\ main_pc \in Running
  BY FileFacts DEF FileStep
<1>1. UNCHANGED <<mainVars, next, entry, comp, tries, created_dirs>>
  BY DEF FileStep, fileUnchanged
<1>2. WorkerMoves(w)
  <2>1. \E x \in Busy \cup {"recv"} : pc' = [pc EXCEPT ![w] = x]
    BY DEF Busy, Filing
  <2>. QED BY <1>0, <1>1, <2>1 DEF WorkerMoves, FileStep
<1>3. /\ Mine(w)' = Mine(w) /\ DirPath(Mine(w))' = DirPath(Mine(w))
      /\ RemotePath(Mine(w))' = RemotePath(Mine(w))
  BY <1>1, SamePaths
<1>4. pc'[w] = p
  BY DEF Base, Typed
<1>5. AtFile(w)'
  <2>1. p = "write" => IsFile(RemotePath(Mine(w)))' /\ pos'[w] \in 1 .. Size[Mine(w).data] + 1
    BY <1>3 DEF IsFile
  <2>. QED BY <1>0, <1>1, <1>3, <1>4, <2>1 DEF AtFile
<1>6. Made(w)'
  BY <1>1 DEF Base, WorkerOK, Made, FileStep, Kept
<1>7. InChain(w)' /\ SeenAgain(w)'
  BY <1>4 DEF InChain, SeenAgain, Chaining
<1>8. Holds(w)'
  <2>1. p = "recv" => p \notin Busy
    BY DEF Busy, Chaining, Filing
  <2>. QED BY <1>0, <1>1, <1>4, <2>1 DEF Holds
<1>9. WorkerOK(w)'
  BY <1>5, <1>6, <1>7, <1>8 DEF WorkerOK
<1>. QED BY <1>0, <1>1, <1>2, <1>9, MovesTyped, OneWorker DEF FileStep

(* A file that failed is begun again, or given up.                          *)
LEMMA FileFailsOK ==
  ASSUME Base, NEW w \in Workers, FileStep(w), FileFails(w)
  PROVE  Base'
<1>0. FirstStep(w, entry[w]) = "open" /\ attempt[w] \in Nat
  <2>1. attempt \in [Workers -> 0 .. MaxRetries] /\ MaxRetries \in Nat
    BY LimitsAssumption DEF Base, Typed
  <2>2. attempt[w] \in Nat
    BY <2>1
  <2>. QED BY <2>2, FileFacts DEF FileStep
<1>1. PICK path : path = RemotePath(Mine(w))
  OBVIOUS
<1>2. CASE attempt[w] < MaxRetries
  <2>1. pc' = [pc EXCEPT ![w] = "open"] /\ failed' = failed
        /\ attempt' = [attempt EXCEPT ![w] = attempt[w] + 1]
    BY <1>0, <1>2 DEF FileFails
  <2>2. attempt[w] + 1 \in 0 .. MaxRetries
    BY <1>0, <1>2, LimitsAssumption
  <2>3. \E x \in 0 .. MaxRetries : attempt' = [attempt EXCEPT ![w] = x]
    BY <2>1, <2>2, Zenon
  <2>. QED BY <1>1, <2>1, <2>3, FileStepOK
<1>3. CASE ~(attempt[w] < MaxRetries)
  <2>1. pc' = [pc EXCEPT ![w] = "recv"] /\ failed' = failed \cup {entry[w]} /\ attempt' = attempt
    BY <1>3 DEF FileFails
  <2>. QED BY <1>1, <2>1, FileStepOK
<1>. QED BY <1>2, <1>3

(* A file opened: its parent is there, so it is made or truncated.          *)
LEMMA OpenBase == ASSUME Base, NEW w \in Workers, OpenFile(w) PROVE Base'
<1>1. pc[w] \in Filing /\ UNCHANGED fileUnchanged /\ pos' = [pos EXCEPT ![w] = 1]
  BY DEF OpenFile, Filing
<1>2. faults' \in 0 .. MaxFaults /\ faults' >= faults
  BY FaultCounts DEF OpenFile, Base
<1>3. \E x \in Nat : pos' = [pos EXCEPT ![w] = x]
  BY <1>1
<1>4. PICK path : path = RemotePath(Mine(w))
  OBVIOUS
<1>5. CASE /\ ~IsDir(path) /\ remote' = WithNode(path, [dir |-> FALSE, data |-> <<>>])
           /\ pc' = [pc EXCEPT ![w] = "write"] /\ UNCHANGED <<attempt, failed>>
  <2>1. Rooted' /\ Kept /\ IsFile(path)'
    BY <1>5, OpenKeepsTree DEF Base
  <2>2. pos'[w] = 1
    BY <1>1 DEF Base, Typed
  <2>3. 1 \in 1 .. Size[Mine(w).data] + 1
    BY <1>1, FileFacts
  <2>. QED BY <1>1, <1>2, <1>3, <1>4, <1>5, <2>1, <2>2, <2>3, FileStepOK DEF FileStep
<1>6. CASE FileFails(w) /\ remote' = remote
  <2>1. Rooted' /\ Kept
    BY <1>6, SameTree DEF Base
  <2>. QED BY <1>1, <1>2, <1>3, <1>6, <2>1, FileFailsOK DEF FileStep
<1>. QED BY <1>4, <1>5, <1>6 DEF OpenFile

(* A chunk written, the position within one of the end.                     *)
LEMMA WriteBase == ASSUME Base, NEW w \in Workers, WriteChunk(w) PROVE Base'
<1>1. pc[w] = "write" /\ pc[w] \in Filing /\ UNCHANGED fileUnchanged
      /\ pos[w] =< Size[Mine(w).data]
  BY DEF WriteChunk, Filing
<1>2. faults' \in 0 .. MaxFaults /\ faults' >= faults
  BY FaultCounts DEF WriteChunk, Base
<1>4. PICK path : path = RemotePath(Mine(w))
  OBVIOUS
<1>5. CASE /\ remote' = [remote EXCEPT ![path].data = Written(@, pos[w], Mine(w).data)]
           /\ pos' = [pos EXCEPT ![w] = pos[w] + 1]
           /\ UNCHANGED <<pc, attempt, failed>>
  <2>0. IsFile(path) /\ pos[w] \in 1 .. Size[Mine(w).data] + 1 /\ pos[w] \in Nat
    BY <1>1, <1>4 DEF Base, WorkerOK, AtFile, Typed
  <2>1. Rooted' /\ Kept /\ IsFile(path)'
    <3>1. \E x : remote' = [remote EXCEPT ![path].data = x]
      BY <1>5
    <3>. QED BY <2>0, <3>1, WriteKeeps DEF Base
  <2>2. pos'[w] = pos[w] + 1
    BY <1>5 DEF Base, Typed
  <2>3. pos'[w] \in 1 .. Size[Mine(w).data] + 1
    BY <1>1, <2>0, <2>2, FileFacts
  <2>4. \E x \in Nat : pos' = [pos EXCEPT ![w] = x]
    <3>1. pos[w] + 1 \in Nat
      BY <2>0
    <3>. QED BY <1>5, <3>1, Zenon
  <2>5. pc' = [pc EXCEPT ![w] = "write"]
    BY <1>1, <1>5 DEF Base, Typed
  <2>. QED BY <1>1, <1>2, <1>4, <1>5, <2>1, <2>3, <2>4, <2>5, FileStepOK DEF FileStep
<1>6. CASE FileFails(w) /\ UNCHANGED <<remote, pos>>
  <2>1. Rooted' /\ Kept
    BY <1>6, SameTree DEF Base
  <2>. QED BY <1>1, <1>2, <1>6, <2>1, FileFailsOK DEF FileStep
<1>. QED BY <1>4, <1>5, <1>6 DEF WriteChunk

(* A file written to its end is let go.                                     *)
LEMMA EofBase == ASSUME Base, NEW w \in Workers, EndOfFile(w) PROVE Base'
<1>1. pc[w] \in Filing /\ UNCHANGED fileUnchanged /\ pc' = [pc EXCEPT ![w] = "recv"]
      /\ remote' = remote /\ pos' = pos /\ attempt' = attempt /\ failed' = failed /\ faults' = faults
  BY DEF EndOfFile, Filing
<1>2. Rooted' /\ Kept
  BY <1>1, SameTree DEF Base
<1>3. faults' \in 0 .. MaxFaults /\ faults' >= faults
  BY <1>1, LimitsAssumption DEF Base, Typed
<1>4. PICK path : path = RemotePath(Mine(w))
  OBVIOUS
<1>. QED BY <1>1, <1>2, <1>3, <1>4, FileStepOK DEF FileStep

(* No step leaves the invariant.                                            *)
LEMMA NextBase == Base /\ [Next]_vars => Base'
<1>. SUFFICES ASSUME Base, [Next]_vars PROVE Base'
  OBVIOUS
<1>1. CASE RefuseSources
  BY <1>1, RefuseBase
<1>2. CASE EnumerateSources
  BY <1>2, EnumerateBase
<1>3. CASE TargetFound
  BY <1>3, FoundBase
<1>4. CASE TargetMissing
  BY <1>4, MissingBase
<1>5. ASSUME NEW w \in Workers, Worker(w) PROVE Base'
  BY <1>5, RecvBase, ExitBase, StatBase, MakeBase, AgainBase, OpenBase, WriteBase, EofBase DEF Worker
<1>6. CASE Finish
  BY <1>6, FinishBase
<1>7. CASE KillAndRerun
  BY <1>7, KillBase
<1>8. CASE Stopped \/ UNCHANGED vars
  BY <1>8, StutterBase DEF Stopped
<1>. QED BY <1>1, <1>2, <1>3, <1>4, <1>5, <1>6, <1>7, <1>8 DEF Next

(* The invariant holds in every state of the system.                        *)
LEMMA SpecBase == Spec => []Base
BY InitBase, NextBase, PTL DEF Spec

(* The state keeps to its types: a worker in ensure_remote_dir_all_generic  *)
(* is at a component of its path, one that writes has its file open and     *)
(* stands within one of its end, and every directory a worker remembers in  *)
(* created_dirs is there.                                                   *)
THEOREM TypeCorrect == Spec => []TypeOK
<1>1. Base => TypeOK
  <2>. SUFFICES ASSUME Base PROVE TypeOK
    OBVIOUS
  <2>1. ASSUME NEW w \in Workers
        PROVE  /\ pc[w] \in {"recv", "stat", "mkdir", "again", "open", "write", "exited"}
               /\ entry[w] \in 0 .. next - 1 /\ attempt[w] \in 0 .. MaxRetries
               /\ tries[w] \in 0 .. MaxAttempts
               /\ pc[w] \in {"stat", "mkdir", "again"} => comp[w] \in 1 .. Len(DirPath(Mine(w)))
               /\ pc[w] = "write" =>
                    IsFile(RemotePath(Mine(w))) /\ pos[w] \in 1 .. Size[Mine(w).data] + 1
               /\ \A d \in created_dirs[w] : IsDir(d)
    BY DEF Base, Typed, WorkerOK, InChain, AtFile, Made, Busy, Chaining, Filing
  <2>. QED BY <2>1 DEF Base, Typed, TypeOK
<1>. QED BY <1>1, SpecBase, PTL

(* An upload that handle_ts or prepare_remote_target refuses has changed    *)
(* nothing on the remote side, in any run.                                  *)
THEOREM RefusalIsClean == Spec => []RefusedLeavesRemote
<1>1. Base => RefusedLeavesRemote
  BY DEF Base, Quiet, Running, RefusedLeavesRemote
<1>. QED BY <1>1, SpecBase, PTL

-----------------------------------------------------------------------------
(* Who fails, and why.                                                       *)

(* What a step of a worker does to the tree, the list and the report.        *)
LEMMA WorkerKeeps ==
  ASSUME Base, NEW w \in Workers, Worker(w)
  PROVE  /\ UNCHANGED mainVars /\ Kept /\ main_pc \in Running
         /\ faults' >= faults /\ next' \in Nat /\ next' >= next
         /\ failed' \subseteq failed \cup {entry[w]}
<1>0. next \in Nat /\ faults \in Nat
  BY LimitsAssumption DEF Base, Typed
<1>1. CASE Recv(w) \/ Exit(w)
  <2>1. remote' = remote /\ UNCHANGED mainVars /\ faults' = faults /\ failed' = failed
        /\ main_pc = "run" /\ next' \in {next, next + 1}
    BY <1>1 DEF Recv, Exit
  <2>2. Kept
    BY <2>1, SameTree DEF Base
  <2>. QED BY <1>0, <2>1, <2>2 DEF Running
<1>2. CASE StatComponent(w) \/ StatAgain(w)
  <2>1. remote' = remote /\ UNCHANGED chainUnchanged /\ pc[w] \in Chaining
    BY <1>2 DEF StatComponent, StatAgain, Chaining
  <2>2. Kept
    BY <2>1, SameTree DEF Base
  <2>3. faults' >= faults
    BY <1>2, FaultCounts DEF StatComponent, StatAgain, Base
  <2>4. failed' \subseteq failed \cup {entry[w]}
    BY <1>2 DEF StatComponent, StatAgain, Passed, ChainFails
  <2>. QED BY <1>0, <2>1, <2>2, <2>3, <2>4, ChainFacts DEF chainUnchanged
<1>3. CASE MakeComponent(w)
  <2>1. UNCHANGED chainUnchanged /\ pc[w] \in Chaining
    BY <1>3 DEF MakeComponent, Chaining
  <2>2. PICK here : here = Component(w)
    OBVIOUS
  <2>3. \/ remote' = remote
        \/ here \notin DOMAIN remote /\ remote' = WithNode(here, Directory)
    BY <1>3, <2>2 DEF MakeComponent, MkdirAllowed
  <2>4. Kept
    BY <2>3, SameTree, MkdirKeeps DEF Base
  <2>5. faults' >= faults
    BY <1>3, FaultCounts DEF MakeComponent, Base
  <2>6. failed' = failed
    BY <1>3 DEF MakeComponent, Passed
  <2>. QED BY <1>0, <2>1, <2>4, <2>5, <2>6, ChainFacts DEF chainUnchanged
<1>4. CASE OpenFile(w) \/ WriteChunk(w) \/ EndOfFile(w)
  <2>1. UNCHANGED fileUnchanged /\ pc[w] \in Filing
    BY <1>4 DEF OpenFile, WriteChunk, EndOfFile, Filing
  <2>2. PICK path : path = RemotePath(Mine(w))
    OBVIOUS
  <2>3. Kept
    <3>1. CASE OpenFile(w)
      <4>1. \/ remote' = remote
            \/ ~IsDir(path) /\ remote' = WithNode(path, [dir |-> FALSE, data |-> <<>>])
        BY <2>2, <3>1 DEF OpenFile
      <4>. QED BY <4>1, SameTree, OpenKeepsTree DEF Base
    <3>2. CASE WriteChunk(w)
      <4>1. \/ remote' = remote
            \/ \E x : remote' = [remote EXCEPT ![path].data = x]
        BY <2>2, <3>2 DEF WriteChunk
      <4>2. IsFile(path)
        BY <2>2, <3>2 DEF WriteChunk, Base, WorkerOK, AtFile
      <4>. QED BY <4>1, <4>2, SameTree, WriteKeeps DEF Base
    <3>3. CASE EndOfFile(w)
      BY <3>3, SameTree DEF EndOfFile, Base
    <3>. QED BY <1>4, <3>1, <3>2, <3>3
  <2>4. faults' >= faults
    BY <1>0, <1>4, FaultCounts DEF OpenFile, WriteChunk, EndOfFile, Base
  <2>5. failed' \subseteq failed \cup {entry[w]}
    BY <1>4 DEF OpenFile, WriteChunk, EndOfFile, FileFails
  <2>. QED BY <1>0, <2>1, <2>3, <2>4, <2>5, FileFacts DEF fileUnchanged
<1>. QED BY <1>1, <1>2, <1>3, <1>4 DEF Worker

(* The tree has no place for an entry.                                       *)
Blocked(e) ==
  \/ \E k \in DOMAIN DirPath(e) : IsFile(SubSeq(DirPath(e), 1, k))
  \/ e.kind = "File" /\ IsDir(RemotePath(e))

(* What blocks an entry stays there.                                         *)
LEMMA BlockedStays ==
  ASSUME UNCHANGED mainVars, Kept, NEW e, Blocked(e)
  PROVE  Blocked(e)'
<1>1. RemotePath(e)' = RemotePath(e) /\ DirPath(e)' = DirPath(e)
  BY SamePaths
<1>2. ASSUME NEW k \in DOMAIN DirPath(e), IsFile(SubSeq(DirPath(e), 1, k))
      PROVE  Blocked(e)'
  <2>1. PICK here : here = SubSeq(DirPath(e), 1, k)
    OBVIOUS
  <2>2. IsFile(here)'
    BY <1>2, <2>1 DEF Kept
  <2>3. SubSeq(DirPath(e), 1, k)' = here
    BY <1>1, <2>1
  <2>4. IsFile(SubSeq(DirPath(e), 1, k))'
    BY <2>2, <2>3 DEF IsFile
  <2>. QED BY <1>1, <2>4 DEF Blocked
<1>3. ASSUME e.kind = "File", IsDir(RemotePath(e))
      PROVE  Blocked(e)'
  <2>1. PICK here : here = RemotePath(e)
    OBVIOUS
  <2>2. IsDir(here)'
    BY <1>3, <2>1 DEF Kept
  <2>3. IsDir(RemotePath(e))'
    BY <1>1, <2>1, <2>2 DEF IsDir
  <2>. QED BY <1>3, <2>3 DEF Blocked
<1>. QED BY <1>2, <1>3 DEF Blocked

(* Without a fault a worker gives up only what the tree has no place for.    *)
LEMMA OnlyBlockedFails ==
  ASSUME Base, NEW w \in Workers, Worker(w), failed' # failed, faults' = 0
  PROVE  Blocked(Mine(w))
<1>0. faults = 0 /\ ~Fault
  <2>1. Typed
    BY DEF Base
  <2>2. faults \in Nat
    BY <2>1, LimitsAssumption DEF Typed
  <2>3. faults' >= faults
    BY WorkerKeeps
  <2>. QED BY <2>1, <2>2, <2>3, FaultCounts
<1>1. ASSUME pc[w] \in Chaining, IsFile(Component(w))
      PROVE  Blocked(Mine(w))
  <2>1. DirPath(Mine(w)) \in Path /\ comp[w] \in 1 .. Len(DirPath(Mine(w)))
    BY <1>1, ChainFacts
  <2>2. comp[w] \in DOMAIN DirPath(Mine(w))
    BY <2>1 DEF Path
  <2>. QED BY <1>1, <2>2 DEF Blocked, Component
<1>2. CASE StatComponent(w)
  <2>1. IsFile(Component(w))
    BY <1>0, <1>2 DEF StatComponent, Passed
  <2>. QED BY <1>1, <1>2, <2>1 DEF StatComponent, Chaining
<1>3. CASE StatAgain(w)
  <2>1. ~IsDir(Component(w))
    BY <1>0, <1>3 DEF StatAgain, Passed
  <2>2. Component(w) \in DOMAIN remote
    BY <1>0, <1>3 DEF StatAgain, Base, WorkerOK, SeenAgain
  <2>. QED BY <1>1, <1>3, <2>1, <2>2 DEF StatAgain, Chaining, IsDir, IsFile
<1>4. CASE OpenFile(w)
  <2>1. PICK path : path = RemotePath(Mine(w))
    OBVIOUS
  <2>2. ~(~IsDir(path) /\ IsDir(Front(path)))
    BY <1>0, <1>4, <2>1 DEF OpenFile
  <2>3. Mine(w).kind = "File" /\ IsDir(DirPath(Mine(w)))
    BY <1>4, FileFacts DEF OpenFile, Filing
  <2>4. DirPath(Mine(w)) = Front(path)
    BY <2>1, <2>3 DEF DirPath
  <2>. QED BY <2>1, <2>2, <2>3, <2>4 DEF Blocked
<1>5. ~Recv(w) /\ ~Exit(w) /\ ~MakeComponent(w) /\ ~WriteChunk(w) /\ ~EndOfFile(w)
  BY <1>0 DEF Recv, Exit, MakeComponent, Passed, WriteChunk, EndOfFile
<1>. QED BY <1>2, <1>3, <1>4, <1>5 DEF Worker

(* Workers that make the same chain of directories at once                   *)
(* (ensure_remote_dir_all_generic) never fail each other: as long as no call *)
(* is refused for a reason of its own, an entry fails only if a file is      *)
(* where it needs a directory, or the other way round.                       *)
THEOREM RacesAreHarmless == Spec => []RacesHarmless
<1>1. Init => RacesHarmless
  BY DEF Init, RacesHarmless
<1>2. RacesHarmless <=> (faults = 0 => \A i \in failed : Blocked(entries[i]))
  BY DEF RacesHarmless, Blocked
<1>3. ASSUME Base, RacesHarmless, [Next]_vars
      PROVE  RacesHarmless'
  <2>1. ASSUME NEW w \in Workers, Worker(w)
        PROVE  RacesHarmless'
    <3>. SUFFICES ASSUME faults' = 0, NEW i \in failed' PROVE Blocked(entries[i])'
      BY DEF RacesHarmless, Blocked
    <3>1. UNCHANGED mainVars /\ Kept /\ faults = 0 /\ failed' \subseteq failed \cup {entry[w]}
      <4>1. UNCHANGED mainVars /\ Kept /\ faults' >= faults /\ failed' \subseteq failed \cup {entry[w]}
        BY <1>3, <2>1, WorkerKeeps
      <4>2. faults \in Nat
        BY <1>3, LimitsAssumption DEF Base, Typed
      <4>. QED BY <4>1, <4>2
    <3>2. PICK e : e = entries[i]
      OBVIOUS
    <3>3. entries[i]' = e
      BY <3>1, <3>2 DEF mainVars
    <3>4. Blocked(e)
      <4>1. CASE i \in failed
        BY <1>2, <1>3, <3>1, <3>2, <4>1
      <4>2. CASE i \notin failed
        <5>1. i = entry[w] /\ failed' # failed
          BY <3>1, <4>2
        <5>2. e = Mine(w)
          BY <3>2, <5>1 DEF Mine
        <5>. QED BY <1>3, <2>1, <5>1, <5>2, OnlyBlockedFails
      <4>. QED BY <4>1, <4>2
    <3>5. Blocked(e)'
      BY <3>1, <3>4, BlockedStays
    <3>. QED BY <3>3, <3>5 DEF Blocked, DirPath, RemotePath, IsDir, IsFile
  <2>2. CASE RefuseSources \/ EnumerateSources \/ TargetFound \/ TargetMissing
    <3>1. failed = {} /\ failed' = failed
      BY <1>3, <2>2 DEF RefuseSources, EnumerateSources, TargetFound, TargetMissing, Base, Quiet, Running
    <3>. QED BY <3>1 DEF RacesHarmless
  <2>3. CASE KillAndRerun
    BY <2>3 DEF KillAndRerun, RacesHarmless
  <2>4. CASE Finish \/ Stopped \/ UNCHANGED vars
    <3>1. UNCHANGED <<faults, failed, entries, remote, request, target_is_dir_final>>
      BY <2>4 DEF Finish, Stopped, vars, mainVars
    <3>2. \A e : /\ DirPath(e)' = DirPath(e) /\ RemotePath(e)' = RemotePath(e)
                 /\ \A q : IsFile(q)' = IsFile(q) /\ IsDir(q)' = IsDir(q)
      BY <3>1 DEF IsDir, IsFile, DirPath, RemotePath
    <3>. QED BY <1>3, <3>1, <3>2 DEF RacesHarmless
  <2>. QED BY <1>3, <2>1, <2>2, <2>3, <2>4 DEF Next
<1>. QED BY <1>1, <1>3, SpecBase, PTL DEF Spec

-----------------------------------------------------------------------------
(* Where the entries go.                                                     *)

(* Past the enumeration, the list is what the request names.                 *)
Meant == main_pc \in {"probe", "run", "done"} => ~Refused /\ \E o : Stands(o)

(* prepare_remote_target has found or made what the workers go by.           *)
TargetIsFile == request.target \in DOMAIN found /\ ~found[request.target].dir
Settled ==
  main_pc \in Running =>
    /\ request.slash => target_is_dir_final
    /\ EntriesFit(target_is_dir_final)
    /\ target_is_dir_final <=> ~TargetIsFile

Decided == Base /\ Meant /\ Settled

(* What the list stands for does not change while the list does not.         *)
LEMMA SameMeaning ==
  ASSUME UNCHANGED <<request, entries>>
  PROVE  /\ Refused' = Refused /\ Claims' = Claims /\ FileClaims' = FileClaims
         /\ \A o : Stands(o) => Stands(o)'
<1>1. Claims' = Claims
  BY DEF Claims
<1>2. Refused' = Refused
  BY DEF Refused
<1>3. \A o : Stands(o) => Stands(o)'
  BY <1>1 DEF Stands, EntryOf
<1>. QED BY <1>1, <1>2, <1>3 DEF FileClaims

(* The workers leave all of it alone.                                        *)
LEMMA SameDecision ==
  ASSUME UNCHANGED mainVars, Meant, Settled
  PROVE  Meant' /\ Settled'
<1>1. UNCHANGED <<request, entries, main_pc, found, target_is_dir_final>>
  BY DEF mainVars
<1>2. Meant'
  BY <1>1, SameMeaning DEF Meant
<1>3. Settled'
  BY <1>1 DEF Settled, TargetIsFile, EntriesFit
<1>. QED BY <1>2, <1>3

(* Every step keeps what was decided.                                        *)
LEMMA NextDecided == Decided /\ [Next]_vars => Decided'
<1>. SUFFICES ASSUME Decided, [Next]_vars PROVE Decided'
  OBVIOUS
<1>1. Base /\ Base' /\ Meant /\ Settled
  BY NextBase DEF Decided
<1>2. CASE RefuseSources \/ KillAndRerun
  BY <1>1, <1>2 DEF Decided, Meant, Settled, Running, RefuseSources, KillAndRerun
<1>3. CASE EnumerateSources
  <2>1. PICK l \in [DOMAIN request.sources -> UNION {Listings(request.sources[i]) :
                                                      i \in DOMAIN request.sources}] :
          /\ \A i \in DOMAIN l : l[i] \in Listings(request.sources[i])
          /\ entries' = FlattenSeq(l)
    BY <1>3 DEF EnumerateSources
  <2>2. DOMAIN l = DOMAIN request.sources /\ l = [i \in DOMAIN l |-> l[i]]
    OBVIOUS
  <2>3. request \in Requests /\ ~Refused /\ request' = request /\ main_pc' = "probe"
    BY <1>1, <1>3 DEF EnumerateSources, Base, Typed
  <2>4. \E o : Stands(o)'
    BY <2>1, <2>2, <2>3, EnumerationIsRight
  <2>5. ~Refused'
    BY <2>3 DEF Refused
  <2>. QED BY <1>1, <2>3, <2>4, <2>5 DEF Decided, Meant, Settled, Running
<1>4. CASE TargetFound
  <2>1. UNCHANGED <<request, entries, found>> /\ main_pc = "probe" /\ remote = found
        /\ main_pc' \in {"run", "refused"}
    BY <1>1, <1>4 DEF TargetFound, Base, Quiet, Running
  <2>2. Meant'
    BY <1>1, <2>1, SameMeaning DEF Meant
  <2>3. Settled'
    <3>. DEFINE is_dir == IsDir(request.target)
    <3>1. is_dir \in BOOLEAN /\ (is_dir <=> ~TargetIsFile)
      BY <1>1, <1>4, <2>1 DEF TargetFound, IsDir, TargetIsFile, Base, Rooted
    <3>2. target_is_dir_final' = is_dir
          /\ (main_pc' = "run" => (request.slash => is_dir) /\ EntriesFit(is_dir))
      BY <1>4 DEF TargetFound
    <3>. HIDE DEF is_dir
    <3>3. EntriesFit(target_is_dir_final)' <=> EntriesFit(target_is_dir_final')
      BY <2>1 DEF EntriesFit
    <3>4. TargetIsFile' <=> TargetIsFile
      BY <2>1 DEF TargetIsFile
    <3>. QED BY <2>1, <3>1, <3>2, <3>3, <3>4 DEF Settled, Running
  <2>. QED BY <1>1, <2>2, <2>3 DEF Decided
<1>5. CASE TargetMissing
  <2>1. PICK fails \in BOOLEAN :
          /\ target_is_dir_final' = TRUE
          /\ main_pc' = IF TargetMade(fails) /\ ~request.slash THEN "run" ELSE "refused"
    BY <1>5 DEF TargetMissing
  <2>2. UNCHANGED <<request, entries, found>> /\ main_pc = "probe" /\ remote = found
    BY <1>1, <1>5 DEF TargetMissing, Base, Quiet, Running
  <2>3. Meant'
    BY <1>1, <2>1, <2>2, SameMeaning DEF Meant
  <2>4. Settled'
    <3>1. main_pc' = "run" => request.target \notin DOMAIN found
      BY <2>1, <2>2 DEF TargetMade, MkdirAllowed
    <3>2. main_pc' # "done"
      BY <2>1
    <3>. QED BY <2>1, <2>2, <3>1, <3>2 DEF Settled, Running, TargetIsFile, EntriesFit
  <2>. QED BY <1>1, <2>3, <2>4 DEF Decided
<1>6. ASSUME NEW w \in Workers, Worker(w) PROVE Decided'
  BY <1>1, <1>6, WorkerKeeps, SameDecision DEF Decided
<1>7. CASE Finish
  <2>1. UNCHANGED <<request, entries, found, target_is_dir_final>> /\ main_pc = "run"
    BY <1>7 DEF Finish
  <2>2. Meant'
    BY <1>1, <2>1, SameMeaning DEF Meant
  <2>3. Settled'
    BY <1>1, <2>1 DEF Settled, TargetIsFile, EntriesFit, Running
  <2>. QED BY <1>1, <2>2, <2>3 DEF Decided
<1>8. CASE Stopped \/ UNCHANGED vars
  BY <1>1, <1>8, SameDecision DEF Decided, Stopped, vars
<1>. QED BY <1>2, <1>3, <1>4, <1>5, <1>6, <1>7, <1>8 DEF Next

(* And it holds in every state.                                              *)
LEMMA SpecDecided == Spec => []Decided
<1>1. Init => Decided
  BY InitBase DEF Init, Decided, Meant, Settled, Running
<1>. QED BY <1>1, NextDecided, PTL DEF Spec

(* An entry goes where the rules send the claim it stands for.               *)
LEMMA GoesToGoal ==
  ASSUME Decided, main_pc \in Running, NEW o, Stands(o), NEW q \in 1 .. Len(entries)
  PROVE  /\ o[q] \in Claims
         /\ entries[q].rel = Rel(o[q])
         /\ RemotePath(entries[q]) = Goal(o[q])
         /\ RemotePath(entries[q]) =
              IF target_is_dir_final THEN request.target \o entries[q].rel ELSE request.target
         /\ entries[q].kind = IF KindAt(o[q][2]) = "dir" THEN "Dir" ELSE "File"
         /\ entries[q].kind = "File" <=> o[q] \in FileClaims
         /\ entries[q].data = Local[o[q][2]].data
<1>. DEFINE i == o[q][1]
            p == o[q][2]
            s == request.sources[i]
<1>1. o[q] \in Claims /\ entries[q] = make_local_entry(s, p)
  BY DEF Stands, EntryOf
<1>2. i \in DOMAIN request.sources /\ p \in DOMAIN Local /\ Named(s, p)
  BY <1>1 DEF Claims
<1>3. SourceOK(s) /\ ~SourceFails(s)
  BY <1>2, RequestTyped DEF Decided, Base, Typed, Meant, Running, Refused
<1>4. p \in Taken(s)
  BY <1>2, <1>3, TakenIsNamed
<1>. HIDE DEF s, p
<1>5. /\ entries[q].rel = SubSeq(p, Len(RootOf(s)) + 1, Len(p))
      /\ entries[q].kind = (IF KindAt(p) = "dir" THEN "Dir" ELSE "File")
      /\ entries[q].data = Local[p].data
  BY <1>1, <1>3, <1>4, EntryShape
<1>6. entries[q].rel = Rel(o[q])
  BY <1>5 DEF Rel, s, p
<1>7. RemotePath(entries[q]) =
        IF target_is_dir_final THEN request.target \o entries[q].rel ELSE request.target
  BY DEF RemotePath, Decided, Settled
<1>8. RemotePath(entries[q]) = Goal(o[q])
  BY <1>6, <1>7 DEF Decided, Settled, TargetIsFile, Goal
<1>9. entries[q].kind = "File" <=> o[q] \in FileClaims
  BY <1>1, <1>5 DEF FileClaims, p
<1>. QED BY <1>1, <1>5, <1>6, <1>7, <1>8, <1>9 DEF p

(* What a step of a worker does to the tree: it makes the component it is at *)
(* or touches the file it is at, and nothing else.                           *)
LEMMA WorkerTouches ==
  ASSUME Base, NEW w \in Workers, Worker(w),
         NEW here, here = Component(w), NEW path, path = RemotePath(Mine(w))
  PROVE  /\ \A p \in DOMAIN remote :
              remote'[p] = remote[p] \/ (pc[w] \in Filing /\ p = path)
         /\ \A p \in DOMAIN remote' \ DOMAIN remote :
              \/ pc[w] = "mkdir" /\ p = here
              \/ pc[w] \in Filing /\ p = path
<1>1. CASE remote' = remote
  BY <1>1
<1>2. CASE MakeComponent(w) /\ remote' # remote
  <2>1. pc[w] = "mkdir" /\ here \notin DOMAIN remote /\ remote' = WithNode(here, Directory)
    BY <1>2 DEF MakeComponent, MkdirAllowed
  <2>. QED BY <2>1 DEF WithNode
<1>3. CASE OpenFile(w) /\ remote' # remote
  <2>1. pc[w] \in Filing /\ remote' = WithNode(path, [dir |-> FALSE, data |-> <<>>])
    BY <1>3 DEF OpenFile, Filing
  <2>. QED BY <2>1 DEF WithNode
<1>4. CASE WriteChunk(w) /\ remote' # remote
  <2>1. pc[w] \in Filing /\ \E x : remote' = [remote EXCEPT ![path].data = x]
    BY <1>4 DEF WriteChunk, Filing
  <2>2. IsFile(path)
    BY <1>4 DEF WriteChunk, Base, WorkerOK, AtFile
  <2>. QED BY <2>1, <2>2, WriteKeeps DEF Base
<1>5. remote' # remote => MakeComponent(w) \/ OpenFile(w) \/ WriteChunk(w)
  BY DEF Worker, Recv, Exit, StatComponent, StatAgain, EndOfFile
<1>. QED BY <1>1, <1>2, <1>3, <1>4, <1>5

(* What lies on the way to a path is a prefix of it.                         *)
LEMMA OnTheWay ==
  ASSUME NEW D \in Path, NEW R \in Path, D = R \/ D = Front(R), NEW c \in 1 .. Len(D)
  PROVE  IsPrefix(SubSeq(D, 1, c), R)
<1>. DEFINE n == Len(R)
            m == Len(D)
            x == SubSeq(D, 1, c)
<1>1. n \in Nat /\ m \in Nat
  BY DEF Path
<1>2. m =< n /\ D = SubSeq(R, 1, m)
  <2>1. CASE D = R
    BY <1>1, <2>1, PathPrefixes
  <2>2. CASE D = Front(R) /\ n # 0
    <3>1. D = SubSeq(R, 1, n - 1)
      BY <2>2 DEF Front
    <3>2. m = n - 1
      BY <2>2, <3>1, FrontLength
    <3>. QED BY <1>1, <3>1, <3>2
  <2>3. CASE D = Front(R) /\ n = 0
    <3>1. D = <<>>
      <4>1. R = <<>>
        BY <2>3, EmptySeq DEF Path
      <4>2. D = SubSeq(R, 1, 0 - 1)
        BY <2>3 DEF Front
      <4>. QED BY <4>2, SubSeqEmpty
    <3>2. m = 0
      BY <3>1
    <3>. QED BY <1>1, <3>2
  <2>. QED BY <2>1, <2>2, <2>3
<1>3. c \in 0 .. m /\ c =< n /\ c \in Nat
  BY <1>1, <1>2
<1>4. Len(x) = c /\ x = SubSeq(R, 1, c)
  <2>1. Len(x) = c
    BY <1>3, PathPrefixes
  <2>2. x = SubSeq(R, 1, c)
    <3>1. x = SubSeq(SubSeq(R, 1, m), 1, c)
      BY <1>2
    <3>2. R \in Seq(Names) /\ 1 \in 1 .. Len(R) + 1 /\ m \in 0 .. n /\ c \in 0 .. m
      BY <1>1, <1>2, <1>3 DEF Path
    <3>. HIDE DEF x, m, n
    <3>. QED BY <3>1, <3>2, SubSeqOfSubSeq DEF n
  <2>. QED BY <2>1, <2>2
<1>5. SubSeq(x, 1, Len(x)) = x
  <2>1. x \in Path
    BY <1>3, PathPrefixes
  <2>. QED BY <2>1, SubSeqFull DEF Path
<1>6. IsPrefix(x, R)
  <2>. HIDE DEF x
  <2>. QED BY <1>3, <1>4, <1>5 DEF IsPrefix
<1>. QED BY <1>6

(* An upload changes the files its sources are to be written to and nothing  *)
(* else: whatever else was on the remote side stays, and all that            *)
(* sftp_mkdir_p and the workers make is a directory on the way to a          *)
(* destination, or a destination.                                            *)
THEOREM NothingElseTouched == Spec => []OthersUntouched
<1>1. ASSUME remote = found PROVE OthersUntouched
  BY <1>1 DEF OthersUntouched
<1>2. Init => OthersUntouched
  BY <1>1 DEF Init
<1>3. ASSUME Decided, OthersUntouched, [Next]_vars
      PROVE  OthersUntouched'
  <2>0. Base /\ Base'
    BY <1>3, NextBase DEF Decided
  <2>1. ASSUME NEW w \in Workers, Worker(w)
        PROVE  OthersUntouched'
    <3>. DEFINE e == Mine(w)
    <3>1. UNCHANGED mainVars /\ Kept /\ main_pc \in Running
      BY <2>0, <2>1, WorkerKeeps
    <3>2. UNCHANGED <<request, found, entries>>
      BY <3>1 DEF mainVars
    <3>3. FileClaims' = FileClaims /\ Claims' = Claims /\ \A c : Goal(c)' = Goal(c)
      <4>1. FileClaims' = FileClaims /\ Claims' = Claims
        BY <3>2, SameMeaning
      <4>2. \A c : Goal(c)' = Goal(c)
        BY <3>2 DEF Goal, Rel
      <4>. QED BY <4>1, <4>2
    <3>4. PICK o : Stands(o)
      BY <1>3, <3>1 DEF Decided, Meant, Running
    <3>5. PICK path, here : path = RemotePath(Mine(w)) /\ here = Component(w)
      OBVIOUS
    <3>6. ASSUME pc[w] \in Filing
          PROVE  \E c \in FileClaims : Goal(c) = path
      <4>1. e.kind = "File" /\ entry[w] \in 1 .. next - 1
        BY <2>0, <3>6, FileFacts
      <4>2. entry[w] \in 1 .. Len(entries)
        <5>1. entry[w] \in 1 .. next - 1 /\ next \in 1 .. Len(entries) + 1 /\ Len(entries) \in Nat
          BY <2>0, <4>1 DEF Base, Typed
        <5>. QED BY <5>1
      <4>3. o[entry[w]] \in FileClaims /\ Goal(o[entry[w]]) = path
        BY <1>3, <3>1, <3>4, <3>5, <4>1, <4>2, GoesToGoal DEF Mine
      <4>. QED BY <4>3
    <3>7. ASSUME pc[w] = "mkdir"
          PROVE  \E c \in Claims : IsPrefix(here, Goal(c))
      <4>1. /\ DirPath(e) \in Path /\ comp[w] \in 1 .. Len(DirPath(e))
            /\ entry[w] \in 1 .. next - 1 /\ GoodEntry(e)
        BY <2>0, <3>7, ChainFacts DEF Chaining
      <4>2. entry[w] \in 1 .. Len(entries)
        <5>1. entry[w] \in 1 .. next - 1 /\ next \in 1 .. Len(entries) + 1 /\ Len(entries) \in Nat
          BY <2>0, <4>1 DEF Base, Typed
        <5>. QED BY <5>1
      <4>3. o[entry[w]] \in Claims /\ Goal(o[entry[w]]) = path
        BY <1>3, <3>1, <3>4, <3>5, <4>2, GoesToGoal DEF Mine
      <4>4. path \in Path
        BY <2>0, <3>5, <4>1, RequestTyped, PathTypes DEF Base, Typed
      <4>5. DirPath(e) = path \/ DirPath(e) = Front(path)
        BY <3>5 DEF DirPath
      <4>6. here = SubSeq(DirPath(e), 1, comp[w])
        BY <3>5 DEF Component
      <4>7. IsPrefix(here, path)
        <5>. HIDE DEF e
        <5>. QED BY <4>1, <4>4, <4>5, <4>6, OnTheWay
      <4>. QED BY <4>3, <4>7
    <3>8. ASSUME pc[w] \in Filing
          PROVE  \E c \in Claims : IsPrefix(path, Goal(c))
      <4>1. PICK c \in FileClaims : Goal(c) = path
        BY <3>6, <3>8
      <4>2. path \in Path
        <5>1. GoodEntry(e)
          BY <2>0, <3>8, FileFacts
        <5>. QED BY <2>0, <3>5, <5>1, RequestTyped, PathTypes DEF Base, Typed
      <4>3. IsPrefix(path, path)
        BY <4>2 DEF IsPrefix, Path
      <4>4. c \in Claims
        BY DEF FileClaims
      <4>. QED BY <4>1, <4>3, <4>4
    <3>9. /\ \A p \in DOMAIN remote :
               remote'[p] = remote[p] \/ (pc[w] \in Filing /\ p = path)
          /\ \A p \in DOMAIN remote' \ DOMAIN remote :
               \/ pc[w] = "mkdir" /\ p = here
               \/ pc[w] \in Filing /\ p = path
      BY <2>0, <2>1, <3>5, WorkerTouches
    <3>10. ASSUME NEW p \in DOMAIN found
           PROVE  /\ p \in DOMAIN remote' /\ remote'[p].dir = found[p].dir
                  /\ remote'[p] = found[p] \/ \E c \in FileClaims : Goal(c) = p
      <4>1. /\ p \in DOMAIN remote /\ remote[p].dir = found[p].dir
            /\ remote[p] = found[p] \/ \E c \in FileClaims : Goal(c) = p
        BY <1>3 DEF OthersUntouched
      <4>2. p \in DOMAIN remote' /\ (IsDir(p) => IsDir(p)') /\ (IsFile(p) => IsFile(p)')
        BY <3>1, <4>1 DEF Kept
      <4>3. remote'[p].dir = remote[p].dir
        <5>1. remote[p].dir \in BOOLEAN /\ remote'[p].dir \in BOOLEAN
          BY <2>0, <4>1, <4>2 DEF Base, Rooted
        <5>. QED BY <4>1, <4>2, <5>1 DEF IsDir, IsFile
      <4>. QED BY <3>6, <3>9, <4>1, <4>2, <4>3
    <3>11. ASSUME NEW p \in DOMAIN remote' \ DOMAIN found
           PROVE  p = request.target \/ \E c \in Claims : IsPrefix(p, Goal(c))
      <4>1. CASE p \in DOMAIN remote
        BY <1>3, <4>1 DEF OthersUntouched
      <4>2. CASE p \notin DOMAIN remote
        BY <3>7, <3>8, <3>9, <4>2
      <4>. QED BY <4>1, <4>2
    <3>. QED BY <3>2, <3>3, <3>10, <3>11 DEF OthersUntouched
  <2>2. CASE TargetMissing
    <3>1. remote = found /\ UNCHANGED <<request, found>>
      BY <2>0, <2>2 DEF TargetMissing, Base, Quiet, Running
    <3>2. CASE remote' = remote
      BY <3>1, <3>2 DEF OthersUntouched
    <3>3. CASE remote' # remote
      <4>1. request.target \notin DOMAIN remote /\ remote' = WithNode(request.target, Directory)
        BY <2>2, <3>3 DEF TargetMissing, TargetMade, MkdirAllowed
      <4>2. /\ DOMAIN remote' = DOMAIN found \cup {request.target}
            /\ \A p \in DOMAIN found : remote'[p] = found[p]
        BY <3>1, <4>1 DEF WithNode
      <4>. QED BY <3>1, <4>2 DEF OthersUntouched
    <3>. QED BY <3>2, <3>3
  <2>3. CASE RefuseSources \/ EnumerateSources \/ TargetFound \/ KillAndRerun
    <3>1. remote' = found'
      BY <2>0, <2>3 DEF RefuseSources, EnumerateSources, TargetFound, KillAndRerun, Base, Quiet, Running
    <3>. QED BY <3>1 DEF OthersUntouched
  <2>4. CASE Finish \/ Stopped \/ UNCHANGED vars
    <3>1. UNCHANGED <<request, found, remote>>
      BY <2>4 DEF Finish, Stopped, vars, mainVars
    <3>2. FileClaims' = FileClaims /\ Claims' = Claims /\ \A c : Goal(c)' = Goal(c)
      BY <3>1 DEF FileClaims, Claims, Goal, Rel
    <3>. QED BY <1>3, <3>1, <3>2 DEF OthersUntouched
  <2>. QED BY <1>3, <2>1, <2>2, <2>3, <2>4 DEF Next
<1>. QED BY <1>2, <1>3, SpecDecided, PTL DEF Spec

-----------------------------------------------------------------------------
(* What arrives.                                                             *)

(* No other entry goes where this one goes.                                  *)
Sole(q) ==
  \A r \in 1 .. Len(entries) : r # q => RemotePath(entries[r]) # RemotePath(entries[q])

Chunks(e, n) == [k \in 1 .. n |-> e.data]
Arrived(e) ==
  IF e.kind = "Dir" THEN IsDir(RemotePath(e))
  ELSE IsFile(RemotePath(e)) /\ remote[RemotePath(e)].data = Chunks(e, Size[e.data])

(* An entry handed out has arrived, is in the report, or is still in a hand; *)
(* a file being written holds what has been written of it; and nobody leaves *)
(* before the list is used up.                                               *)
Handled ==
  \A q \in 1 .. next - 1 : Sole(q) =>
    \/ q \in failed \/ Arrived(entries[q])
    \/ \E w \in Workers : pc[w] \in Busy /\ entry[w] = q
Growing ==
  \A w \in Workers : pc[w] = "write" /\ Sole(entry[w]) =>
    remote[RemotePath(Mine(w))].data = Chunks(Mine(w), pos[w] - 1)
Leaving ==
  /\ main_pc = "done" => \A w \in Workers : pc[w] = "exited"
  /\ \A w \in Workers : pc[w] = "exited" => next > Len(entries)

(* What a step of one worker leaves to the others.                           *)
LEMMA WorkerAlone ==
  ASSUME Base, NEW w \in Workers, Worker(w)
  PROVE  /\ failed \subseteq failed'
         /\ \A v \in Workers \ {w} :
              pc'[v] = pc[v] /\ entry'[v] = entry[v] /\ pos'[v] = pos[v]
         /\ pc[w] \in Busy => UNCHANGED <<entry, next>>
<1>1. CASE Recv(w) \/ Exit(w)
  <2>1. pc[w] = "recv" /\ failed' = failed
    BY <1>1 DEF Recv, Exit
  <2>2. \A v \in Workers \ {w} : pc'[v] = pc[v] /\ entry'[v] = entry[v] /\ pos'[v] = pos[v]
    BY <1>1 DEF Recv, Exit, workVars, Base, Typed
  <2>. QED BY <2>1, <2>2 DEF Busy, Chaining, Filing
<1>2. CASE StatComponent(w) \/ MakeComponent(w) \/ StatAgain(w)
  <2>1. UNCHANGED <<entry, next, pos>>
    BY <1>2 DEF StatComponent, MakeComponent, StatAgain, chainUnchanged
  <2>2. failed \subseteq failed' /\ \A v \in Workers \ {w} : pc'[v] = pc[v]
    <3>1. Passed(w) \/ ChainFails(w) \/ (failed' = failed /\ \E p : pc' = [pc EXCEPT ![w] = p])
      BY <1>2 DEF StatComponent, MakeComponent, StatAgain
    <3>2. failed \subseteq failed' /\ \E p : pc' = [pc EXCEPT ![w] = p]
      BY <3>1 DEF Passed, ChainFails
    <3>. QED BY <3>2 DEF Base, Typed
  <2>. QED BY <2>1, <2>2
<1>3. CASE OpenFile(w) \/ WriteChunk(w) \/ EndOfFile(w)
  <2>1. UNCHANGED <<entry, next>>
    BY <1>3 DEF OpenFile, WriteChunk, EndOfFile, fileUnchanged
  <2>2. failed \subseteq failed' /\ \A v \in Workers \ {w} : pc'[v] = pc[v]
    <3>1. FileFails(w) \/ (failed' = failed /\ (pc' = pc \/ \E p : pc' = [pc EXCEPT ![w] = p]))
      BY <1>3 DEF OpenFile, WriteChunk, EndOfFile
    <3>2. failed \subseteq failed' /\ (pc' = pc \/ \E p : pc' = [pc EXCEPT ![w] = p])
      BY <3>1 DEF FileFails
    <3>. QED BY <3>2 DEF Base, Typed
  <2>3. \A v \in Workers \ {w} : pos'[v] = pos[v]
    BY <1>3 DEF OpenFile, WriteChunk, EndOfFile, Base, Typed
  <2>. QED BY <2>1, <2>2, <2>3
<1>. QED BY <1>1, <1>2, <1>3 DEF Worker

(* Who else goes where it goes does not change while the list does not.      *)
LEMMA SameSole ==
  ASSUME UNCHANGED mainVars
  PROVE  /\ \A q : entries'[q] = entries[q] /\ (Sole(q)' <=> Sole(q))
         /\ \A e : RemotePath(e)' = RemotePath(e)
<1>1. entries' = entries /\ \A e : RemotePath(e)' = RemotePath(e)
  BY SamePaths DEF mainVars
<1>2. \A e : RemotePath(e)' = RemotePath(e)
  BY <1>1
<1>3. ASSUME NEW q PROVE Sole(q)' <=> Sole(q)
  <2>1. \A r : RemotePath(entries[r])' = RemotePath(entries[r])
    BY <1>1 DEF RemotePath, mainVars
  <2>. QED BY <1>1, <2>1 DEF Sole
<1>. QED BY <1>1, <1>2, <1>3

(* What has arrived stays, unless its own file is being written once more.   *)
LEMMA ArrivedStays ==
  ASSUME Base, NEW w \in Workers, Worker(w), NEW q \in 1 .. Len(entries), Sole(q),
         Arrived(entries[q]), pc[w] \in Filing => entry[w] # q
  PROVE  Arrived(entries[q])'
<1>1. UNCHANGED mainVars /\ Kept
  BY WorkerKeeps
<1>2. PICK e, p, here, path :
        e = entries[q] /\ p = RemotePath(e) /\ here = Component(w) /\ path = RemotePath(Mine(w))
  OBVIOUS
<1>3. entries'[q] = e /\ RemotePath(e)' = p
  BY <1>1, <1>2, SameSole
<1>4. CASE e.kind = "Dir"
  <2>1. IsDir(p)'
    BY <1>1, <1>2, <1>4 DEF Arrived, Kept
  <2>2. RemotePath(entries[q])' = p
    BY <1>1, <1>2, <1>3 DEF RemotePath, mainVars
  <2>3. IsDir(RemotePath(entries[q]))'
    BY <2>1, <2>2 DEF IsDir
  <2>. QED BY <1>3, <1>4, <2>3 DEF Arrived
<1>5. CASE e.kind # "Dir"
  <2>1. IsFile(p) /\ remote[p].data = Chunks(e, Size[e.data])
    BY <1>2, <1>5 DEF Arrived
  <2>2. IsFile(p)'
    BY <1>1, <2>1 DEF Kept
  <2>3. ~(pc[w] \in Filing /\ p = path)
    <3>. SUFFICES ASSUME pc[w] \in Filing PROVE p # path
      OBVIOUS
    <3>1. entry[w] \in 1 .. next - 1
      BY FileFacts
    <3>2. next \in 1 .. Len(entries) + 1 /\ Len(entries) \in Nat
      BY DEF Base, Typed
    <3>3. entry[w] \in 1 .. Len(entries)
      BY <3>1, <3>2
    <3>. QED BY <1>2, <3>3 DEF Sole, Mine
  <2>4. remote'[p] = remote[p]
    BY <1>2, <2>1, <2>3, WorkerTouches DEF IsFile
  <2>5. RemotePath(entries[q])' = p
    BY <1>1, <1>2, <1>3 DEF RemotePath, mainVars
  <2>6. IsFile(RemotePath(entries[q]))'
    BY <2>2, <2>5 DEF IsFile
  <2>7. (remote[RemotePath(entries[q])].data)' = Chunks(e, Size[e.data])
    BY <2>1, <2>4, <2>5
  <2>. QED BY <1>3, <1>5, <2>6, <2>7 DEF Arrived, Chunks
<1>. QED BY <1>4, <1>5

(* The last component passed is the directory itself.                        *)
LEMMA PassedLeads ==
  ASSUME Base, NEW w \in Workers, pc[w] \in Chaining, Passed(w), UNCHANGED mainVars,
         entry' = entry, NEW here, here = Component(w), IsDir(here)'
  PROVE  pc'[w] \in Busy \/ Arrived(Mine(w))'
<1>1. comp[w] \in 1 .. Len(DirPath(Mine(w))) /\ Len(DirPath(Mine(w))) \in Nat
      /\ (comp[w] = Len(DirPath(Mine(w))) => here = DirPath(Mine(w)))
  BY ChainFacts
<1>2. CASE comp[w] < Len(DirPath(Mine(w)))
  BY <1>2 DEF Passed, Base, Typed, Busy, Chaining
<1>3. CASE ~(comp[w] < Len(DirPath(Mine(w)))) /\ Mine(w).kind # "Dir"
  <2>1. pc' = [pc EXCEPT ![w] = "open"]
    BY <1>3 DEF Passed
  <2>. QED BY <2>1 DEF Base, Typed, Busy, Filing
<1>4. CASE ~(comp[w] < Len(DirPath(Mine(w)))) /\ Mine(w).kind = "Dir"
  <2>1. here = RemotePath(Mine(w))
    BY <1>1, <1>4 DEF DirPath
  <2>2. Mine(w)' = Mine(w) /\ RemotePath(Mine(w))' = here
    BY <2>1, SamePaths
  <2>3. IsDir(RemotePath(Mine(w)))'
    BY <2>2 DEF IsDir
  <2>. QED BY <1>4, <2>2, <2>3 DEF Arrived
<1>. QED BY <1>2, <1>3, <1>4

(* What a worker holds it keeps, reports or has delivered.                   *)
LEMMA HeldLeft ==
  ASSUME Base, Growing, NEW w \in Workers, Worker(w), pc[w] \in Busy, Sole(entry[w])
  PROVE  pc'[w] \in Busy \/ entry[w] \in failed' \/ Arrived(Mine(w))'
<1>0. UNCHANGED mainVars /\ UNCHANGED entry
  BY WorkerKeeps, WorkerAlone
<1>1. PICK here, path : here = Component(w) /\ path = RemotePath(Mine(w))
  OBVIOUS
<1>2. ASSUME ChainFails(w) PROVE pc'[w] \in Busy \/ entry[w] \in failed'
  BY <1>2 DEF ChainFails, Base, Typed, Busy, Chaining
<1>3. ASSUME FileFails(w), pc[w] \in Filing PROVE pc'[w] \in Busy \/ entry[w] \in failed'
  <2>1. FirstStep(w, entry[w]) = "open"
    BY <1>3, FileFacts
  <2>. QED BY <1>3, <2>1 DEF FileFails, Base, Typed, Busy, Filing
<1>4. CASE StatComponent(w) \/ StatAgain(w)
  <2>1. pc[w] \in Chaining /\ remote' = remote
    BY <1>4 DEF StatComponent, StatAgain, Chaining
  <2>2. CASE ChainFails(w)
    BY <1>2, <2>2
  <2>3. CASE IsDir(Component(w)) /\ Passed(w)
    <3>1. IsDir(here)'
      BY <1>1, <2>1, <2>3 DEF IsDir
    <3>. QED BY <1>0, <1>1, <2>1, <2>3, <3>1, PassedLeads
  <2>4. CASE pc' = [pc EXCEPT ![w] = "mkdir"]
    BY <2>4 DEF Base, Typed, Busy, Chaining
  <2>. QED BY <1>4, <2>2, <2>3, <2>4 DEF StatComponent, StatAgain
<1>5. CASE MakeComponent(w)
  <2>1. pc[w] \in Chaining
    BY <1>5 DEF MakeComponent, Chaining
  <2>2. CASE MkdirAllowed(Component(w)) /\ remote' = WithNode(Component(w), Directory) /\ Passed(w)
    <3>1. IsDir(here)'
      <4>1. here \notin DOMAIN remote /\ remote' = WithNode(here, Directory)
        BY <1>1, <2>2 DEF MkdirAllowed
      <4>. QED BY <4>1, MkdirKeeps DEF Base
    <3>. QED BY <1>0, <1>1, <2>1, <2>2, <3>1, PassedLeads
  <2>3. CASE pc' = [pc EXCEPT ![w] = "again"]
    BY <2>3 DEF Base, Typed, Busy, Chaining
  <2>. QED BY <1>5, <2>2, <2>3 DEF MakeComponent
<1>6. CASE OpenFile(w)
  <2>1. FileFails(w) \/ pc' = [pc EXCEPT ![w] = "write"]
    BY <1>6 DEF OpenFile
  <2>2. pc[w] \in Filing
    BY <1>6 DEF OpenFile, Filing
  <2>3. CASE pc' = [pc EXCEPT ![w] = "write"]
    BY <2>3 DEF Base, Typed, Busy, Filing
  <2>. QED BY <1>3, <2>1, <2>2, <2>3
<1>7. CASE WriteChunk(w)
  <2>1. FileFails(w) \/ pc' = pc
    BY <1>7 DEF WriteChunk
  <2>2. pc[w] \in Filing
    BY <1>7 DEF WriteChunk, Filing
  <2>. QED BY <1>3, <2>1, <2>2
<1>8. CASE EndOfFile(w)
  <2>1. pc[w] = "write" /\ pos[w] > Size[Mine(w).data] /\ remote' = remote
    BY <1>8 DEF EndOfFile
  <2>2. Mine(w).kind = "File" /\ Size[Mine(w).data] \in Nat
    BY <2>1, FileFacts DEF Filing
  <2>3. IsFile(path) /\ pos[w] \in 1 .. Size[Mine(w).data] + 1
    BY <1>1, <2>1 DEF Base, WorkerOK, AtFile
  <2>4. pos[w] - 1 = Size[Mine(w).data]
    BY <2>1, <2>2, <2>3
  <2>5. remote[path].data = Chunks(Mine(w), Size[Mine(w).data])
    BY <1>1, <2>1, <2>4 DEF Growing
  <2>6. Mine(w)' = Mine(w) /\ RemotePath(Mine(w))' = path
    BY <1>0, <1>1, SamePaths
  <2>7. IsFile(RemotePath(Mine(w)))'
    BY <2>1, <2>3, <2>6 DEF IsFile
  <2>8. (remote[RemotePath(Mine(w))].data)' = Chunks(Mine(w), Size[Mine(w).data])
    BY <2>1, <2>5, <2>6
  <2>. QED BY <2>2, <2>6, <2>7, <2>8 DEF Arrived, Chunks
<1>9. ~Recv(w) /\ ~Exit(w)
  BY DEF Recv, Exit, Busy, Chaining, Filing
<1>. QED BY <1>4, <1>5, <1>6, <1>7, <1>8, <1>9 DEF Worker

(* What a worker takes it holds, or finds in place.                          *)
LEMMA RecvLeads ==
  ASSUME Base, NEW w \in Workers, Recv(w), NEW n, n = next
  PROVE  /\ entry'[w] = n /\ next' = n + 1 /\ n \in 1 .. Len(entries)
         /\ pc'[w] \in Busy \/ Arrived(entries[n])'
<1>1. /\ n \in 1 .. Len(entries) /\ next' = n + 1 /\ entry'[w] = n
      /\ pc'[w] = FirstStep(w, n) /\ UNCHANGED mainVars /\ remote' = remote
  BY DEF Recv, Base, Typed
<1>2. PICK e, p : e = entries[n] /\ p = RemotePath(e)
  OBVIOUS
<1>3. CASE FirstStep(w, n) \in {"stat", "open"}
  BY <1>1, <1>3 DEF Busy, Chaining, Filing
<1>4. CASE FirstStep(w, n) \notin {"stat", "open"}
  <2>1. e.kind = "Dir" /\ DirPath(e) \in created_dirs[w] \cup {<<>>}
    BY <1>2, <1>4 DEF FirstStep
  <2>2. IsDir(p)
    BY <1>2, <2>1 DEF DirPath, Base, WorkerOK, Made, Rooted
  <2>3. entries'[n] = e /\ RemotePath(e)' = p
    BY <1>1, <1>2, SameSole
  <2>4. Arrived(e)'
    BY <1>1, <2>1, <2>2, <2>3 DEF Arrived, IsDir
  <2>5. entries[n]' = e
    BY <2>3
  <2>6. Arrived(entries[n])' <=> Arrived(e)'
    BY <2>5 DEF Arrived, RemotePath, IsDir, IsFile, Chunks
  <2>. QED BY <1>1, <2>4, <2>6
<1>. QED BY <1>1, <1>3, <1>4

(* A step of a worker keeps account of what was handed out.                  *)
LEMMA HandledStays ==
  ASSUME Base, Handled, Growing, NEW w \in Workers, Worker(w)
  PROVE  Handled'
<1>0. UNCHANGED mainVars /\ entries' = entries /\ failed \subseteq failed'
      /\ \A v \in Workers \ {w} : pc'[v] = pc[v] /\ entry'[v] = entry[v]
  BY WorkerKeeps, WorkerAlone DEF mainVars
<1>1. ASSUME NEW q \in 1 .. next - 1, Sole(q)
      PROVE  \/ q \in failed' \/ Arrived(entries[q])'
             \/ \E v \in Workers : pc'[v] \in Busy /\ entry'[v] = q
  <2>0. q \in 1 .. Len(entries)
    <3>1. next \in 1 .. Len(entries) + 1 /\ Len(entries) \in Nat
      BY DEF Base, Typed
    <3>. QED BY <3>1
  <2>1. CASE q \in failed
    BY <1>0, <2>1
  <2>2. CASE pc[w] \in Busy /\ entry[w] = q
    <3>1. pc'[w] \in Busy \/ entry[w] \in failed' \/ Arrived(Mine(w))'
      BY <1>1, <2>2, HeldLeft
    <3>2. entry'[w] = q
      BY <2>2, WorkerAlone
    <3>3. Arrived(Mine(w))' <=> Arrived(entries[q])'
      BY <3>2 DEF Arrived, Mine
    <3>. QED BY <2>2, <3>1, <3>2, <3>3
  <2>3. ASSUME NEW v \in Workers, pc[v] \in Busy, entry[v] = q, v # w
        PROVE  pc'[v] \in Busy /\ entry'[v] = q
    BY <1>0, <2>3
  <2>4. CASE Arrived(entries[q]) /\ ~(pc[w] \in Busy /\ entry[w] = q)
    <3>1. pc[w] \in Filing => entry[w] # q
      BY <2>4 DEF Busy
    <3>. QED BY <1>1, <2>0, <2>4, <3>1, ArrivedStays
  <2>. QED BY <1>1, <2>1, <2>2, <2>3, <2>4 DEF Handled
<1>2. CASE Recv(w)
  <2>0. PICK n : n = next
    OBVIOUS
  <2>1. /\ entry'[w] = n /\ next' = n + 1 /\ n \in Nat
        /\ pc'[w] \in Busy \/ Arrived(entries[n])'
    <3>1. next \in Nat
      BY DEF Base, Typed
    <3>. QED BY <1>2, <2>0, <3>1, RecvLeads
  <2>2. ASSUME NEW q \in 1 .. next' - 1, Sole(q)'
        PROVE  \/ q \in failed' \/ Arrived(entries[q])'
               \/ \E v \in Workers : pc'[v] \in Busy /\ entry'[v] = q
    <3>1. CASE q = n
      BY <2>1, <3>1
    <3>2. CASE q # n
      <4>1. q \in 1 .. next - 1
        BY <2>0, <2>1, <2>2, <3>2
      <4>2. Sole(q)
        BY <1>0, <2>2, SameSole
      <4>. QED BY <1>1, <4>1, <4>2
    <3>. QED BY <3>1, <3>2
  <2>. QED BY <1>0, <2>2 DEF Handled
<1>3. CASE ~Recv(w)
  <2>1. next' = next
    <3>1. CASE Exit(w)
      BY <3>1 DEF Exit
    <3>2. CASE ~Exit(w)
      <4>1. pc[w] \in Busy
        BY <1>3, <3>2 DEF Worker, StatComponent, MakeComponent, StatAgain, OpenFile, WriteChunk,
                          EndOfFile, Busy, Chaining, Filing
      <4>. QED BY <4>1, WorkerAlone
    <3>. QED BY <3>1, <3>2
  <2>2. ASSUME NEW q \in 1 .. next' - 1, Sole(q)'
        PROVE  \/ q \in failed' \/ Arrived(entries[q])'
               \/ \E v \in Workers : pc'[v] \in Busy /\ entry'[v] = q
    BY <1>0, <1>1, <2>1, <2>2, SameSole
  <2>. QED BY <1>0, <2>2 DEF Handled
<1>. QED BY <1>2, <1>3

(* The content of a file that is opened, and of one that grows.              *)
LEMMA ChunksGrow ==
  ASSUME NEW e, NEW n \in Nat
  PROVE  /\ Chunks(e, 0) = <<>>
         /\ \A data, i : i = n + 1 /\ data = Chunks(e, n) => Written(data, i, e.data) = Chunks(e, i)
<1>1. Chunks(e, 0) = <<>>
  BY DEF Chunks
<1>2. ASSUME NEW data, NEW i, i = n + 1, data = Chunks(e, n)
      PROVE  Written(data, i, e.data) = Chunks(e, i)
  <2>1. data = [k \in 1 .. n |-> e.data]
    BY <1>2 DEF Chunks
  <2>2. Len(data) = n
    BY <2>1
  <2>3. Written(data, i, e.data) =
          [k \in 1 .. i |-> IF k = i THEN e.data ELSE IF k =< n THEN data[k] ELSE "hole"]
    BY <1>2, <2>2 DEF Written
  <2>4. \A k \in 1 .. i :
          (IF k = i THEN e.data ELSE IF k =< n THEN data[k] ELSE "hole") = e.data
    BY <1>2, <2>1
  <2>. QED BY <2>3, <2>4 DEF Chunks
<1>. QED BY <1>1, <1>2

(* Files that are being written grow chunk by chunk.                         *)
LEMMA GrowingStays ==
  ASSUME Base, Growing, NEW w \in Workers, Worker(w)
  PROVE  Growing'
<1>0. UNCHANGED mainVars /\ \A v \in Workers \ {w} :
        pc'[v] = pc[v] /\ entry'[v] = entry[v] /\ pos'[v] = pos[v]
  BY WorkerKeeps, WorkerAlone
<1>1. PICK here, path : here = Component(w) /\ path = RemotePath(Mine(w))
  OBVIOUS
<1>2. ASSUME NEW v \in Workers, v # w, pc[v] = "write", Sole(entry[v])
      PROVE  (remote[RemotePath(Mine(v))].data = Chunks(Mine(v), pos[v] - 1))'
  <2>1. PICK p, e : e = Mine(v) /\ p = RemotePath(Mine(v))
    OBVIOUS
  <2>2. IsFile(p) /\ entry[v] \in 1 .. next - 1
    BY <1>2, <2>1 DEF Base, WorkerOK, AtFile, Holds, Busy, Filing
  <2>3. ~(pc[w] \in Filing /\ p = path)
    <3>. SUFFICES ASSUME pc[w] \in Filing PROVE p # path
      OBVIOUS
    <3>1. entry[w] # entry[v]
      BY <1>2 DEF Base, Apart, Busy, Filing
    <3>2. entry[w] \in 1 .. Len(entries)
      <4>1. entry[w] \in 1 .. next - 1 /\ next \in 1 .. Len(entries) + 1 /\ Len(entries) \in Nat
        BY FileFacts DEF Base, Typed
      <4>. QED BY <4>1
    <3>. QED BY <1>1, <1>2, <2>1, <3>1, <3>2 DEF Sole, Mine
  <2>4. remote'[p] = remote[p]
    BY <1>1, <2>2, <2>3, WorkerTouches DEF IsFile
  <2>5. Mine(v)' = e /\ RemotePath(Mine(v))' = p /\ pos'[v] = pos[v]
    BY <1>0, <1>2, <2>1, SamePaths
  <2>6. remote[p].data = Chunks(e, pos[v] - 1)
    BY <1>2, <2>1 DEF Growing
  <2>. QED BY <2>4, <2>5, <2>6 DEF Chunks
<1>3. ASSUME pc'[w] = "write", Sole(entry[w])'
      PROVE  (remote[RemotePath(Mine(w))].data = Chunks(Mine(w), pos[w] - 1))'
  <2>1. CASE Recv(w) \/ Exit(w)
    <3>1. pc'[w] \in {"stat", "recv", "open", "exited"}
      BY <2>1, FirstStepIs DEF Recv, Exit, Base, Typed
    <3>. QED BY <1>3, <3>1
  <2>2. CASE StatComponent(w) \/ MakeComponent(w) \/ StatAgain(w)
    <3>1. \E p \in {"stat", "recv", "open", "mkdir", "again"} : pc' = [pc EXCEPT ![w] = p]
      BY <2>2 DEF StatComponent, MakeComponent, StatAgain, Passed, ChainFails
    <3>. QED BY <1>3, <3>1 DEF Base, Typed
  <2>3. CASE EndOfFile(w)
    BY <1>3, <2>3 DEF EndOfFile, Base, Typed
  <2>4. ASSUME FileFails(w), pc[w] \in Filing PROVE FALSE
    <3>1. FirstStep(w, entry[w]) = "open"
      BY <2>4, FileFacts
    <3>. QED BY <1>3, <2>4, <3>1 DEF FileFails, Base, Typed
  <2>5. CASE OpenFile(w)
    <3>1. pc[w] \in Filing /\ pos'[w] = 1
      BY <2>5 DEF OpenFile, Filing, Base, Typed
    <3>2. ~IsDir(path) /\ remote' = WithNode(path, [dir |-> FALSE, data |-> <<>>])
      BY <1>1, <2>4, <2>5, <3>1 DEF OpenFile
    <3>3. remote'[path].data = <<>>
      BY <3>2, OpenKeepsTree DEF Base
    <3>4. PICK e : e = Mine(w)
      OBVIOUS
    <3>5. Mine(w)' = e /\ RemotePath(Mine(w))' = path
      <4>1. entry'[w] = entry[w]
        BY <2>5 DEF OpenFile, fileUnchanged
      <4>. QED BY <1>0, <1>1, <3>4, <4>1, SamePaths
    <3>6. pos'[w] - 1 = 0 /\ Chunks(e, 0) = <<>>
      BY <3>1, ChunksGrow
    <3>. QED BY <3>3, <3>5, <3>6 DEF Chunks
  <2>6. CASE WriteChunk(w)
    <3>1. pc[w] \in Filing /\ pc[w] = "write" /\ entry'[w] = entry[w]
      BY <2>6 DEF WriteChunk, Filing, fileUnchanged
    <3>2. PICK e, n, i : e = Mine(w) /\ n = pos[w] - 1 /\ i = pos[w]
      OBVIOUS
    <3>3. /\ remote' = [remote EXCEPT ![path].data = Written(@, i, e.data)]
          /\ pos' = [pos EXCEPT ![w] = @ + 1]
      BY <1>1, <2>4, <2>6, <3>1, <3>2 DEF WriteChunk
    <3>4. IsFile(path) /\ i \in 1 .. Size[e.data] + 1 /\ Size[e.data] \in Nat
      BY <1>1, <3>1, <3>2, FileFacts DEF Base, WorkerOK, AtFile
    <3>5. n \in Nat /\ i = n + 1 /\ i \in Nat
      BY <3>2, <3>4
    <3>6. remote[path].data = Chunks(e, n)
      <4>1. Sole(entry[w])
        BY <1>0, <1>3, <3>1, SameSole
      <4>. QED BY <1>1, <3>1, <3>2, <4>1 DEF Growing
    <3>7. PICK x : x = Written(remote[path].data, i, e.data)
      OBVIOUS
    <3>8. remote' = [remote EXCEPT ![path].data = x]
      BY <3>3, <3>7
    <3>9. remote'[path].data = x
      BY <3>4, <3>8, WriteKeeps DEF Base
    <3>10. x = Chunks(e, i)
      <4>1. \A data, k : k = n + 1 /\ data = Chunks(e, n) => Written(data, k, e.data) = Chunks(e, k)
        BY <3>5, ChunksGrow
      <4>. QED BY <3>5, <3>6, <3>7, <4>1
    <3>11. pos'[w] - 1 = i
      <4>1. pos \in [Workers -> Nat] /\ pos[w] = i
        BY <3>2 DEF Base, Typed
      <4>2. pos'[w] = i + 1
        BY <3>3, <4>1
      <4>. QED BY <3>5, <4>2
    <3>12. Mine(w)' = e /\ RemotePath(Mine(w))' = path
      BY <1>0, <1>1, <3>1, <3>2, SamePaths
    <3>. QED BY <3>9, <3>10, <3>11, <3>12 DEF Chunks
  <2>. QED BY <2>1, <2>2, <2>3, <2>5, <2>6 DEF Worker
<1>4. ASSUME NEW v \in Workers, (pc[v] = "write" /\ Sole(entry[v]))'
      PROVE  (remote[RemotePath(Mine(v))].data = Chunks(Mine(v), pos[v] - 1))'
  <2>1. CASE v = w
    BY <1>3, <1>4, <2>1
  <2>2. CASE v # w
    <3>1. pc[v] = "write" /\ entry'[v] = entry[v]
      BY <1>0, <1>4, <2>2
    <3>2. Sole(entry[v])
      <4>1. PICK q : q = entry[v]
        OBVIOUS
      <4>2. Sole(q)'
        BY <1>4, <3>1, <4>1 DEF Sole
      <4>. QED BY <1>0, <4>1, <4>2, SameSole
    <3>. QED BY <1>2, <2>2, <3>1, <3>2
  <2>. QED BY <2>1, <2>2
<1>. QED BY <1>4 DEF Growing

Carried == Handled /\ Growing /\ Leaving

(* Before the workers start there is nothing to carry.                       *)
LEMMA NothingYet ==
  ASSUME next = 1, \A w \in Workers : pc[w] = "recv", main_pc # "done"
  PROVE  Carried
BY DEF Carried, Handled, Growing, Leaving

(* Every step carries the list on.                                           *)
LEMMA NextCarried == Base /\ Carried /\ [Next]_vars => Carried'
<1>. SUFFICES ASSUME Base, Carried, [Next]_vars PROVE Carried'
  OBVIOUS
<1>1. ASSUME NEW w \in Workers, Worker(w) PROVE Carried'
  <2>1. UNCHANGED mainVars /\ main_pc \in Running /\ next' \in Nat /\ next' >= next
        /\ \A v \in Workers \ {w} : pc'[v] = pc[v]
    BY <1>1, WorkerKeeps, WorkerAlone
  <2>2. Handled' /\ Growing'
    BY <1>1, HandledStays, GrowingStays DEF Carried
  <2>3. Leaving'
    <3>1. pc[w] # "exited"
      BY <1>1 DEF Worker, Recv, Exit, StatComponent, MakeComponent, StatAgain, OpenFile,
                  WriteChunk, EndOfFile
    <3>2. main_pc' # "done"
      BY <2>1, <3>1 DEF Carried, Leaving, mainVars
    <3>3. pc'[w] = "exited" => next' > Len(entries)
      <4>1. CASE Exit(w)
        BY <4>1 DEF Exit
      <4>2. CASE Recv(w)
        BY <4>2, FirstStepIs DEF Recv, Base, Typed
      <4>3. CASE StatComponent(w) \/ MakeComponent(w) \/ StatAgain(w)
        <5>1. \E p \in {"stat", "recv", "open", "mkdir", "again"} : pc' = [pc EXCEPT ![w] = p]
          BY <4>3 DEF StatComponent, MakeComponent, StatAgain, Passed, ChainFails
        <5>. QED BY <5>1 DEF Base, Typed
      <4>4. CASE OpenFile(w) \/ WriteChunk(w) \/ EndOfFile(w)
        <5>1. \/ pc' = pc
              \/ \E p \in {"stat", "recv", "open", "write"} : pc' = [pc EXCEPT ![w] = p]
          BY <4>4, FirstStepIs DEF OpenFile, WriteChunk, EndOfFile, FileFails
        <5>. QED BY <3>1, <5>1 DEF Base, Typed
      <4>. QED BY <1>1, <4>1, <4>2, <4>3, <4>4 DEF Worker
    <3>4. ASSUME NEW v \in Workers, pc'[v] = "exited" PROVE next' > Len(entries')
      <4>1. entries' = entries /\ Len(entries) \in Nat /\ next \in Nat
        BY <2>1 DEF mainVars, Base, Typed
      <4>2. CASE v = w
        BY <3>3, <3>4, <4>1, <4>2
      <4>3. CASE v # w
        BY <2>1, <3>4, <4>1, <4>3 DEF Carried, Leaving
      <4>. QED BY <4>2, <4>3
    <3>. QED BY <3>2, <3>4 DEF Leaving
  <2>. QED BY <2>2, <2>3 DEF Carried
<1>2. CASE RefuseSources \/ EnumerateSources \/ TargetFound \/ TargetMissing
  <2>1. next = 1 /\ \A w \in Workers : pc[w] = "recv"
    BY <1>2 DEF RefuseSources, EnumerateSources, TargetFound, TargetMissing, Base, Quiet, Running
  <2>2. next' = next /\ pc' = pc /\ main_pc' # "done"
    BY <1>2 DEF RefuseSources, EnumerateSources, TargetFound, TargetMissing
  <2>3. next' = 1 /\ (\A w \in Workers : pc'[w] = "recv") /\ main_pc' # "done"
    BY <2>1, <2>2
  <2>. QED BY <2>3 DEF Carried, Handled, Growing, Leaving
<1>3. CASE KillAndRerun
  <2>1. next' = 1 /\ (\A w \in Workers : pc'[w] = "recv") /\ main_pc' # "done"
    BY <1>3 DEF KillAndRerun, ForAll
  <2>. QED BY <2>1 DEF Carried, Handled, Growing, Leaving
<1>4. CASE Finish \/ Stopped \/ UNCHANGED vars
  <2>1. UNCHANGED <<request, entries, target_is_dir_final, remote, next, failed, pc, entry, pos>>
    BY <1>4 DEF Finish, Stopped, vars, mainVars, workVars
  <2>2. Handled'
    BY <2>1 DEF Carried, Handled, Sole, Arrived, Chunks, RemotePath, IsDir, IsFile
  <2>3. Growing'
    BY <2>1 DEF Carried, Growing, Sole, Chunks, RemotePath, Mine
  <2>4. Leaving'
    BY <1>4, <2>1 DEF Carried, Leaving, Finish, Stopped, vars, mainVars
  <2>. QED BY <2>2, <2>3, <2>4 DEF Carried
<1>. QED BY <1>1, <1>2, <1>3, <1>4 DEF Next

(* A claim that shares its relative name with no other has an entry that     *)
(* goes where no other goes.                                                 *)
LEMMA SoleClaim ==
  ASSUME Decided, main_pc \in Running, NEW o, Stands(o), NEW q \in 1 .. Len(entries),
         \A d \in Claims \ {o[q]} : Rel(d) # Rel(o[q])
  PROVE  Sole(q)
<1>. SUFFICES ASSUME NEW r \in 1 .. Len(entries), r # q,
                     RemotePath(entries[r]) = RemotePath(entries[q])
              PROVE  FALSE
  BY DEF Sole
<1>1. Len(entries) \in Nat /\ request.target \in Path
      /\ entries[r].rel \in Path /\ entries[q].rel \in Path
  BY RequestTyped DEF Decided, Base, Typed, GoodEntry
<1>2. CASE target_is_dir_final
  <2>1. request.target \o entries[r].rel = request.target \o entries[q].rel
    BY <1>2, GoesToGoal
  <2>2. entries[r].rel = entries[q].rel
    <3>1. PICK t, x, y :
            t = request.target /\ x = entries[r].rel /\ y = entries[q].rel
      OBVIOUS
    <3>2. t \in Seq(Names) /\ x \in Seq(Names) /\ y \in Seq(Names) /\ t \o x = t \o y
      BY <1>1, <2>1, <3>1 DEF Path
    <3>3. x = y
      BY <3>2, ConcatSimplifications
    <3>. QED BY <3>1, <3>3
  <2>3. Rel(o[r]) = Rel(o[q]) /\ o[r] \in Claims
    BY <2>2, GoesToGoal
  <2>4. o[r] # o[q]
    BY DEF Stands
  <2>. QED BY <2>3, <2>4
<1>3. CASE ~target_is_dir_final
  <2>1. Len(entries) = 0 \/ Len(entries) = 1
    BY <1>3 DEF Decided, Settled, EntriesFit
  <2>. QED BY <2>1
<1>. QED BY <1>2, <1>3

(* An upload that ends has put every file its sources name, whole, where the *)
(* target rules say, and made every directory, or run_upload_workers has     *)
(* reported it - after any number of runs killed in between, and whatever a  *)
(* failed attempt had left behind. Only claims with one relative name may    *)
(* spoil each other's file.                                                  *)
THEOREM AllDelivered == Spec => []Delivered
<1>1. Init => Carried
  <2>. SUFFICES ASSUME Init PROVE Carried
    OBVIOUS
  <2>1. next = 1 /\ (\A w \in Workers : pc[w] = "recv") /\ main_pc # "done"
    BY DEF Init, ForAll
  <2>. QED BY <2>1, NothingYet
<1>2. Decided /\ Carried /\ [Next]_vars => Carried'
  BY NextCarried DEF Decided
<1>3. ASSUME Decided, Carried PROVE Delivered
  <2>. SUFFICES ASSUME main_pc = "done", NEW c \in Claims,
                       \A i \in failed : RemotePath(entries[i]) # Goal(c),
                       \A d \in Claims \ {c} : Rel(d) # Rel(c)
                PROVE  IF c \in FileClaims
                       THEN /\ IsFile(Goal(c))
                            /\ remote[Goal(c)].data =
                                 [k \in 1 .. Size[Local[c[2]].data] |-> Local[c[2]].data]
                       ELSE IsDir(Goal(c))
    BY DEF Delivered
  <2>1. main_pc \in Running
    BY DEF Running
  <2>2. PICK o : Stands(o)
    BY <1>3 DEF Decided, Meant
  <2>3. PICK q \in 1 .. Len(entries) : o[q] = c
    BY <2>2 DEF Stands
  <2>4. Sole(q)
    BY <1>3, <2>1, <2>2, <2>3, SoleClaim
  <2>5. /\ RemotePath(entries[q]) = Goal(c)
        /\ entries[q].kind \in {"Dir", "File"} /\ (entries[q].kind = "File" <=> c \in FileClaims)
        /\ entries[q].data = Local[c[2]].data
    BY <1>3, <2>1, <2>2, <2>3, GoesToGoal
  <2>6. q \in 1 .. next - 1
    <3>1. PICK w \in Workers : pc[w] = "exited"
      BY <1>3, LimitsAssumption DEF Carried, Leaving
    <3>2. next > Len(entries) /\ next \in Nat /\ Len(entries) \in Nat
      BY <1>3, <3>1 DEF Carried, Leaving, Decided, Base, Typed
    <3>. QED BY <3>2
  <2>7. q \notin failed
    BY <2>5
  <2>8. \A w \in Workers : pc[w] \notin Busy
    BY <1>3 DEF Carried, Leaving, Busy, Chaining, Filing
  <2>9. Arrived(entries[q])
    BY <1>3, <2>4, <2>6, <2>7, <2>8 DEF Carried, Handled
  <2>10. CASE c \in FileClaims
    BY <2>5, <2>9, <2>10 DEF Arrived, Chunks
  <2>11. CASE c \notin FileClaims
    BY <2>5, <2>9, <2>11 DEF Arrived
  <2>. QED BY <2>10, <2>11
<1>. QED BY <1>1, <1>2, <1>3, SpecDecided, PTL DEF Spec

=============================================================================
