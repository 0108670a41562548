----------------------------- MODULE UploadTree -----------------------------
(* What one upload of `hp ts` does to the remote file tree: the local        *)
(* sources enumerated (enumeration.rs, helpers.rs), the remote target probed *)
(* or made (prepare_remote_target, transfer.rs), and the workers that make   *)
(* the directories above each entry, component by component, and write its   *)
(* file in place (transfer/workers/upload.rs). Every SFTP call is a step.    *)
(*                                                                           *)
(* Tokens, slots, sessions and channels are UploadPool's business: here a    *)
(* worker takes the next entry whenever it is free, and always has a session.*)
(* A path is a sequence of names, a name a sequence of characters.           *)
EXTENDS Naturals, FiniteSets, SequencesExt

CONSTANTS
  Names,        \* names of files and directories, each a sequence of characters
  Local,        \* the local disk: path |-> [kind, data]
  Unlisted,     \* what reading its directory does not show: it cannot be read, or not to the end
  Size,         \* how many chunks a local file (a value of data) has
  Requests,     \* [sources, target, slash]: what `hp ts` is called with
  RemoteTrees,  \* what may be on the remote side beforehand
  Workers,
  MaxRetries,   \* --retry, at least 1 (UploadPool has 0)
  MaxAttempts,  \* max_attempts of sftp_mkdir_p, 3 in the code
  MaxFaults,    \* bound: SFTP calls refused for no reason of the tree
  MaxRuns       \* bound: runs of the same command, all but the last killed

ASSUME LimitsAssumption ==
  /\ MaxRetries \in Nat \ {0} /\ MaxAttempts \in Nat \ {0}
  /\ MaxFaults \in Nat /\ MaxRuns \in Nat \ {0}
  /\ Workers # {}
ASSUME NamesAssumption == \A n \in Names : n \in Seq(Range(n))
(* The disk is finite, and what is above an entry is a directory. *)
ASSUME LocalAssumption ==
  /\ IsFiniteSet(DOMAIN Local) /\ DOMAIN Local \subseteq Seq(Names)
  /\ <<>> \in DOMAIN Local /\ Local[<<>>].kind = "dir"
  /\ \A p \in DOMAIN Local :
       /\ Local[p].kind \in {"dir", "file", "link", "broken"}
       /\ Local[p].kind \in {"file", "link"} =>
            Local[p].data \in DOMAIN Size /\ Size[Local[p].data] \in Nat
       /\ \A k \in 0 .. Len(p) - 1 :
            SubSeq(p, 1, k) \in DOMAIN Local /\ Local[SubSeq(p, 1, k)].kind = "dir"
  /\ Unlisted \subseteq DOMAIN Local
ASSUME RequestsAssumption ==
  \A r \in Requests :
    /\ r.sources \in Seq([path : Seq(Names), slash : BOOLEAN])
    /\ r.target \in Seq(Names) /\ r.slash \in BOOLEAN
ASSUME RemoteAssumption ==
  \A t \in RemoteTrees :
    /\ \A p \in DOMAIN t : DOMAIN t[p] = {"dir", "data"} /\ t[p].dir \in BOOLEAN
    /\ <<>> \in DOMAIN t /\ t[<<>>].dir

VARIABLES
  request,
  remote,       \* the remote tree: path |-> [dir, data]
  found,        \* history: what it was when this run started
  main_pc,      \* the main thread
  entries,      \* what enumerate_local_sources returned
  next,         \* the entry the next worker receives
  target_is_dir_final,
  failed,       \* entries in the failure report, by index
  pc, entry, attempt,
  comp, tries,  \* sftp_mkdir_p: the component it is at, its failed rounds
  pos,          \* the chunk to write
  created_dirs,
  faults, runs

mainVars == <<request, found, main_pc, entries, target_is_dir_final, runs>>
workVars == <<entry, attempt, comp, tries, pos, created_dirs>>
vars == <<mainVars, remote, next, failed, pc, workVars, faults>>
-----------------------------------------------------------------------------
(* Names, patterns and local sources. *)

Wild(name) == \E i \in DOMAIN name : name[i] \in {"*", "?"}

(* wildcard_match: a star takes nothing, or one more character. *)
wildcard_match(pat, text) ==
  LET helper[at \in (1 .. Len(pat) + 1) \X (1 .. Len(text) + 1)] ==
        LET i == at[1]  j == at[2] IN
        IF i > Len(pat) THEN j > Len(text)
        ELSE IF pat[i] = "*"
        THEN helper[<<i + 1, j>>] \/ (j =< Len(text) /\ helper[<<i, j + 1>>])
        ELSE j =< Len(text) /\ pat[i] \in {"?", text[j]} /\ helper[<<i + 1, j + 1>>]
  IN helper[<<1, 1>>]

has_glob(s) == \E i \in DOMAIN s.path : Wild(s.path[i])

(* "**" anywhere, or a wildcard before the last segment (which is empty when *)
(* the source ends with a slash).                                            *)
is_disallowed_glob(s) ==
  \/ \E i \in DOMAIN s.path : \E j \in 2 .. Len(s.path[i]) :
       s.path[i][j - 1] = "*" /\ s.path[i][j] = "*"
  \/ \E i \in DOMAIN s.path : Wild(s.path[i]) /\ (i < Len(s.path) \/ s.slash)

KindAt(p) == IF p \in DOMAIN Local THEN Local[p].kind ELSE "absent"

(* A glob takes what matches in its directory and goes no deeper. A source   *)
(* without wildcards is one file, or all that is below one directory; its    *)
(* trailing slash was stripped before anyone looked at it. Symbolic links    *)
(* are followed when they are named or matched, and skipped by WalkDir. An   *)
(* error of reading a directory is flattened away: what it hides, and all    *)
(* that is below that, is left out without a word.                           *)
Hidden(root, p) == \E q \in Unlisted : IsStrictPrefix(root, q) /\ IsPrefix(q, p)
Taken(s) ==
  IF has_glob(s)
  THEN {p \in DOMAIN Local \ ({<<>>} \cup Unlisted) :
          Front(p) = Front(s.path) /\ wildcard_match(Last(s.path), Last(p))}
  ELSE IF KindAt(s.path) = "dir"
  THEN {p \in DOMAIN Local :
          IsStrictPrefix(s.path, p) /\ KindAt(p) \in {"dir", "file"} /\ ~Hidden(s.path, p)}
  ELSE {s.path}

SourceFails(s) ==
  IF has_glob(s)
  THEN \/ KindAt(Front(s.path)) # "dir"
       \/ Taken(s) = {}
       \/ \E p \in Taken(s) : KindAt(p) = "broken"
  ELSE KindAt(s.path) \in {"absent", "broken"}

make_local_entry(s, p) ==
  [kind |-> IF KindAt(p) = "dir" THEN "Dir" ELSE "File",
   data |-> Local[p].data,
   rel |-> IF has_glob(s) \/ KindAt(s.path) # "dir" THEN <<Last(p)>>
           ELSE SubSeq(p, Len(s.path) + 1, Len(p))]

(* The disk lists a directory in any order, and before what is in it. *)
Listings(s) ==
  {l \in SetToSeqs({make_local_entry(s, p) : p \in Taken(s)}) :
     \A i, j \in DOMAIN l : IsStrictPrefix(l[i].rel, l[j].rel) => i < j}
-----------------------------------------------------------------------------
(* The remote tree. *)

Directory == [dir |-> TRUE, data |-> <<>>]
IsDir(p) == p \in DOMAIN remote /\ remote[p].dir
IsFile(p) == p \in DOMAIN remote /\ ~remote[p].dir

MkdirAllowed(p) == p \notin DOMAIN remote /\ IsDir(Front(p))
WithNode(p, node) == [q \in DOMAIN remote \cup {p} |-> IF q = p THEN node ELSE remote[q]]

(* Writing chunk i of a file; what was never written reads as a hole. *)
Written(data, i, chunk) ==
  [k \in 1 .. (IF i > Len(data) THEN i ELSE Len(data)) |->
     IF k = i THEN chunk ELSE IF k =< Len(data) THEN data[k] ELSE "hole"]

Fault == faults < MaxFaults /\ faults' = faults + 1
NoFault == UNCHANGED faults
-----------------------------------------------------------------------------
(* The main thread. *)

ForAll(value) == [w \in Workers |-> value]

Init ==
  /\ request \in Requests
  /\ remote \in RemoteTrees
  /\ found = remote
  /\ main_pc = "start" /\ entries = <<>> /\ next = 1 /\ failed = {}
  /\ target_is_dir_final = FALSE
  /\ pc = ForAll("recv") /\ entry = ForAll(0) /\ attempt = ForAll(0)
  /\ comp = ForAll(0) /\ tries = ForAll(0) /\ pos = ForAll(0) /\ created_dirs = ForAll({})
  /\ faults = 0 /\ runs = 1

Refused ==
  \/ request.sources = <<>>
  \/ \E i \in DOMAIN request.sources :
       is_disallowed_glob(request.sources[i]) \/ SourceFails(request.sources[i])

RefuseSources ==
  /\ main_pc = "start"
  /\ Refused
  /\ main_pc' = "refused"
  /\ UNCHANGED <<request, found, entries, target_is_dir_final, runs, remote, next, failed, pc,
                 workVars, faults>>

EnumerateSources ==
  /\ main_pc = "start"
  /\ ~Refused
  /\ \E l \in [DOMAIN request.sources -> UNION {Listings(request.sources[i]) :
                                                  i \in DOMAIN request.sources}] :
       /\ \A i \in DOMAIN l : l[i] \in Listings(request.sources[i])
       /\ entries' = FlattenSeq(l)
  /\ main_pc' = "probe"
  /\ UNCHANGED <<request, found, target_is_dir_final, runs, remote, next, failed, pc, workVars,
                 faults>>

(* R8: a target that is a file takes one file and nothing else. *)
EntriesFit(is_dir) ==
  is_dir \/ Len(entries) = 0 \/ (Len(entries) = 1 /\ entries[1].kind = "File")

(* prepare_remote_target, when the stat of the target finds something. *)
TargetFound ==
  /\ main_pc = "probe"
  /\ request.target \in DOMAIN remote
  /\ LET is_dir == IsDir(request.target) IN
       /\ target_is_dir_final' = is_dir
       /\ main_pc' = IF (request.slash => is_dir) /\ EntriesFit(is_dir) THEN "run" ELSE "refused"
  /\ UNCHANGED <<request, found, entries, runs, remote, next, failed, pc, workVars, faults>>

(* The target made before its trailing slash is looked at. *)
MadeFirst(fails) ==
  /\ Front(request.target) \in DOMAIN remote
  /\ MkdirAllowed(request.target)
  /\ ~fails

(* When it finds nothing, or fails: one level is made, below what exists. *)
TargetMade(fails) ==
  /\ ~request.slash
  /\ Front(request.target) \in DOMAIN remote
  /\ MkdirAllowed(request.target)
  /\ ~fails

TargetMissing ==
  /\ main_pc = "probe"
  /\ \/ request.target \notin DOMAIN remote /\ NoFault
     \/ Fault
  /\ \E fails \in (IF faults' > faults THEN BOOLEAN ELSE {FALSE}) :
       /\ target_is_dir_final' = TRUE
       /\ remote' = IF TargetMade(fails) THEN WithNode(request.target, Directory) ELSE remote
       /\ main_pc' = IF TargetMade(fails) /\ ~request.slash THEN "run" ELSE "refused"
  /\ UNCHANGED <<request, found, entries, runs, next, failed, pc, workVars>>

Finish ==
  /\ main_pc = "run"
  /\ \A w \in Workers : pc[w] = "exited"
  /\ main_pc' = "done"
  /\ UNCHANGED <<request, found, entries, target_is_dir_final, runs, remote, next, failed, pc,
                 workVars, faults>>

(* The process is killed, and the user gives the same command again. *)
KillAndRerun ==
  /\ main_pc \in {"probe", "run"}
  /\ runs < MaxRuns
  /\ runs' = runs + 1
  /\ found' = remote
  /\ main_pc' = "start" /\ entries' = <<>> /\ next' = 1 /\ failed' = {}
  /\ target_is_dir_final' = FALSE
  /\ pc' = ForAll("recv") /\ entry' = ForAll(0) /\ attempt' = ForAll(0)
  /\ comp' = ForAll(0) /\ tries' = ForAll(0) /\ pos' = ForAll(0) /\ created_dirs' = ForAll({})
  /\ UNCHANGED <<request, remote, faults>>
-----------------------------------------------------------------------------
(* The workers. *)

(* RemotePath below as if the entry went beside the target, not into it. *)
BesideTarget(e) ==
  IF request.slash \/ target_is_dir_final THEN Front(request.target) \o e.rel ELSE request.target

RemotePath(e) ==
  IF request.slash \/ target_is_dir_final THEN request.target \o e.rel ELSE request.target

(* The directory an entry needs: itself, or its parent. *)
DirPath(e) == IF e.kind = "Dir" THEN RemotePath(e) ELSE Front(RemotePath(e))
Mine(w) == entries[entry[w]]
Component(w) == SubSeq(DirPath(Mine(w)), 1, comp[w])

(* Where the operation starts for entry i: with the directory chain, unless  *)
(* it has been made before, or is the root.                                  *)
FirstStep(w, i) ==
  IF DirPath(entries[i]) \notin created_dirs[w] /\ DirPath(entries[i]) # <<>> THEN "stat"
  ELSE IF entries[i].kind = "Dir" THEN "recv" ELSE "open"

Recv(w) ==
  /\ main_pc = "run" /\ pc[w] = "recv"
  /\ next =< Len(entries)
  /\ next' = next + 1
  /\ entry' = [entry EXCEPT ![w] = next]
  /\ attempt' = [attempt EXCEPT ![w] = 1]
  /\ comp' = [comp EXCEPT ![w] = 1]
  /\ tries' = [tries EXCEPT ![w] = 0]
  /\ pos' = [pos EXCEPT ![w] = 0]
  /\ pc' = [pc EXCEPT ![w] = FirstStep(w, next)]
  /\ UNCHANGED <<mainVars, remote, failed, created_dirs, faults>>

Exit(w) ==
  /\ main_pc = "run" /\ pc[w] = "recv"
  /\ next > Len(entries)
  /\ pc' = [pc EXCEPT ![w] = "exited"]
  /\ UNCHANGED <<mainVars, remote, next, failed, workVars, faults>>

(* ensure_remote_dir_all_generic has passed a component. *)
Passed(w) ==
  LET e == Mine(w) IN
  /\ IF comp[w] < Len(DirPath(e))
     THEN /\ comp' = [comp EXCEPT ![w] = @ + 1]
          /\ pc' = [pc EXCEPT ![w] = "stat"]
          /\ UNCHANGED created_dirs
     ELSE /\ created_dirs' = [created_dirs EXCEPT ![w] = @ \cup {DirPath(e)}]
          /\ pc' = [pc EXCEPT ![w] = IF e.kind = "Dir" THEN "recv" ELSE "open"]
          /\ UNCHANGED comp
  /\ UNCHANGED <<tries, failed>>

(* ChainFails below with one round too many. *)
OneRoundMore(w) ==
  /\ comp' = [comp EXCEPT ![w] = 1]
  /\ tries' = [tries EXCEPT ![w] = @ + 1]
  /\ IF tries[w] =< MaxAttempts
     THEN pc' = [pc EXCEPT ![w] = "stat"] /\ UNCHANGED failed
     ELSE pc' = [pc EXCEPT ![w] = "recv"] /\ failed' = failed \cup {entry[w]}
  /\ UNCHANGED created_dirs

(* It has failed: sftp_mkdir_p starts over, from the first component, until  *)
(* its attempts are used up. Nobody retries after that.                      *)
ChainFails(w) ==
  /\ comp' = [comp EXCEPT ![w] = 1]
  /\ tries' = [tries EXCEPT ![w] = @ + 1]
  /\ IF tries[w] + 1 < MaxAttempts
     THEN pc' = [pc EXCEPT ![w] = "stat"] /\ UNCHANGED failed
     ELSE pc' = [pc EXCEPT ![w] = "recv"] /\ failed' = failed \cup {entry[w]}
  /\ UNCHANGED created_dirs

chainUnchanged == <<mainVars, next, entry, attempt, pos>>

StatComponent(w) ==
  /\ pc[w] = "stat"
  /\ \/ IsDir(Component(w)) /\ NoFault /\ Passed(w)
     \/ IsFile(Component(w)) /\ NoFault /\ ChainFails(w)
     \/ /\ \/ Component(w) \notin DOMAIN remote /\ NoFault
           \/ Fault
        /\ pc' = [pc EXCEPT ![w] = "mkdir"]
        /\ UNCHANGED <<comp, tries, failed, created_dirs>>
  /\ UNCHANGED <<chainUnchanged, remote>>

MakeComponent(w) ==
  /\ pc[w] = "mkdir"
  /\ \/ /\ MkdirAllowed(Component(w))
        /\ remote' = WithNode(Component(w), Directory)
        /\ NoFault
        /\ Passed(w)
     \/ /\ IF MkdirAllowed(Component(w)) THEN Fault ELSE NoFault
        /\ pc' = [pc EXCEPT ![w] = "again"]
        /\ UNCHANGED <<remote, comp, tries, failed, created_dirs>>
  /\ UNCHANGED chainUnchanged

(* StatAgain below as if a failed mkdir were final. *)
NoSecondLook(w) ==
  /\ pc[w] = "again"
  /\ NoFault
  /\ ChainFails(w)
  /\ UNCHANGED <<chainUnchanged, remote>>

(* A mkdir that failed may have lost a race: look again. *)
StatAgain(w) ==
  /\ pc[w] = "again"
  /\ \/ IsDir(Component(w)) /\ NoFault /\ Passed(w)
     \/ ~IsDir(Component(w)) /\ NoFault /\ ChainFails(w)
     \/ Fault /\ ChainFails(w)
  /\ UNCHANGED <<chainUnchanged, remote>>

(* An I/O error of a file: the operation is tried again from its beginning. *)
FileFails(w) ==
  IF attempt[w] < MaxRetries
  THEN /\ attempt' = [attempt EXCEPT ![w] = @ + 1]
       /\ pc' = [pc EXCEPT ![w] = FirstStep(w, entry[w])]
       /\ UNCHANGED failed
  ELSE /\ pc' = [pc EXCEPT ![w] = "recv"]
       /\ failed' = failed \cup {entry[w]}
       /\ UNCHANGED attempt

fileUnchanged == <<mainVars, next, entry, comp, tries, created_dirs>>

(* OpenFile below as if a file that is there kept its content. *)
OpenKeeps(w) ==
  LET path == RemotePath(Mine(w)) IN
  /\ pc[w] = "open"
  /\ pos' = [pos EXCEPT ![w] = 1]
  /\ \/ /\ ~IsDir(path) /\ IsDir(Front(path))
        /\ remote' = IF IsFile(path) THEN remote
                     ELSE WithNode(path, [dir |-> FALSE, data |-> <<>>])
        /\ pc' = [pc EXCEPT ![w] = "write"]
        /\ NoFault
        /\ UNCHANGED <<attempt, failed>>
     \/ /\ IF ~IsDir(path) /\ IsDir(Front(path)) THEN Fault ELSE NoFault
        /\ FileFails(w)
        /\ UNCHANGED remote
  /\ UNCHANGED fileUnchanged

(* The local file opened and the remote one created, or truncated. *)
OpenFile(w) ==
  LET path == RemotePath(Mine(w)) IN
  /\ pc[w] = "open"
  /\ pos' = [pos EXCEPT ![w] = 1]
  /\ \/ /\ ~IsDir(path) /\ IsDir(Front(path))
        /\ remote' = WithNode(path, [dir |-> FALSE, data |-> <<>>])
        /\ pc' = [pc EXCEPT ![w] = "write"]
        /\ NoFault
        /\ UNCHANGED <<attempt, failed>>
     \/ /\ IF ~IsDir(path) /\ IsDir(Front(path)) THEN Fault ELSE NoFault
        /\ FileFails(w)
        /\ UNCHANGED remote
  /\ UNCHANGED fileUnchanged

WriteChunk(w) ==
  LET path == RemotePath(Mine(w)) IN
  /\ pc[w] = "write"
  /\ pos[w] =< Size[Mine(w).data]
  /\ \/ /\ remote' = [remote EXCEPT ![path].data = Written(@, pos[w], Mine(w).data)]
        /\ pos' = [pos EXCEPT ![w] = @ + 1]
        /\ NoFault
        /\ UNCHANGED <<pc, attempt, failed>>
     \/ /\ Fault
        /\ FileFails(w)
        /\ UNCHANGED <<remote, pos>>
  /\ UNCHANGED fileUnchanged

EndOfFile(w) ==
  /\ pc[w] = "write"
  /\ pos[w] > Size[Mine(w).data]
  /\ pc' = [pc EXCEPT ![w] = "recv"]
  /\ UNCHANGED <<fileUnchanged, remote, pos, attempt, failed, faults>>

Worker(w) ==
  \/ Recv(w) \/ Exit(w)
  \/ StatComponent(w) \/ MakeComponent(w) \/ StatAgain(w)
  \/ OpenFile(w) \/ WriteChunk(w) \/ EndOfFile(w)

Stopped == main_pc \in {"refused", "done"} /\ UNCHANGED vars

Next ==
  \/ RefuseSources \/ EnumerateSources \/ TargetFound \/ TargetMissing
  \/ \E w \in Workers : Worker(w)
  \/ Finish \/ KillAndRerun \/ Stopped

Spec == Init /\ [][Next]_vars
-----------------------------------------------------------------------------
TypeOK ==
  /\ request \in Requests
  /\ main_pc \in {"start", "probe", "run", "done", "refused"}
  /\ next \in 1 .. Len(entries) + 1
  /\ failed \subseteq 1 .. next - 1
  /\ target_is_dir_final \in BOOLEAN
  /\ \A w \in Workers :
       /\ pc[w] \in {"recv", "stat", "mkdir", "again", "open", "write", "exited"}
       /\ entry[w] \in 0 .. next - 1
       /\ attempt[w] \in 0 .. MaxRetries
       /\ tries[w] \in 0 .. MaxAttempts
       /\ pc[w] \in {"stat", "mkdir", "again"} => comp[w] \in 1 .. Len(DirPath(Mine(w)))
       /\ pc[w] = "write" =>
            IsFile(RemotePath(Mine(w))) /\ pos[w] \in 1 .. Size[Mine(w).data] + 1
       /\ \A d \in created_dirs[w] : IsDir(d)
  /\ faults \in 0 .. MaxFaults /\ runs \in 1 .. MaxRuns

(* What the request names, said without the enumeration: a text matches a    *)
(* pattern when the pattern's characters can be laid over it in order; a     *)
(* directory stands for what is below it.                                    *)
Matches(pat, text) ==
  \E cut \in [0 .. Len(pat) -> 0 .. Len(text)] :
    /\ cut[0] = 0 /\ cut[Len(pat)] = Len(text)
    /\ \A i \in DOMAIN pat :
         IF pat[i] = "*" THEN cut[i - 1] =< cut[i]
         ELSE cut[i] = cut[i - 1] + 1 /\ pat[i] \in {"?", text[cut[i]]}

RootOf(s) == IF has_glob(s) \/ KindAt(s.path) # "dir" THEN Front(s.path) ELSE s.path

Named(s, p) ==
  IF has_glob(s)
  THEN p \notin Unlisted /\ Len(p) = Len(s.path) /\ IsPrefix(Front(s.path), p) /\ Matches(Last(s.path), Last(p))
  ELSE /\ IsPrefix(s.path, p) /\ ~Hidden(s.path, p)
       /\ IF p = s.path THEN KindAt(p) # "dir" ELSE KindAt(p) \in {"dir", "file"}

Claims == {c \in (DOMAIN request.sources) \X DOMAIN Local :
             Named(request.sources[c[1]], c[2])}
Rel(c) == SubSeq(c[2], Len(RootOf(request.sources[c[1]])) + 1, Len(c[2]))
Goal(c) ==
  IF request.target \in DOMAIN found /\ ~found[request.target].dir THEN request.target
  ELSE request.target \o Rel(c)
FileClaims == {c \in Claims : KindAt(c[2]) # "dir"}

(* An upload that ends has put every file its sources name, whole, where the *)
(* rules say, and made every directory, or reported it - after any number of *)
(* runs killed in between, and whatever a failed attempt had left behind.    *)
(* Sources with one relative name may spoil each other's file; and of a      *)
(* directory that cannot be read it speaks, but not of what is below it,     *)
(* which the walk leaves out and nobody reports.                             *)
Delivered ==
  main_pc = "done" =>
    \A c \in Claims :
      \/ \E i \in failed : RemotePath(entries[i]) = Goal(c)
      \/ \E d \in Claims \ {c} : Rel(d) = Rel(c)
      \/ IF c \in FileClaims
         THEN /\ IsFile(Goal(c))
              /\ remote[Goal(c)].data = [k \in 1 .. Size[Local[c[2]].data] |-> Local[c[2]].data]
         ELSE IsDir(Goal(c))

(* Workers that make the same chain of directories at once never fail each   *)
(* other: as long as no call is refused for a reason of its own, an entry    *)
(* fails only if a file is where it needs a directory, or the other way      *)
(* round (TRANSFER.md:264).                                                  *)
RacesHarmless ==
  faults = 0 =>
    \A i \in failed :
      LET e == entries[i] IN
      \/ \E k \in DOMAIN DirPath(e) : IsFile(SubSeq(DirPath(e), 1, k))
      \/ e.kind = "File" /\ IsDir(RemotePath(e))

(* An upload changes the files its sources are to be written to and nothing  *)
(* else: whatever else was there stays, and all that is new is a directory   *)
(* on the way to a destination, or a destination.                            *)
OthersUntouched ==
  /\ \A p \in DOMAIN found :
       /\ p \in DOMAIN remote /\ remote[p].dir = found[p].dir
       /\ remote[p] = found[p] \/ \E c \in FileClaims : Goal(c) = p
  /\ \A p \in DOMAIN remote \ DOMAIN found :
       p = request.target \/ \E c \in Claims : IsPrefix(p, Goal(c))

(* An upload that is refused leaves the remote side as it found it. *)
RefusedLeavesRemote == main_pc = "refused" => remote = found
=============================================================================
