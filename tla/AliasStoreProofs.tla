-------------------------- MODULE AliasStoreProofs --------------------------
(* The invariants of AliasStore, for any number of processes, aliases, hosts *)
(* and faults. One state predicate is inductive, Inv: the state is well      *)
(* formed, only a save under way has rows to insert, an undisturbed save     *)
(* finds its own rows only, and every collection in memory agrees with the   *)
(* stored one about the aliases nobody has named.                            *)
EXTENDS AliasStore, WellFoundedInduction, TLAPS

(* A process that holds a collection it may write back. *)
Loaded == {"change", "ssh", "tui", "delete", "quitting"} \cup Inserting

NothingLeft == \A p \in Processes : pc[p] \notin Inserting => left[p] = {}

Connecting ==
  \A p \in Processes :
    pc[p] = "ssh" => cmd[p].op = "connect" /\ cmd[p].alias \in DOMAIN collection[p]

Types == TypeOK /\ NothingLeft /\ Connecting

CommandNamed == \A p \in Processes : pc[p] # Idle => AliasesOf(cmd[p]) \subseteq named

Remembers(p) ==
  \A b \in DOMAIN Stored \ named :
    b \in DOMAIN collection[p] /\ collection[p][b] = Stored[b]
MemoryKept == disturbed = {} => \A p \in Processes : pc[p] \in Loaded => Remembers(p)

Inv == Types /\ UndisturbedSave /\ CommandNamed /\ MemoryKept /\ BystandersKept

USE DEF Idle, Ended, Busy, Saving, Inserting
-----------------------------------------------------------------------------
(* A collection without an alias, with one more, and the empty one.          *)
LEMMA CollectionDomain ==
  ASSUME NEW c \in Collections
  PROVE  DOMAIN c \subseteq Aliases /\ \A a \in DOMAIN c : c[a] \in Server
BY DEF Collections

LEMMA IsCollection ==
  ASSUME NEW D \in SUBSET Aliases, NEW c, c \in [D -> Server]
  PROVE  c \in Collections
BY DEF Collections

LEMMA RemoveType ==
  ASSUME NEW c \in Collections, NEW a
  PROVE  remove(c, a) \in Collections
<1>1. DOMAIN c \ {a} \in SUBSET Aliases
  BY CollectionDomain
<1>2. remove(c, a) \in [DOMAIN c \ {a} -> Server]
  BY CollectionDomain DEF remove
<1> QED
  BY <1>1, <1>2, IsCollection

LEMMA InsertType ==
  ASSUME NEW c \in Collections, NEW a \in Aliases, NEW s \in Server
  PROVE  insert(c, a, s) \in Collections
<1>1. DOMAIN c \cup {a} \in SUBSET Aliases
  BY CollectionDomain
<1>2. insert(c, a, s) \in [DOMAIN c \cup {a} -> Server]
  BY CollectionDomain DEF insert
<1> QED
  BY <1>1, <1>2, IsCollection

LEMMA NothingType == Nothing \in Collections
<1>1. Nothing \in [{} -> Server]
  BY DEF Nothing
<1> QED
  BY <1>1, IsCollection

LEMMA ServerTypes ==
  /\ \A h \in Hosts : NewServer(h) \in Server
  /\ \A s \in Server : set_last_connect_now(s) \in Server
BY DEF NewServer, set_last_connect_now, Server

(* What a command names it finds in its record. *)
LEMMA CommandFields ==
  ASSUME NEW c \in Commands
  PROVE  /\ c.op \in {"create", "remove", "connect"} => c.alias \in Aliases
         /\ c.op = "create" => c.host \in Hosts
         /\ c.op = "rename" => c.alias \in Aliases /\ c.to \in Aliases
         /\ c.op \in {"create", "rename", "remove", "connect", "list", "tui"}
BY DEF Commands

(* hp <alias> passes its check exactly when the collection has the alias. *)
LEMMA ConnectChecked ==
  ASSUME NEW p, cmd[p].op = "connect"
  PROVE  check_alias_exists(p) <=> cmd[p].alias \in DOMAIN collection[p]
BY DEF check_alias_exists

(* A command that passes its check changes its collection to a collection,   *)
(* and leaves the aliases it does not name alone.                            *)
LEMMA ChangedType ==
  ASSUME NEW p \in Processes, TypeOK, check_alias_exists(p)
  PROVE  /\ Changed(p) \in Collections
         /\ \A b \in DOMAIN collection[p] \ AliasesOf(cmd[p]) :
              b \in DOMAIN Changed(p) /\ Changed(p)[b] = collection[p][b]
<1> DEFINE c == collection[p]
<1>0. c \in Collections /\ cmd[p] \in Commands
  BY DEF TypeOK
<1>1. cmd[p].op \in {"create", "rename", "remove", "connect"}
  BY <1>0, CommandFields DEF check_alias_exists
<1>2. CASE cmd[p].op = "create"
  <2>1. Changed(p) = insert(c, cmd[p].alias, NewServer(cmd[p].host))
    BY <1>2 DEF Changed
  <2>2. cmd[p].alias \in Aliases /\ NewServer(cmd[p].host) \in Server
    BY <1>0, <1>2, CommandFields, ServerTypes
  <2>3. AliasesOf(cmd[p]) = {cmd[p].alias}
    BY <1>2 DEF AliasesOf
  <2>4. insert(c, cmd[p].alias, NewServer(cmd[p].host)) \in Collections
    BY <1>0, <2>2, InsertType
  <2>5. \A b \in DOMAIN c \ {cmd[p].alias} :
          /\ b \in DOMAIN insert(c, cmd[p].alias, NewServer(cmd[p].host))
          /\ insert(c, cmd[p].alias, NewServer(cmd[p].host))[b] = c[b]
    BY DEF insert
  <2> QED
    BY <2>1, <2>3, <2>4, <2>5
<1>3. CASE cmd[p].op = "rename"
  <2>1. Changed(p) = insert(remove(c, cmd[p].alias), cmd[p].to, c[cmd[p].alias])
    BY <1>3 DEF Changed
  <2>2. cmd[p].alias \in DOMAIN c /\ cmd[p].to \in Aliases
    BY <1>0, <1>3, CommandFields DEF check_alias_exists
  <2>3. c[cmd[p].alias] \in Server
    BY <1>0, <2>2, CollectionDomain
  <2>4. AliasesOf(cmd[p]) = {cmd[p].alias, cmd[p].to}
    BY <1>3 DEF AliasesOf
  <2>5. Changed(p) \in Collections
    BY <1>0, <2>1, <2>2, <2>3, RemoveType, InsertType
  <2> QED
    BY <2>1, <2>4, <2>5 DEF insert, remove
<1>4. CASE cmd[p].op = "remove"
  <2>1. Changed(p) = remove(c, cmd[p].alias)
    BY <1>4 DEF Changed
  <2>2. AliasesOf(cmd[p]) = {cmd[p].alias}
    BY <1>4 DEF AliasesOf
  <2> QED
    BY <1>0, <2>1, <2>2, RemoveType DEF remove
<1>5. CASE cmd[p].op = "connect"
  <2>1. Changed(p) = insert(c, cmd[p].alias, set_last_connect_now(c[cmd[p].alias]))
    BY <1>5 DEF Changed
  <2>2. cmd[p].alias \in DOMAIN c /\ cmd[p].alias \in Aliases
    BY <1>0, <1>5, CommandFields DEF check_alias_exists
  <2>3. set_last_connect_now(c[cmd[p].alias]) \in Server
    BY <1>0, <2>2, CollectionDomain, ServerTypes
  <2>4. AliasesOf(cmd[p]) = {cmd[p].alias}
    BY <1>5 DEF AliasesOf
  <2> QED
    BY <1>0, <2>1, <2>2, <2>3, <2>4, InsertType DEF insert
<1> QED
  BY <1>1, <1>2, <1>3, <1>4, <1>5
-----------------------------------------------------------------------------
(* Type correctness. *)

LEMMA InitType == Init => Types
<1> SUFFICES ASSUME Init PROVE Types
  OBVIOUS
<1>1. collection \in [Processes -> Collections]
  BY NothingType DEF Init
<1>2. table \in Collections
  BY StoredAssumption DEF Init
<1>3. faults \in 0..MaxFaults /\ changes \in [Processes -> 0..MaxChanges]
  BY BoundsAssumption DEF Init
<1>4. NothingLeft /\ Connecting
  BY DEF Init, NothingLeft, Connecting
<1>5. \A p \in Processes : /\ left[p] \subseteq DOMAIN collection[p]
                          /\ pc[p] \in {"tui", "quitting", "rewrite"} => cmd[p].op = "tui"
  BY DEF Init
<1>6. /\ cmd \in [Processes -> Commands]
      /\ pc \in [Processes -> {Idle} \cup Busy \cup Ended]
      /\ left \in [Processes -> SUBSET Aliases]
      /\ session = "closed" /\ disturbed = {} /\ named = {}
  BY DEF Init
<1>7. /\ session \in {"closed", "open", "shared"}
      /\ disturbed \subseteq Processes /\ named \subseteq Aliases
  BY <1>6
<1>8. TypeOK
  BY <1>1, <1>2, <1>3, <1>5, <1>6, <1>7 DEF TypeOK, Init
<1> QED
  BY <1>4, <1>8 DEF Types

(* A step of p moves p, keeps the rows left to insert within its collection, *)
(* and is where it may be.                                                   *)
PlaceOK(p, at, c, rest) ==
  /\ at \in Busy \cup Ended
  /\ c \in Collections
  /\ rest \subseteq DOMAIN c
  /\ at \notin Inserting => rest = {}
  /\ at \in {"tui", "quitting", "rewrite"} => cmd[p].op = "tui"
  /\ at = "ssh" => cmd[p].op = "connect" /\ cmd[p].alias \in DOMAIN c

Moves(p, at, c, rest) ==
  /\ pc' = [pc EXCEPT ![p] = at]
  /\ collection' = [collection EXCEPT ![p] = c]
  /\ left' = [left EXCEPT ![p] = rest]
  /\ UNCHANGED cmd

LEMMA PlaceType ==
  ASSUME Types, NEW p \in Processes, NEW at, NEW c, NEW rest,
         PlaceOK(p, at, c, rest), Moves(p, at, c, rest)
  PROVE  /\ pc' \in [Processes -> {Idle} \cup Busy \cup Ended]
         /\ collection' \in [Processes -> Collections]
         /\ left' \in [Processes -> SUBSET Aliases]
         /\ cmd' \in [Processes -> Commands]
         /\ \A q \in Processes :
              /\ left'[q] \subseteq DOMAIN collection'[q]
              /\ pc'[q] \in {"tui", "quitting", "rewrite"} => cmd'[q].op = "tui"
         /\ NothingLeft' /\ Connecting'
<1> USE DEF Types, Moves
<1>1. rest \in SUBSET Aliases
  BY CollectionDomain DEF PlaceOK
<1>2. /\ pc' \in [Processes -> {Idle} \cup Busy \cup Ended]
      /\ collection' \in [Processes -> Collections]
      /\ left' \in [Processes -> SUBSET Aliases]
      /\ cmd' \in [Processes -> Commands]
  BY <1>1 DEF PlaceOK, TypeOK
<1>3. ASSUME NEW q \in Processes
      PROVE  /\ left'[q] \subseteq DOMAIN collection'[q]
             /\ pc'[q] \in {"tui", "quitting", "rewrite"} => cmd'[q].op = "tui"
             /\ pc'[q] \notin Inserting => left'[q] = {}
             /\ pc'[q] = "ssh" =>
                  cmd'[q].op = "connect" /\ cmd'[q].alias \in DOMAIN collection'[q]
  <2>1. CASE q = p
    BY <2>1 DEF PlaceOK, TypeOK
  <2>2. CASE q # p
    BY <2>2 DEF TypeOK, NothingLeft, Connecting
  <2> QED
    BY <2>1, <2>2
<1> QED
  BY <1>2, <1>3 DEF NothingLeft, Connecting

LEMMA GotoSession ==
  ASSUME NEW p, NEW at, Goto(p, at)
  PROVE  session' \in {"closed", "open", "shared"} /\ pc' = [pc EXCEPT ![p] = at]
BY DEF Goto

LEMMA FaultType == TypeOK /\ Fault => faults' \in 0..MaxFaults
BY BoundsAssumption DEF TypeOK, Fault

LEMMA DisturbedType ==
  ASSUME TypeOK, NEW p \in Processes
  PROVE  DisturbedBy(p) \subseteq Processes
BY DEF TypeOK, DisturbedBy, Writers

(* What TypeOK says of the variables all processes share. *)
RestOK ==
  /\ table \in Collections
  /\ changes \in [Processes -> 0..MaxChanges]
  /\ faults \in 0..MaxFaults
  /\ session \in {"closed", "open", "shared"}
  /\ disturbed \subseteq Processes /\ named \subseteq Aliases

LEMMA StepType ==
  ASSUME Types, NEW p \in Processes, Step(p)
  PROVE  Types'
<1>a. SUFFICES (\E at, c, rest : PlaceOK(p, at, c, rest) /\ Moves(p, at, c, rest)) /\ RestOK'
  BY PlaceType DEF Types, TypeOK, RestOK
<1> USE DEF Types
<1>b. /\ collection = [collection EXCEPT ![p] = collection[p]]
      /\ left = [left EXCEPT ![p] = left[p]]
      /\ pc = [pc EXCEPT ![p] = pc[p]]
      /\ collection[p] \in Collections /\ left[p] \subseteq DOMAIN collection[p]
      /\ cmd[p] \in Commands
  BY DEF TypeOK
<1>c. RestOK
  BY DEF TypeOK, RestOK
<1>1. CASE Start(p)
  <2>1. left[p] = {}
    BY <1>1 DEF Start, NothingLeft
  <2>2. PlaceOK(p, "load", collection[p], left[p])
    BY <1>b, <2>1 DEF PlaceOK
  <2>3. AliasesOf(cmd[p]) \subseteq Aliases
    BY <1>b, CommandFields DEF AliasesOf
  <2>4. Moves(p, "load", collection[p], left[p])
    BY <1>1, <1>b, <1>c, <2>2, <2>3, GotoSession DEF Start, Moves
  <2> QED
    BY <1>1, <1>b, <1>c, <2>2, <2>3, GotoSession, <2>4 DEF Start, RestOK
<1>2. CASE Load(p)
  <2> DEFINE at == IF cmd[p].op = "tui" THEN "tui" ELSE "change"
  <2>1. PlaceOK(p, at, table, left[p])
    BY <1>2, <1>c DEF Load, NothingLeft, PlaceOK, RestOK
  <2>2. disturbed' \subseteq Processes
    BY <1>2 DEF Load, TypeOK
  <2>3. Moves(p, at, table, left[p])
    BY <1>2, <1>b, <1>c, <2>1, <2>2, GotoSession DEF Load, Moves
  <2> QED
    BY <1>2, <1>b, <1>c, <2>1, <2>2, GotoSession, <2>3 DEF Load, RestOK
<1>3. CASE LoadFails(p)
  <2> DEFINE at == IF cmd[p].op = "tui" THEN "tui" ELSE "failed"
  <2>1. PlaceOK(p, at, collection[p], left[p])
    BY <1>3, <1>b DEF LoadFails, NothingLeft, PlaceOK
  <2>2. disturbed' \subseteq Processes
    BY <1>3 DEF LoadFails, TypeOK
  <2>3. Moves(p, at, collection[p], left[p])
    BY <1>3, <1>b, <1>c, <2>1, <2>2, GotoSession, FaultType DEF LoadFails, Moves
  <2> QED
    BY <1>3, <1>b, <1>c, <2>1, <2>2, GotoSession, FaultType, <2>3 DEF LoadFails, RestOK
<1>4. CASE NothingToSave(p)
  <2>1. PlaceOK(p, "done", collection[p], left[p])
    BY <1>4, <1>b DEF NothingToSave, NothingLeft, PlaceOK
  <2>2. Moves(p, "done", collection[p], left[p])
    BY <1>4, <1>b, <1>c, <2>1, GotoSession DEF NothingToSave, Moves
  <2> QED
    BY <1>4, <1>b, <1>c, <2>1, GotoSession, <2>2 DEF NothingToSave, RestOK
<1>5. CASE ChangeCollection(p)
  <2>1. PlaceOK(p, "delete", Changed(p), left[p])
    BY <1>5, <1>b, ChangedType DEF ChangeCollection, NothingLeft, PlaceOK
  <2>2. Moves(p, "delete", Changed(p), left[p])
    BY <1>5, <1>b, <1>c, <2>1, GotoSession DEF ChangeCollection, Moves
  <2> QED
    BY <1>5, <1>b, <1>c, <2>1, GotoSession, <2>2 DEF ChangeCollection, RestOK
<1>6. CASE StartSsh(p)
  <2>0. left[p] = {}
    BY <1>6 DEF StartSsh, NothingLeft
  <2>1. PlaceOK(p, "ssh", collection[p], left[p])
    BY <1>6, <1>b, <2>0, ConnectChecked DEF StartSsh, PlaceOK
  <2>2. Moves(p, "ssh", collection[p], left[p])
    BY <1>6, <1>b, <1>c, <2>1, GotoSession DEF StartSsh, Moves
  <2> QED
    BY <1>6, <1>b, <1>c, <2>1, GotoSession, <2>2 DEF StartSsh, RestOK
<1>7. CASE SshSucceeds(p)
  <2>0. check_alias_exists(p) /\ pc[p] = "ssh"
    BY <1>7, ConnectChecked DEF SshSucceeds, Connecting
  <2>a. Changed(p) \in Collections /\ left[p] = {}
    BY <2>0, ChangedType DEF NothingLeft
  <2>1. PlaceOK(p, "delete", Changed(p), left[p])
    BY <2>a DEF PlaceOK
  <2>2. Moves(p, "delete", Changed(p), left[p])
    BY <1>7, <1>b, <1>c, <2>1, GotoSession DEF SshSucceeds, Moves
  <2> QED
    BY <1>7, <1>b, <1>c, <2>1, GotoSession, <2>2 DEF SshSucceeds, RestOK
<1>8. CASE SshFails(p)
  <2>1. PICK at \in {"done", "failed"} : Goto(p, at)
    BY <1>8 DEF SshFails
  <2>2. PlaceOK(p, at, collection[p], left[p])
    BY <1>8, <1>b DEF SshFails, NothingLeft, PlaceOK
  <2>3. Moves(p, at, collection[p], left[p])
    BY <1>8, <1>b, <1>c, <2>1, <2>2, GotoSession DEF SshFails, Moves
  <2> QED
    BY <1>8, <1>b, <1>c, <2>1, <2>2, GotoSession, <2>3 DEF SshFails, RestOK
<1>9. CASE TuiChange(p)
  <2>1. PICK c \in Collections : collection' = [collection EXCEPT ![p] = c]
    BY <1>9, <1>b, RemoveType, InsertType, ServerTypes, CollectionDomain DEF TuiChange
  <2>2. PlaceOK(p, "delete", c, left[p])
    BY <1>9, <1>b DEF TuiChange, NothingLeft, PlaceOK
  <2>3. named' \subseteq Aliases
    BY <1>9, <1>b, <1>c, CollectionDomain DEF TuiChange, RestOK
  <2>4. changes' \in [Processes -> 0..MaxChanges]
    BY <1>9, <1>c, BoundsAssumption DEF TuiChange, RestOK
  <2>5. Moves(p, "delete", c, left[p])
    BY <1>9, <1>b, <1>c, <2>1, <2>2, <2>3, <2>4, GotoSession DEF TuiChange, Moves
  <2> QED
    BY <1>9, <1>b, <1>c, <2>1, <2>2, <2>3, <2>4, GotoSession, <2>5 DEF TuiChange, RestOK
<1>10. CASE Quit(p)
  <2>1. PlaceOK(p, "quitting", collection[p], left[p])
    BY <1>10, <1>b DEF Quit, NothingLeft, PlaceOK, TypeOK
  <2>2. Moves(p, "quitting", collection[p], left[p])
    BY <1>10, <1>b, <1>c, <2>1, GotoSession DEF Quit, Moves
  <2> QED
    BY <1>10, <1>b, <1>c, <2>1, GotoSession, <2>2 DEF Quit, RestOK
<1>11. CASE DeleteRows(p)
  <2> DEFINE at == IF pc[p] = "delete" THEN "insert" ELSE "rewrite"
  <2>1. PlaceOK(p, at, collection[p], DOMAIN collection[p])
    BY <1>11, <1>b DEF DeleteRows, PlaceOK, TypeOK
  <2>2. Moves(p, at, collection[p], DOMAIN collection[p])
    BY <1>11, <1>b, <1>c, <2>1, GotoSession, NothingType, DisturbedType DEF DeleteRows, Moves
  <2> QED
    BY <1>11, <1>b, <1>c, <2>1, GotoSession, NothingType, DisturbedType, <2>2 DEF DeleteRows, RestOK
<1>12. CASE InsertRow(p)
  <2>1. PICK a \in left[p] : /\ table' = insert(table, a, collection[p][a])
                             /\ left' = [left EXCEPT ![p] = @ \ {a}]
    BY <1>12 DEF InsertRow
  <2>2. PlaceOK(p, pc[p], collection[p], left[p] \ {a})
    BY <1>12, <1>b DEF InsertRow, PlaceOK, TypeOK
  <2>3. table' \in Collections
    BY <1>b, <1>c, <2>1, InsertType, CollectionDomain DEF RestOK
  <2>4. left' = [left EXCEPT ![p] = left[p] \ {a}]
    BY <2>1
  <2>5. Moves(p, pc[p], collection[p], left[p] \ {a})
    BY <1>12, <1>b, <1>c, <2>2, <2>3, <2>4, DisturbedType DEF InsertRow, Moves
  <2> QED
    BY <1>12, <1>b, <1>c, <2>2, <2>3, <2>4, DisturbedType, <2>5 DEF InsertRow, RestOK
<1>13. CASE SaveEnds(p)
  <2> DEFINE at == IF cmd[p].op = "tui" /\ pc[p] = "insert" THEN "tui" ELSE "done"
  <2>1. PlaceOK(p, at, collection[p], left[p])
    BY <1>13, <1>b DEF SaveEnds, PlaceOK
  <2>2. Moves(p, at, collection[p], left[p])
    BY <1>13, <1>b, <1>c, <2>1, GotoSession DEF SaveEnds, Moves
  <2> QED
    BY <1>13, <1>b, <1>c, <2>1, GotoSession, <2>2 DEF SaveEnds, RestOK
<1>14. CASE StatementFails(p)
  <2> DEFINE at == IF cmd[p].op = "tui" /\ pc[p] \in {"delete", "insert"} THEN "tui" ELSE "failed"
  <2>1. PlaceOK(p, at, collection[p], {})
    BY <1>b DEF PlaceOK
  <2>2. disturbed' \subseteq Processes
    BY <1>14 DEF StatementFails, TypeOK
  <2>3. Moves(p, at, collection[p], {})
    BY <1>14, <1>b, <1>c, <2>1, <2>2, GotoSession, FaultType DEF StatementFails, Moves
  <2> QED
    BY <1>14, <1>b, <1>c, <2>1, <2>2, GotoSession, FaultType, <2>3 DEF StatementFails, RestOK
<1>15. CASE Kill(p)
  <2>1. PlaceOK(p, "killed", collection[p], {})
    BY <1>b DEF PlaceOK
  <2>2. disturbed' \subseteq Processes
    BY <1>15 DEF Kill, TypeOK
  <2>3. Moves(p, "killed", collection[p], {})
    BY <1>15, <1>b, <1>c, <2>1, <2>2, GotoSession, FaultType DEF Kill, Moves
  <2> QED
    BY <1>15, <1>b, <1>c, <2>1, <2>2, GotoSession, FaultType, <2>3 DEF Kill, RestOK
<1> QED
  BY <1>1, <1>2, <1>3, <1>4, <1>5, <1>6, <1>7, <1>8, <1>9, <1>10, <1>11, <1>12, <1>13, <1>14,
     <1>15 DEF Step

LEMMA UnchangedTypes == Types /\ UNCHANGED vars => Types'
BY DEF Types, TypeOK, NothingLeft, Connecting, vars

LEMMA NextType == Types /\ [Next]_vars => Types'
BY StepType, UnchangedTypes DEF Next, Finished

(* Whatever the processes do, the table and every collection in memory are   *)
(* maps from aliases to servers, only terminal sessions are where only they  *)
(* can be, and a save has only rows of its own collection left to insert.    *)
THEOREM TypeCorrect == Spec => []TypeOK
<1>1. Types => TypeOK
  BY DEF Types
<1> QED
  BY InitType, NextType, <1>1, PTL DEF Spec
-----------------------------------------------------------------------------
(* What a step does to the processes that do not take it. *)

(* The steps that leave the table alone and lead out of, or past, a save.    *)
Calm(p) ==
  /\ UNCHANGED table
  /\ \E at \in Busy \cup Ended : at \notin Inserting /\ pc' = [pc EXCEPT ![p] = at]

LEMMA StepsByKind ==
  ASSUME NEW p \in Processes, Step(p)
  PROVE  Calm(p) \/ DeleteRows(p) \/ InsertRow(p)
<1>1. CASE \/ Start(p) \/ NothingToSave(p) \/ ChangeCollection(p) \/ StartSsh(p)
           \/ SshSucceeds(p) \/ TuiChange(p) \/ Quit(p) \/ Kill(p)
  BY <1>1 DEF Calm, Start, NothingToSave, ChangeCollection, StartSsh, SshSucceeds, TuiChange,
              Quit, Kill, Goto
<1>2. CASE Load(p) \/ LoadFails(p)
  BY <1>2 DEF Calm, Load, LoadFails, Goto
<1>3. CASE SshFails(p) \/ SaveEnds(p) \/ StatementFails(p)
  BY <1>3 DEF Calm, SshFails, SaveEnds, StatementFails, Goto
<1> QED
  BY <1>1, <1>2, <1>3 DEF Step

LEMMA OthersWait ==
  ASSUME TypeOK, NEW p \in Processes, Step(p), NEW q \in Processes, q # p
  PROVE  /\ pc'[q] = pc[q] /\ left'[q] = left[q]
         /\ collection'[q] = collection[q] /\ cmd'[q] = cmd[q]
<1> USE DEF TypeOK
<1>1. CASE \/ Start(p) \/ Load(p) \/ LoadFails(p) \/ NothingToSave(p) \/ ChangeCollection(p)
           \/ StartSsh(p) \/ SshSucceeds(p) \/ SshFails(p)
  BY <1>1 DEF Start, Load, LoadFails, NothingToSave, ChangeCollection, StartSsh, SshSucceeds,
              SshFails, Goto
<1>2. CASE \/ TuiChange(p) \/ Quit(p) \/ DeleteRows(p) \/ InsertRow(p) \/ SaveEnds(p)
           \/ StatementFails(p) \/ Kill(p)
  BY <1>2 DEF TuiChange, Quit, DeleteRows, InsertRow, SaveEnds, StatementFails, Kill, Goto
<1> QED
  BY <1>1, <1>2 DEF Step

LEMMA HistoryGrows ==
  ASSUME NEW p \in Processes, Step(p)
  PROVE  disturbed \subseteq disturbed' /\ named \subseteq named'
<1>1. CASE \/ Start(p) \/ Load(p) \/ LoadFails(p) \/ NothingToSave(p) \/ ChangeCollection(p)
           \/ StartSsh(p) \/ SshSucceeds(p) \/ SshFails(p)
  BY <1>1 DEF Start, Load, LoadFails, NothingToSave, ChangeCollection, StartSsh, SshSucceeds,
              SshFails
<1>2. CASE \/ TuiChange(p) \/ Quit(p) \/ DeleteRows(p) \/ InsertRow(p) \/ SaveEnds(p)
           \/ StatementFails(p) \/ Kill(p)
  BY <1>2 DEF TuiChange, Quit, DeleteRows, InsertRow, SaveEnds, StatementFails, Kill, DisturbedBy
<1> QED
  BY <1>1, <1>2 DEF Step

(* A statement of p disturbs every other save under way. *)
LEMMA StatementDisturbs ==
  ASSUME NEW p, disturbed' = DisturbedBy(p), NEW q \in Writers, q \notin disturbed'
  PROVE  q = p
BY DEF DisturbedBy
-----------------------------------------------------------------------------
(* An undisturbed save finds its own rows only. *)

LEMMA InitUndisturbed == Init => UndisturbedSave
BY DEF Init, UndisturbedSave, Writers

LEMMA StepUndisturbed ==
  ASSUME Types, UndisturbedSave, NEW p \in Processes, Step(p)
  PROVE  UndisturbedSave'
<1> SUFFICES ASSUME NEW q \in Processes, pc'[q] \in Inserting, q \notin disturbed'
             PROVE  table' = [a \in DOMAIN collection'[q] \ left'[q] |-> collection'[q][a]]
  BY DEF UndisturbedSave, Writers
<1>1. q \notin disturbed /\ TypeOK
  BY HistoryGrows DEF Types
<1>2. ASSUME q # p
      PROVE  /\ q \in Writers /\ collection'[q] = collection[q] /\ left'[q] = left[q]
             /\ table = [a \in DOMAIN collection[q] \ left[q] |-> collection[q][a]]
  <2>1. /\ pc'[q] = pc[q] /\ left'[q] = left[q] /\ collection'[q] = collection[q]
    BY <1>1, <1>2, OthersWait
  <2>2. q \in Writers
    BY <2>1 DEF Writers
  <2> QED
    BY <1>1, <2>1, <2>2 DEF UndisturbedSave
<1>3. CASE Calm(p)
  <2>1. q # p
    BY <1>1, <1>3 DEF Calm, TypeOK
  <2> QED
    BY <1>2, <1>3, <2>1 DEF Calm
<1>4. CASE DeleteRows(p)
  <2>1. q = p
    BY <1>2, <1>4, StatementDisturbs DEF DeleteRows
  <2>2. table' = Nothing /\ left'[p] = DOMAIN collection'[p]
    BY <1>1, <1>4 DEF DeleteRows, TypeOK
  <2> QED
    BY <2>1, <2>2 DEF Nothing
<1>5. CASE InsertRow(p)
  <2>1. q = p
    BY <1>2, <1>5, StatementDisturbs DEF InsertRow
  <2>2. table = [b \in DOMAIN collection[p] \ left[p] |-> collection[p][b]]
    BY <1>1, <1>5, <2>1 DEF InsertRow, UndisturbedSave, Writers
  <2>3. PICK a \in left[p] : /\ table' = insert(table, a, collection[p][a])
                             /\ left' = [left EXCEPT ![p] = @ \ {a}]
    BY <1>5 DEF InsertRow
  <2>4. left'[p] = left[p] \ {a} /\ collection' = collection /\ a \in DOMAIN collection[p]
    BY <1>1, <1>5, <2>3 DEF InsertRow, TypeOK
  <2>5. DOMAIN table \cup {a} = DOMAIN collection[p] \ left'[p]
    BY <2>2, <2>4
  <2> QED
    BY <2>1, <2>2, <2>3, <2>4, <2>5 DEF insert
<1> QED
  BY <1>3, <1>4, <1>5, StepsByKind

LEMMA NextUndisturbed == Types /\ UndisturbedSave /\ [Next]_vars => UndisturbedSave'
<1>1. UndisturbedSave /\ UNCHANGED vars => UndisturbedSave'
  <2>1. UNCHANGED vars =>
          UNCHANGED <<table, collection, left, disturbed>> /\ Writers' = Writers
    BY DEF Writers, vars
  <2> QED
    BY <2>1 DEF UndisturbedSave
<1> QED
  BY <1>1, StepUndisturbed DEF Next, Finished

(* However many processes run at once: a save no other one writes into, and  *)
(* that nothing cuts, finds in the table exactly the rows it has inserted so *)
(* far, so what it leaves is the collection it was given (save_to_sqlite).   *)
THEOREM UndisturbedSavesAreExact == Spec => []UndisturbedSave
BY InitType, NextType, InitUndisturbed, NextUndisturbed, PTL DEF Spec
-----------------------------------------------------------------------------
(* The bystanders: aliases nobody has named. *)

LEMMA InitInv == Init => Inv
<1> SUFFICES ASSUME Init PROVE Inv
  OBVIOUS
<1>1. CommandNamed /\ MemoryKept
  BY DEF Init, CommandNamed, MemoryKept, Loaded
<1>2. BystandersKept
  BY DEF Init, BystandersKept, Kept
<1> QED
  BY <1>1, <1>2, InitType, InitUndisturbed DEF Inv

LEMMA StepCommandNamed ==
  ASSUME TypeOK, CommandNamed, NEW p \in Processes, Step(p)
  PROVE  CommandNamed'
<1> SUFFICES ASSUME NEW q \in Processes, pc'[q] # Idle
             PROVE  AliasesOf(cmd'[q]) \subseteq named'
  BY DEF CommandNamed, AliasesOf
<1>1. CASE q # p
  BY <1>1, OthersWait, HistoryGrows DEF CommandNamed
<1>2. CASE q = p /\ Start(p)
  BY <1>2 DEF Start
<1>3. CASE q = p /\ ~Start(p)
  <2>1. pc[p] # Idle /\ cmd' = cmd
    <3>1. CASE \/ Load(p) \/ LoadFails(p) \/ NothingToSave(p) \/ ChangeCollection(p)
               \/ StartSsh(p) \/ SshSucceeds(p) \/ SshFails(p)
      BY <3>1 DEF Load, LoadFails, NothingToSave, ChangeCollection, StartSsh, SshSucceeds, SshFails
    <3>2. CASE \/ TuiChange(p) \/ Quit(p) \/ DeleteRows(p) \/ InsertRow(p) \/ SaveEnds(p)
               \/ StatementFails(p) \/ Kill(p)
      BY <3>2 DEF TuiChange, Quit, DeleteRows, InsertRow, SaveEnds, StatementFails, Kill, Active
    <3> QED
      BY <1>3, <3>1, <3>2 DEF Step
  <2> QED
    BY <1>3, <2>1, HistoryGrows DEF CommandNamed
<1> QED
  BY <1>1, <1>2, <1>3

(* The process that steps keeps what it remembers of the bystanders. *)
LEMMA StepRemembers ==
  ASSUME Inv, NEW p \in Processes, Step(p), disturbed' = {}, pc'[p] \in Loaded,
         NEW b \in DOMAIN Stored \ named'
  PROVE  b \in DOMAIN collection'[p] /\ collection'[p][b] = Stored[b]
<1>1. TypeOK /\ disturbed = {} /\ b \notin named
  BY HistoryGrows DEF Inv, Types
<1>2. pc[p] \in Loaded => b \in DOMAIN collection[p] /\ collection[p][b] = Stored[b]
  BY <1>1 DEF Inv, MemoryKept, Remembers
<1>3. pc[p] # Idle => b \notin AliasesOf(cmd[p])
  BY <1>1 DEF Inv, CommandNamed
<1>4. CASE Start(p) \/ LoadFails(p) \/ NothingToSave(p) \/ SshFails(p) \/ Kill(p)
  BY <1>1, <1>4 DEF Start, LoadFails, NothingToSave, SshFails, Kill, Goto, Loaded, TypeOK
<1>5. CASE Load(p)
  <2>1. Writers = {} /\ collection'[p] = table
    BY <1>1, <1>5 DEF Load, TypeOK
  <2>2. Kept(b)
    BY <1>1, <2>1 DEF Inv, BystandersKept
  <2> QED
    BY <2>1, <2>2 DEF Kept
<1>6. CASE StartSsh(p) \/ Quit(p) \/ DeleteRows(p) \/ InsertRow(p) \/ SaveEnds(p)
           \/ StatementFails(p)
  BY <1>1, <1>2, <1>6 DEF StartSsh, Quit, DeleteRows, InsertRow, SaveEnds, StatementFails, Loaded
<1>7. CASE ChangeCollection(p) \/ SshSucceeds(p)
  <2>1. check_alias_exists(p) /\ pc[p] \in Loaded /\ collection'[p] = Changed(p)
    BY <1>1, <1>7, ConnectChecked DEF ChangeCollection, SshSucceeds, Inv, Types, Connecting, TypeOK,
                                      Loaded
  <2>2. b \in DOMAIN collection[p] \ AliasesOf(cmd[p])
    BY <1>2, <1>3, <2>1 DEF Loaded
  <2> QED
    BY <1>1, <1>2, <2>1, <2>2, ChangedType
<1>8. CASE TuiChange(p)
  <2>1. b \in DOMAIN collection[p] /\ collection[p][b] = Stored[b]
    BY <1>2, <1>8 DEF TuiChange, Loaded
  <2> DEFINE c == collection[p]
  <2>2. \A x, y, s : /\ b # x => b \in DOMAIN remove(c, x) /\ remove(c, x)[b] = Stored[b]
                     /\ b # x => b \in DOMAIN insert(c, x, s) /\ insert(c, x, s)[b] = Stored[b]
                     /\ b # x /\ b # y => /\ b \in DOMAIN insert(remove(c, x), y, s)
                                          /\ insert(remove(c, x), y, s)[b] = Stored[b]
    BY <2>1 DEF insert, remove
  <2>3. CASE \E x \in Aliases, h \in Hosts :
               /\ collection' = [collection EXCEPT ![p] = insert(@, x, NewServer(h))]
               /\ named' = named \cup {x}
    BY <1>1, <2>2, <2>3 DEF TypeOK
  <2>4. CASE \E x \in DOMAIN c, y \in Aliases, h \in Hosts :
               /\ collection' = [collection EXCEPT ![p] = insert(remove(@, x), y, NewServer(h))]
               /\ named' = named \cup {x, y}
    BY <1>1, <2>2, <2>4 DEF TypeOK
  <2>5. CASE \E x \in DOMAIN c :
               /\ \/ collection' = [collection EXCEPT ![p] = remove(@, x)]
                  \/ collection' =
                       [collection EXCEPT ![p] = insert(@, x, set_last_connect_now(@[x]))]
               /\ named' = named \cup {x}
    <3>1. PICK x \in DOMAIN c : /\ collection'[p] = remove(c, x)
                                   \/ collection'[p] = insert(c, x, set_last_connect_now(c[x]))
                                /\ named' = named \cup {x}
      BY <1>1, <2>5 DEF TypeOK
    <3>2. b # x
      BY <3>1
    <3>3. CASE collection'[p] = remove(c, x)
      BY <2>1, <3>2, <3>3 DEF remove
    <3>4. CASE collection'[p] = insert(c, x, set_last_connect_now(c[x]))
      BY <2>1, <3>2, <3>4 DEF insert
    <3> QED
      BY <3>1, <3>3, <3>4
  <2> QED
    BY <1>8, <2>3, <2>4, <2>5 DEF TuiChange
<1> QED
  BY <1>4, <1>5, <1>6, <1>7, <1>8 DEF Step

LEMMA StepMemoryKept ==
  ASSUME Inv, NEW p \in Processes, Step(p)
  PROVE  MemoryKept'
<1> SUFFICES ASSUME disturbed' = {}, NEW q \in Processes, pc'[q] \in Loaded,
                    NEW b \in DOMAIN Stored \ named'
             PROVE  b \in DOMAIN collection'[q] /\ collection'[q][b] = Stored[b]
  BY DEF MemoryKept, Remembers, Loaded
<1>1. CASE q = p
  BY <1>1, StepRemembers
<1>2. CASE q # p
  <2>1. pc'[q] = pc[q] /\ collection'[q] = collection[q]
    BY <1>2, OthersWait DEF Inv, Types
  <2>2. disturbed = {} /\ b \in DOMAIN Stored \ named
    BY HistoryGrows
  <2> QED
    BY <2>1, <2>2 DEF Inv, MemoryKept, Remembers
<1> QED
  BY <1>1, <1>2

LEMMA StepBystanders ==
  ASSUME Inv, NEW p \in Processes, Step(p)
  PROVE  BystandersKept'
<1> SUFFICES ASSUME disturbed' = {}, NEW b \in DOMAIN Stored \ named',
                    ~(b \in DOMAIN table' /\ table'[b] = Stored[b])
             PROVE  \E q \in Processes : pc'[q] \in Inserting /\ b \in left'[q]
  BY DEF BystandersKept, Kept, Writers
<1>1. TypeOK /\ disturbed = {} /\ b \in DOMAIN Stored \ named
  BY HistoryGrows DEF Inv, Types
<1>2. Kept(b) \/ \E q \in Writers : b \in left[q]
  BY <1>1 DEF Inv, BystandersKept
<1>3. CASE Calm(p)
  <2>1. PICK q \in Writers : b \in left[q]
    BY <1>2, <1>3 DEF Calm, Kept
  <2>2. q # p
    <3>1. SUFFICES ASSUME p \in Writers PROVE left[p] = {}
      BY <2>1
    <3>2. SaveEnds(p) \/ StatementFails(p) \/ Kill(p)
      BY <1>1, <1>3, <3>1 DEF Step, Calm, Writers, Start, Load, LoadFails, NothingToSave,
        ChangeCollection, StartSsh, SshSucceeds, SshFails, TuiChange, Quit, DeleteRows, InsertRow,
        TypeOK
    <3> QED
      BY <1>1, <3>1, <3>2 DEF SaveEnds, StatementFails, Kill, Writers
  <2>3. pc'[q] = pc[q] /\ left'[q] = left[q]
    BY <1>1, <2>1, <2>2, OthersWait DEF Writers
  <2> QED
    BY <2>1, <2>3 DEF Writers
<1>4. CASE DeleteRows(p)
  <2>1. b \in DOMAIN collection[p]
    BY <1>1, <1>4 DEF DeleteRows, Inv, MemoryKept, Remembers, Loaded
  <2>2. pc'[p] \in Inserting /\ left'[p] = DOMAIN collection[p]
    BY <1>1, <1>4 DEF DeleteRows, Goto, TypeOK
  <2> QED
    BY <2>1, <2>2
<1>5. CASE InsertRow(p)
  <2>1. Writers = {p} /\ pc' = pc
    BY <1>1, <1>5, StatementDisturbs DEF InsertRow, Writers
  <2>2. PICK a \in left[p] : /\ table' = insert(table, a, collection[p][a])
                             /\ left' = [left EXCEPT ![p] = @ \ {a}]
    BY <1>5 DEF InsertRow
  <2>3. collection[p][b] = Stored[b]
    BY <1>1, <1>5 DEF InsertRow, Inv, MemoryKept, Remembers, Loaded
  <2>4. b # a /\ ~Kept(b)
    BY <2>2, <2>3 DEF insert, Kept
  <2>5. b \in left[p] /\ left'[p] = left[p] \ {a}
    BY <1>1, <1>2, <2>1, <2>2, <2>4 DEF TypeOK
  <2> QED
    BY <2>1, <2>4, <2>5 DEF Writers
<1> QED
  BY <1>3, <1>4, <1>5, StepsByKind

LEMMA NextInv == Inv /\ [Next]_vars => Inv'
<1> SUFFICES ASSUME Inv, [Next]_vars PROVE Inv'
  OBVIOUS
<1>1. Types' /\ UndisturbedSave'
  BY NextType, NextUndisturbed DEF Inv
<1>2. CASE \E p \in Processes : Step(p)
  BY <1>1, <1>2, StepCommandNamed, StepMemoryKept, StepBystanders DEF Inv, Types
<1>3. CASE UNCHANGED vars
  BY <1>1, <1>3 DEF Inv, CommandNamed, AliasesOf, MemoryKept, Remembers, BystandersKept, Kept,
                    Writers, vars
<1> QED
  BY <1>2, <1>3 DEF Next, Finished

(* As long as no process reads or writes into the middle of another's save,  *)
(* and no load or save is cut, an alias that nobody has named is never lost  *)
(* or altered, however many processes load, change and save the whole        *)
(* collection one after the other.                                           *)
THEOREM BystandersAreKept == Spec => []BystandersKept
<1>1. Inv => BystandersKept
  BY DEF Inv
<1> QED
  BY InitInv, NextInv, <1>1, PTL DEF Spec

-----------------------------------------------------------------------------
(***************************************************************************)
(* The store implements AliasMap. Alone: when no two processes overlap,    *)
(* the one that runs finds in the table the first aliases of its           *)
(* collection, as far as its save has come.                                *)
(***************************************************************************)

Alone ==
  /\ session = "closed" => Active = {}
  /\ session = "open" => \E p \in Processes : Active = {p}
  /\ \A p \in Processes : pc[p] = Idle => collection[p] = Nothing
  /\ session = "open" => \A p \in Writers :
       /\ table = [a \in DOMAIN collection[p] \ left[p] |-> collection[p][a]]
       /\ \A a \in left[p], b \in DOMAIN collection[p] \ left[p] : b < a

\* A set of aliases that is not empty has a least one.
Less == {ss \in Nat \X Nat : ss[1] < ss[2]}

LEMMA LeastAlias ==
  ASSUME NEW S \in SUBSET Aliases, S # {}
  PROVE  \E n \in S : \A m \in S : n =< m
<1>1. IsWellFoundedOn(Less, Nat)
  BY NatLessThanWellFounded DEF OpToRel, Less
<1>2. S \subseteq Nat
  BY AliasesAssumption
<1>3. PICK n \in S : \A m \in S : ~(<<m, n>> \in Less)
  BY <1>1, <1>2, WFMin
<1>4. \A m \in S : ~(m < n)
  BY <1>2, <1>3 DEF Less
<1>. QED  BY <1>2, <1>4

LEMMA GotoActive ==
  ASSUME TypeOK, NEW p \in Processes, NEW at, Goto(p, at)
  PROVE  /\ Active' = IF at \in Busy THEN Active \cup {p} ELSE Active \ {p}
         /\ session' = IF Active' = {} THEN "closed"
                       ELSE IF session # "shared" /\ Active' = {p} THEN "open"
                       ELSE "shared"
<1>1. pc' = [pc EXCEPT ![p] = at] /\ pc'[p] = at
  BY DEF Goto, TypeOK
<1>2. Active' = IF at \in Busy THEN Active \cup {p} ELSE Active \ {p}
  <2>1. \A q \in Processes : q # p => pc'[q] = pc[q]
    BY <1>1 DEF TypeOK
  <2>2. CASE at \in Busy
    BY <1>1, <2>1, <2>2 DEF Active
  <2>3. CASE at \notin Busy
    BY <1>1, <2>1, <2>3 DEF Active
  <2>. QED  BY <2>2, <2>3
<1>. QED  BY <1>2 DEF Goto

\* Every step moves its process by Goto, but for an INSERT.
LEMMA StepMoves ==
  ASSUME NEW p \in Processes, Step(p)
  PROVE  \/ \E at : Goto(p, at)
         \/ InsertRow(p)
<1>1. CASE \/ Start(p) \/ Load(p) \/ LoadFails(p) \/ NothingToSave(p) \/ ChangeCollection(p)
           \/ StartSsh(p) \/ SshSucceeds(p) \/ SshFails(p)
  BY <1>1 DEF Start, Load, LoadFails, NothingToSave, ChangeCollection, StartSsh, SshSucceeds,
              SshFails
<1>2. CASE \/ TuiChange(p) \/ Quit(p) \/ DeleteRows(p) \/ SaveEnds(p) \/ StatementFails(p)
           \/ Kill(p)
  BY <1>2 DEF TuiChange, Quit, DeleteRows, SaveEnds, StatementFails, Kill
<1>. QED  BY <1>1, <1>2 DEF Step

\* What a step does to the sessions.
LEMMA StepSession ==
  ASSUME Types, Alone, NEW p \in Processes, Step(p)
  PROVE  /\ session' = "closed" => Active' = {}
         /\ session' = "open" => Active' = {p} \/ (session = "open" /\ Active' = Active)
         /\ session' = "open" => session # "shared"
         /\ session = "shared" => session' \in {"shared", "closed"}
<1>1. CASE \E at : Goto(p, at)
  BY <1>1, GotoActive DEF Types
<1>2. CASE InsertRow(p)
  <2>1. UNCHANGED <<pc, session>> /\ p \in Active
    BY <1>2 DEF InsertRow, Active
  <2>2. Active' = Active
    BY <2>1 DEF Active
  <2>3. session \in {"closed", "open", "shared"}
    BY DEF Types, TypeOK
  <2>. QED  BY <2>1, <2>2, <2>3 DEF Alone
<1>. QED  BY <1>1, <1>2, StepMoves

LEMMA AloneInit == Init => Alone
BY DEF Init, Alone, Active, Writers

LEMMA AloneStep ==
  ASSUME Types, Alone, NEW p \in Processes, Step(p)
  PROVE  Alone'
<1>0. TypeOK
  BY DEF Types
<1>1. session' = "closed" => Active' = {}
  BY StepSession
<1>2. session' = "open" => \E q \in Processes : Active' = {q}
  BY StepSession DEF Alone
<1>3. ASSUME NEW q \in Processes, pc'[q] = Idle
      PROVE  collection'[q] = Nothing
  <2>1. q # p
    <3>1. CASE Calm(p)
      BY <1>0, <1>3, <3>1 DEF Calm, TypeOK
    <3>2. CASE DeleteRows(p)
      BY <1>0, <1>3, <3>2 DEF DeleteRows, Goto, TypeOK
    <3>3. CASE InsertRow(p)
      BY <1>3, <3>3 DEF InsertRow
    <3>. QED  BY <3>1, <3>2, <3>3, StepsByKind
  <2>. QED  BY <1>0, <1>3, <2>1, OthersWait DEF Alone
<1>4. ASSUME session' = "open", NEW q \in Writers'
      PROVE  /\ table' = [a \in DOMAIN collection'[q] \ left'[q] |-> collection'[q][a]]
             /\ \A a \in left'[q], b \in DOMAIN collection'[q] \ left'[q] : b < a
  <2>1. q \in Processes /\ pc'[q] \in Inserting /\ q \in Active'
    BY <1>4 DEF Writers, Active
  <2>2. CASE Calm(p)
    <3>1. q # p
      BY <1>0, <2>1, <2>2 DEF Calm, TypeOK
    <3>2. session = "open" /\ Active' = Active
      BY <1>4, <2>1, <3>1, StepSession
    <3>3. /\ pc[q] = pc'[q] /\ left'[q] = left[q] /\ collection'[q] = collection[q]
      BY <1>0, <2>1, <3>1, OthersWait
    <3>4. q \in Writers /\ table' = table
      BY <2>1, <2>2, <3>3 DEF Calm, Writers
    <3>. QED  BY <3>2, <3>3, <3>4 DEF Alone
  <2>3. CASE DeleteRows(p)
    <3>1. q = p
      <4>1. pc[p] \in Busy /\ pc'[p] \in Busy
        BY <1>0, <2>3 DEF DeleteRows, Goto, TypeOK
      <4>2. p \in Active'
        BY <4>1 DEF Active
      <4>. QED  BY <1>2, <1>4, <2>1, <4>2
    <3>2. table' = Nothing /\ left'[p] = DOMAIN collection'[p]
      BY <1>0, <2>3 DEF DeleteRows, TypeOK
    <3>. QED  BY <3>1, <3>2 DEF Nothing
  <2>4. CASE InsertRow(p)
    <3>1. pc' = pc /\ session' = session /\ collection' = collection
      BY <2>4 DEF InsertRow
    <3>2. q = p
      <4>1. p \in Active'
        BY <2>4, <3>1 DEF InsertRow, Active
      <4>. QED  BY <1>2, <1>4, <2>1, <4>1
    <3>3. /\ table = [a \in DOMAIN collection[p] \ left[p] |-> collection[p][a]]
          /\ \A a \in left[p], b \in DOMAIN collection[p] \ left[p] : b < a
      BY <1>4, <2>1, <3>1, <3>2 DEF Alone, Writers
    <3>4. PICK a \in left[p] : /\ \A b \in left[p] : a =< b
                               /\ table' = insert(table, a, collection[p][a])
                               /\ left' = [left EXCEPT ![p] = @ \ {a}]
      BY <2>4 DEF InsertRow
    <3>5. left'[p] = left[p] \ {a} /\ a \in DOMAIN collection[p]
      BY <1>0, <3>4 DEF TypeOK
    <3>6. DOMAIN table \cup {a} = DOMAIN collection[p] \ left'[p]
      BY <3>3, <3>5
    <3>7. table' = [b \in DOMAIN collection[p] \ left'[p] |-> collection[p][b]]
      BY <3>3, <3>4, <3>5, <3>6 DEF insert
    <3>8. left[p] \subseteq Nat /\ DOMAIN collection[p] \subseteq Nat
      BY <1>0, AliasesAssumption, CollectionDomain DEF TypeOK
    <3>9. ASSUME NEW b \in left'[p], NEW c \in DOMAIN collection[p] \ left'[p]
          PROVE  c < b
      <4>1. CASE c = a
        BY <3>4, <3>5, <3>8, <3>9, <4>1
      <4>2. CASE c # a
        BY <3>3, <3>5, <3>9, <4>2
      <4>. QED  BY <4>1, <4>2
    <3>. QED  BY <3>1, <3>2, <3>7, <3>9
  <2>. QED  BY <2>2, <2>3, <2>4, StepsByKind
<1>. QED  BY <1>1, <1>2, <1>3, <1>4 DEF Alone

LEMMA AloneNext == Types /\ Alone /\ [Next]_vars => Alone'
<1>1. Alone /\ UNCHANGED vars => Alone'
  BY DEF Alone, Active, Writers, vars
<1>. QED  BY <1>1, AloneStep DEF Next, Finished

\* The refinement mapping, by name.
Map == IF session = "open" /\ Writers # {} THEN collection[Holder] ELSE table
View == IF session = "open" THEN collection[Holder] ELSE Nothing
Session == IF session = "open" /\ Writers # {} THEN "storing" ELSE session

LEMMA MapInit == Init => Atomic!Init
<1>. SUFFICES ASSUME Init PROVE Atomic!Init
  OBVIOUS
<1>1. table \in Collections /\ session = "closed"
  BY StoredAssumption DEF Init
<1>. QED  BY <1>1 DEF Atomic!Init, Atomic!Collections, Atomic!Nothing, Collections, Nothing

LEMMA MapStutters ==
  ASSUME Map' = Map, View' = View, Session' = Session
  PROVE  [Atomic!Next]_(Atomic!amvars)
BY DEF Atomic!amvars, Map, View, Session

LEMMA MapOpens ==
  ASSUME Session = "closed", Session' = "open", Map' = Map, View' = View
  PROVE  Atomic!Next
BY DEF Atomic!Next, Atomic!Open, Map, View, Session

LEMMA MapReads ==
  ASSUME Session = "open", Session' = "open", Map' = Map, View' = Map
  PROVE  Atomic!Next
BY DEF Atomic!Next, Atomic!Read, Map, View, Session

LEMMA MapChanges ==
  ASSUME Session = "open", Session' = "open", Map' = Map,
         NEW a \in Aliases, NEW b \in Aliases, NEW s \in Server,
         View' = remove(View, a) \/ View' = insert(remove(View, a), b, s)
  PROVE  Atomic!Next
<1>1. View' \in {Atomic!Without(View, a), Atomic!With(Atomic!Without(View, a), b, s)}
  BY DEF Atomic!Without, Atomic!With, remove, insert
<1>2. Atomic!Change
  BY <1>1 DEF Atomic!Change, Map, View, Session
<1>. QED  BY <1>2 DEF Atomic!Next

LEMMA MapStores ==
  ASSUME Session = "open", Session' = "storing", Map' = View, View' = View
  PROVE  Atomic!Next
BY DEF Atomic!Next, Atomic!Store, Map, View, Session

LEMMA MapCommits ==
  ASSUME Session = "storing", Session' = "open", Map' = Map, View' = View
  PROVE  Atomic!Next
BY DEF Atomic!Next, Atomic!Commit, Map, View, Session

\* What a save that is cut leaves behind.
TornOf(c, t) == t = c \/ \E n \in Aliases : t = [b \in {x \in DOMAIN c : x < n} |-> c[b]]

LEMMA MapTears ==
  ASSUME Session = "storing", Session' = "open", TornOf(View, Map'), View' = View
  PROVE  Atomic!Next
BY DEF Atomic!Next, Atomic!Tear, Atomic!Torn, Atomic!Below, TornOf, Map, View, Session

LEMMA MapCloses ==
  ASSUME Session \in {"open", "storing"}, Session' = "closed", View' = Nothing,
         Map' = Map \/ (Session = "storing" /\ TornOf(View, Map'))
  PROVE  Atomic!Next
BY DEF Atomic!Next, Atomic!Close, Atomic!Torn, Atomic!Below, Atomic!Nothing, Nothing, TornOf,
       Map, View, Session

LEMMA MapOverlaps ==
  ASSUME Session' = "shared" \/ (Session = "shared" /\ Session' = "closed"),
         Map' \in Collections, View' = Nothing
  PROVE  Atomic!Next
BY DEF Atomic!Next, Atomic!Overlap, Atomic!Collections, Atomic!Nothing, Collections, Nothing,
       Map, View, Session

\* What AliasMap sees when p is the only process, before and after a step.
LEMMA SeenNow ==
  ASSUME session = "open", NEW p \in Processes, Active = {p}
  PROVE  /\ View = collection[p]
         /\ pc[p] \in Inserting => Map = collection[p] /\ Session = "storing"
         /\ pc[p] \notin Inserting => Map = table /\ Session = "open"
         /\ pc[p] \in Busy
<1>1. Holder = p
  BY DEF Holder
<1>2. Writers # {} <=> pc[p] \in Inserting
  BY DEF Writers, Active
<1>. QED  BY <1>1, <1>2 DEF View, Map, Session, Active

LEMMA SeenNext ==
  ASSUME session' = "open", NEW p \in Processes, Active' = {p}
  PROVE  /\ View' = collection'[p]
         /\ pc'[p] \in Inserting => Map' = collection'[p] /\ Session' = "storing"
         /\ pc'[p] \notin Inserting => Map' = table' /\ Session' = "open"
<1>1. Holder' = p
  BY DEF Holder
<1>2. Writers' # {} <=> pc'[p] \in Inserting
  BY DEF Writers, Active
<1>. QED  BY <1>1, <1>2 DEF View, Map, Session

\* A session of AliasMap goes on, or closes: what the step does to its parts.
Seen(p) ==
  \/ session' = "open" /\ Active' = {p}
  \/ session' = "closed" /\ Map' = table' /\ View' = Nothing /\ Session' = "closed"

LEMMA AloneSeen ==
  ASSUME Types, Alone, NEW p \in Processes, Step(p), session = "open", session' # "shared"
  PROVE  Active = {p} /\ Seen(p)
<1>0. TypeOK /\ session' \in {"open", "closed"}
  <2>1. CASE \E at : Goto(p, at)
    BY <2>1, GotoSession DEF Types
  <2>2. CASE InsertRow(p)
    BY <2>2 DEF InsertRow, Types
  <2>. QED  BY <2>1, <2>2, StepMoves DEF Types
<1>1. PICK q \in Processes : Active = {q}
  BY DEF Alone
<1>2. p = q
  <2>. SUFFICES ASSUME p # q PROVE FALSE
    OBVIOUS
  <2>1. pc[p] \notin Busy
    BY <1>1 DEF Active
  <2>2. Start(p)
    BY <2>1 DEF Step, Load, LoadFails, NothingToSave, ChangeCollection, StartSsh, SshSucceeds,
      SshFails, TuiChange, Quit, DeleteRows, InsertRow, SaveEnds, StatementFails, Kill, Active
  <2>3. Goto(p, "load") /\ "load" \in Busy
    BY <2>2 DEF Start
  <2>4. Active' = Active \cup {p} /\ Active' # {} /\ Active' # {p}
    BY <1>0, <1>1, <2>3, GotoActive
  <2>. QED  BY <1>0, <2>3, <2>4, GotoActive
<1>3. CASE session' = "closed"
  BY <1>1, <1>2, <1>3 DEF Seen, Map, View, Session
<1>4. CASE session' = "open"
  BY <1>1, <1>2, <1>4, StepSession DEF Seen
<1>. QED  BY <1>0, <1>1, <1>2, <1>3, <1>4

LEMMA SharedRefines ==
  ASSUME Types, Types', Alone, NEW p \in Processes, Step(p),
         session = "shared" \/ session' = "shared"
  PROVE  Atomic!Next
<1>1. session' \in {"shared", "closed"}
  BY StepSession
<1>2. Map' = table' /\ View' = Nothing /\ Session' = session'
  BY <1>1 DEF Map, View, Session
<1>3. table' \in Collections
  BY DEF Types, TypeOK
<1>4. session = "shared" => Session = "shared"
  BY DEF Session
<1>. QED  BY <1>1, <1>2, <1>3, <1>4, MapOverlaps

LEMMA OpenRefines ==
  ASSUME Types, Alone, NEW p \in Processes, Step(p),
         session = "closed", session' # "shared"
  PROVE  Atomic!Next
<1>1. TypeOK /\ Active = {} /\ pc[p] \notin Busy
  BY DEF Types, Alone, Active
<1>2. Start(p)
  BY <1>1 DEF Step, Load, LoadFails, NothingToSave, ChangeCollection, StartSsh, SshSucceeds,
    SshFails, TuiChange, Quit, DeleteRows, InsertRow, SaveEnds, StatementFails, Kill
<1>3. Goto(p, "load") /\ "load" \in Busy /\ pc'[p] = "load"
  BY <1>1, <1>2 DEF Start, Goto, TypeOK
<1>4. Active' = {p} /\ session' = "open"
  BY <1>1, <1>3, GotoActive
<1>5. collection[p] = Nothing /\ collection' = collection /\ table' = table
  BY <1>2 DEF Start, Alone
<1>6. Session = "closed" /\ Map = table /\ View = Nothing
  BY DEF Session, Map, View
<1>7. Session' = "open" /\ Map' = table /\ View' = Nothing
  BY <1>3, <1>4, <1>5, SeenNext
<1>. QED  BY <1>6, <1>7, MapOpens

\* Loads, changes and whatever else leaves the table alone outside a save.
LEMMA QuietRefines ==
  ASSUME Types, Alone, NEW p \in Processes, session = "open", Active = {p}, Seen(p), Step(p),
         \/ Start(p) \/ Load(p) \/ LoadFails(p) \/ NothingToSave(p) \/ StartSsh(p)
         \/ SshFails(p) \/ Quit(p)
  PROVE  [Atomic!Next]_(Atomic!amvars)
<1>0. TypeOK /\ pc[p] \in Busy
  BY SeenNow DEF Types
<1>1. pc[p] \notin Inserting /\ pc'[p] \notin Inserting /\ table' = table
  BY <1>0 DEF Start, Load, LoadFails, NothingToSave, StartSsh, SshFails, Quit, Goto, TypeOK
<1>2. Session = "open" /\ Map = table /\ View = collection[p]
  BY <1>1, SeenNow
<1>3. CASE session' = "closed"
  <2>1. Session' = "closed" /\ Map' = Map /\ View' = Nothing
    BY <1>1, <1>2, <1>3 DEF Seen
  <2>. QED  BY <1>2, <2>1, MapCloses
<1>4. CASE session' = "open" /\ Active' = {p}
  <2>1. Session' = "open" /\ Map' = Map /\ View' = collection'[p]
    BY <1>1, <1>2, <1>4, SeenNext
  <2>2. CASE Load(p)
    <3>1. View' = Map
      BY <1>0, <1>2, <2>1, <2>2 DEF Load, TypeOK
    <3>. QED  BY <1>2, <2>1, <3>1, MapReads
  <2>3. CASE ~Load(p)
    <3>1. View' = View
      BY <1>2, <2>1, <2>3 DEF Start, LoadFails, NothingToSave, StartSsh, SshFails, Quit
    <3>. QED  BY <1>2, <2>1, <3>1, MapStutters
  <2>. QED  BY <2>2, <2>3
<1>. QED  BY <1>3, <1>4 DEF Seen

\* A change of the collection is a Change of the view.
LEMMA InsertAnew ==
  ASSUME NEW c, NEW a, NEW s
  PROVE  insert(c, a, s) = insert(remove(c, a), a, s)
BY DEF insert, remove

LEMMA ChangeRefines ==
  ASSUME Types, Alone, NEW p \in Processes, session = "open", Active = {p}, Seen(p), Step(p),
         ChangeCollection(p) \/ SshSucceeds(p) \/ TuiChange(p)
  PROVE  [Atomic!Next]_(Atomic!amvars)
<1>. DEFINE c == collection[p]
<1>0. TypeOK /\ c \in Collections /\ cmd[p] \in Commands
  BY DEF Types, TypeOK
<1>1. /\ pc[p] \notin Inserting /\ pc'[p] = "delete" /\ table' = table
      /\ Goto(p, "delete")
  BY <1>0 DEF ChangeCollection, SshSucceeds, TuiChange, Goto, TypeOK
<1>2. session' = "open" /\ Active' = {p}
  BY <1>0, <1>1, GotoActive DEF Seen
<1>3. Session = "open" /\ Map = table /\ View = c
  BY <1>1, SeenNow
<1>4. Session' = "open" /\ Map' = Map /\ View' = collection'[p]
  BY <1>1, <1>2, <1>3, SeenNext
<1>5. \E a, b \in Aliases, s \in Server :
        collection'[p] = remove(c, a) \/ collection'[p] = insert(remove(c, a), b, s)
  <2>1. CASE ChangeCollection(p) \/ SshSucceeds(p)
    <3>1. collection'[p] = Changed(p)
      BY <1>0, <2>1 DEF ChangeCollection, SshSucceeds, TypeOK
    <3>2. /\ cmd[p].op \in {"create", "rename", "remove", "connect"}
          /\ cmd[p].op # "create" => cmd[p].alias \in DOMAIN c
      <4>1. CASE ChangeCollection(p)
        BY <1>0, <4>1, CommandFields DEF ChangeCollection, check_alias_exists
      <4>2. CASE SshSucceeds(p)
        BY <1>0, <4>2 DEF SshSucceeds, Types, Connecting
      <4>. QED  BY <2>1, <4>1, <4>2
    <3>3. cmd[p].alias \in Aliases
      BY <1>0, <3>2, CommandFields
    <3>4. CASE cmd[p].op = "create"
      <4>1. Changed(p) = insert(remove(c, cmd[p].alias), cmd[p].alias, NewServer(cmd[p].host))
        BY <3>4, InsertAnew DEF Changed
      <4>2. NewServer(cmd[p].host) \in Server
        BY <1>0, <3>4, CommandFields, ServerTypes
      <4>. QED  BY <3>1, <3>3, <4>1, <4>2
    <3>5. CASE cmd[p].op = "rename"
      <4>1. Changed(p) = insert(remove(c, cmd[p].alias), cmd[p].to, c[cmd[p].alias])
        BY <3>5 DEF Changed
      <4>2. c[cmd[p].alias] \in Server /\ cmd[p].to \in Aliases
        BY <1>0, <3>2, <3>5, CommandFields, CollectionDomain
      <4>. QED  BY <3>1, <3>3, <4>1, <4>2
    <3>6. CASE cmd[p].op = "remove"
      <4>1. Changed(p) = remove(c, cmd[p].alias)
        BY <3>6 DEF Changed
      <4>2. c[cmd[p].alias] \in Server
        BY <1>0, <3>2, <3>6, CollectionDomain
      <4>. QED  BY <3>1, <3>3, <4>1, <4>2
    <3>7. CASE cmd[p].op = "connect"
      <4>1. Changed(p) = insert(remove(c, cmd[p].alias), cmd[p].alias,
                                set_last_connect_now(c[cmd[p].alias]))
        BY <3>7, InsertAnew DEF Changed
      <4>2. set_last_connect_now(c[cmd[p].alias]) \in Server
        BY <1>0, <3>2, <3>7, CollectionDomain, ServerTypes
      <4>. QED  BY <3>1, <3>3, <4>1, <4>2
    <3>. QED  BY <3>2, <3>4, <3>5, <3>6, <3>7
  <2>2. CASE TuiChange(p)
    <3>1. \/ \E a \in Aliases, h \in Hosts : collection'[p] = insert(c, a, NewServer(h))
          \/ \E a \in DOMAIN c, b \in Aliases, h \in Hosts :
               collection'[p] = insert(remove(c, a), b, NewServer(h))
          \/ \E a \in DOMAIN c :
               \/ collection'[p] = remove(c, a)
               \/ collection'[p] = insert(c, a, set_last_connect_now(c[a]))
      BY <1>0, <2>2 DEF TuiChange, TypeOK
    <3>2. CASE \E a \in Aliases, h \in Hosts : collection'[p] = insert(c, a, NewServer(h))
      BY <3>2, InsertAnew, ServerTypes
    <3>3. CASE \E a \in DOMAIN c, b \in Aliases, h \in Hosts :
                 collection'[p] = insert(remove(c, a), b, NewServer(h))
      <4>1. PICK a \in DOMAIN c, b \in Aliases, h \in Hosts :
              collection'[p] = insert(remove(c, a), b, NewServer(h))
        BY <3>3
      <4>2. a \in Aliases /\ NewServer(h) \in Server
        BY <1>0, CollectionDomain, ServerTypes
      <4>. QED  BY <4>1, <4>2
    <3>4. CASE \E a \in DOMAIN c :
                 \/ collection'[p] = remove(c, a)
                 \/ collection'[p] = insert(c, a, set_last_connect_now(c[a]))
      <4>1. PICK a \in DOMAIN c :
              \/ collection'[p] = remove(c, a)
              \/ collection'[p] = insert(c, a, set_last_connect_now(c[a]))
        BY <3>4
      <4>2. a \in Aliases /\ set_last_connect_now(c[a]) \in Server
        BY <1>0, CollectionDomain, ServerTypes
      <4>. QED  BY <4>1, <4>2, InsertAnew
    <3>. QED  BY <3>1, <3>2, <3>3, <3>4
  <2>. QED  BY <2>1, <2>2
<1>. QED  BY <1>3, <1>4, <1>5, MapChanges

\* What a save has written when it ends, or is cut.
LEMMA SavedSoFar ==
  ASSUME Types, Alone, NEW p \in Processes, session = "open", pc[p] \in Inserting
  PROVE  /\ left[p] = {} => table = collection[p]
         /\ TornOf(collection[p], table)
<1>. DEFINE c == collection[p]
<1>1. /\ c \in Collections /\ DOMAIN c \subseteq Aliases
      /\ left[p] \subseteq DOMAIN c
  BY CollectionDomain DEF Types, TypeOK
<1>2. /\ table = [a \in DOMAIN c \ left[p] |-> c[a]]
      /\ \A a \in left[p], b \in DOMAIN c \ left[p] : b < a
  BY DEF Alone, Writers
<1>3. left[p] = {} => table = c
  <2>1. c = [a \in DOMAIN c |-> c[a]]
    BY <1>1 DEF Collections
  <2>. QED  BY <1>2, <2>1
<1>4. CASE left[p] # {}
  <2>1. PICK n \in left[p] : \A m \in left[p] : n =< m
    BY <1>1, <1>4, LeastAlias
  <2>2. DOMAIN c \ left[p] = {x \in DOMAIN c : x < n}
    <3>1. ASSUME NEW x \in DOMAIN c
          PROVE  x \notin left[p] <=> x < n
      <4>1. x \in Nat /\ n \in Nat
        BY <1>1, AliasesAssumption
      <4>. QED  BY <1>2, <2>1, <4>1
    <3>. QED  BY <3>1
  <2>3. table = [b \in {x \in DOMAIN c : x < n} |-> c[b]]
    BY <1>2, <2>2
  <2>4. n \in Aliases
    BY <1>1, <2>1
  <2>. QED  BY <1>4, <2>3, <2>4 DEF TornOf
<1>. QED  BY <1>3, <1>4 DEF TornOf

LEMMA SaveRefines ==
  ASSUME Types, Alone, NEW p \in Processes, session = "open", Active = {p}, Seen(p), Step(p),
         DeleteRows(p) \/ InsertRow(p) \/ SaveEnds(p) \/ StatementFails(p) \/ Kill(p)
  PROVE  [Atomic!Next]_(Atomic!amvars)
<1>0. TypeOK /\ View = collection[p] /\ collection' = collection
  BY SeenNow DEF Types, DeleteRows, InsertRow, SaveEnds, StatementFails, Kill
<1>1. CASE DeleteRows(p)
  <2>1. pc[p] \notin Inserting /\ pc'[p] \in Inserting
    BY <1>0, <1>1 DEF DeleteRows, Goto, TypeOK
  <2>2. session' = "open" /\ Active' = {p}
    <3>1. p \in Active'
      BY <2>1 DEF Active
    <3>2. Goto(p, pc'[p])
      BY <1>0, <1>1, <2>1 DEF DeleteRows, Goto, TypeOK
    <3>. QED  BY <1>0, <3>1, <3>2, GotoActive DEF Seen
  <2>3. Session = "open" /\ Session' = "storing" /\ Map' = View /\ View' = View
    BY <1>0, <2>1, <2>2, SeenNow, SeenNext
  <2>. QED  BY <2>3, MapStores
<1>2. CASE InsertRow(p)
  <2>1. pc[p] \in Inserting /\ pc' = pc /\ session' = "open"
    BY <1>2 DEF InsertRow
  <2>2. Active' = {p}
    BY <2>1 DEF Active
  <2>3. Session' = Session /\ Map' = Map /\ View' = View
    BY <1>0, <2>1, <2>2, SeenNow, SeenNext
  <2>. QED  BY <2>3, MapStutters
<1>3. CASE SaveEnds(p) \/ StatementFails(p) \/ Kill(p)
  <2>1. table' = table /\ pc'[p] \notin Inserting
    BY <1>0, <1>3 DEF SaveEnds, StatementFails, Kill, Goto, TypeOK
  <2>2. CASE pc[p] \in Inserting
    <3>1. Session = "storing" /\ Map = collection[p]
      BY <2>2, SeenNow
    <3>2. TornOf(View, table') /\ (SaveEnds(p) => table' = Map)
      BY <1>0, <2>1, <2>2, <3>1, SavedSoFar DEF SaveEnds
    <3>3. CASE session' = "closed"
      <4>1. Session' = "closed" /\ Map' = table' /\ View' = Nothing
        BY <3>3 DEF Seen
      <4>. QED  BY <3>1, <3>2, <4>1, MapCloses
    <3>4. CASE session' = "open" /\ Active' = {p}
      <4>1. Session' = "open" /\ Map' = table' /\ View' = View
        BY <1>0, <2>1, <3>4, SeenNext
      <4>. QED  BY <3>1, <3>2, <4>1, MapTears
    <3>. QED  BY <3>3, <3>4 DEF Seen
  <2>3. CASE pc[p] \notin Inserting
    <3>1. Session = "open" /\ Map = table
      BY <2>3, SeenNow
    <3>2. CASE session' = "closed"
      <4>1. Session' = "closed" /\ Map' = Map /\ View' = Nothing
        BY <2>1, <3>1, <3>2 DEF Seen
      <4>. QED  BY <3>1, <4>1, MapCloses
    <3>3. CASE session' = "open" /\ Active' = {p}
      <4>1. Session' = Session /\ Map' = Map /\ View' = View
        BY <1>0, <2>1, <3>1, <3>3, SeenNext
      <4>. QED  BY <4>1, MapStutters
    <3>. QED  BY <3>2, <3>3 DEF Seen
  <2>. QED  BY <2>2, <2>3
<1>. QED  BY <1>1, <1>2, <1>3

LEMMA MapStep ==
  ASSUME Types, Types', Alone, [Next]_vars
  PROVE  [Atomic!Next]_(Atomic!amvars)
<1>1. CASE UNCHANGED vars
  <2>1. Map' = Map /\ View' = View /\ Session' = Session
    BY <1>1 DEF vars, Map, View, Session, Holder, Active, Writers
  <2>. QED  BY <2>1, MapStutters
<1>2. ASSUME NEW p \in Processes, Step(p)
      PROVE  [Atomic!Next]_(Atomic!amvars)
  <2>1. CASE session = "shared" \/ session' = "shared"
    BY <1>2, <2>1, SharedRefines
  <2>2. CASE session = "closed" /\ session' # "shared"
    BY <1>2, <2>2, OpenRefines
  <2>3. CASE session = "open" /\ session' # "shared"
    <3>1. Active = {p} /\ Seen(p)
      BY <1>2, <2>3, AloneSeen
    <3>. QED  BY <1>2, <2>3, <3>1, QuietRefines, ChangeRefines, SaveRefines DEF Step
  <2>. QED  BY <2>1, <2>2, <2>3 DEF Types, TypeOK
<1>. QED  BY <1>1, <1>2 DEF Next, Finished

(* The alias store is an AliasMap: processes that do not overlap see one map,*)
(* changed whole, or, when a save is cut by a failure or a kill, cut off at  *)
(* an alias.                                                                 *)
THEOREM StoreImplementsMap == Spec => ImplementsMap
BY InitType, NextType, AloneInit, AloneNext, MapInit, MapStep, PTL
   DEF Spec, ImplementsMap, Atomic!Spec

=============================================================================
