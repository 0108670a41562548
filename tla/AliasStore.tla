----------------------------- MODULE AliasStore -----------------------------
(* The alias store of hp: the table `servers` of server.db and the processes *)
(* that load it into a ServerCollection, change the collection and write all *)
(* of it back (server.rs, commands.rs, main.rs, app.rs, tui.rs). A process   *)
(* is one invocation of hp. Every SQL statement is a transaction of its own: *)
(* a save is a DELETE followed by one INSERT for each alias, in alias order. *)
EXTENDS Naturals, FiniteSets
CONSTANTS Processes,   \* the invocations of hp
          Aliases,     \* alias names, as the numbers of their alphabetical order
          Hosts,       \* what a server is reached by: user, address and port
          Stored,      \* the table at the start
          MaxChanges,  \* bound: changes made in one terminal session
          MaxFaults    \* bound: failed loads and statements, kills

Server == [host : Hosts, last_connect : {"never", "now"}]
Collections == UNION {[D -> Server] : D \in SUBSET Aliases}

ASSUME AliasesAssumption == Aliases \subseteq Nat
ASSUME StoredAssumption == Stored \in Collections
ASSUME BoundsAssumption == MaxChanges \in Nat /\ MaxFaults \in Nat

Commands ==
  [op : {"create"}, alias : Aliases, host : Hosts]
  \cup [op : {"rename"}, alias : Aliases, to : Aliases]
  \cup [op : {"remove", "connect"}, alias : Aliases]
  \cup [op : {"list", "tui"}]

VARIABLES
  table,       \* the rows of `servers`
  cmd, pc,     \* each process's command and where it is
  collection,  \* each process's ServerCollection
  left,        \* aliases its save has still to insert
  changes,     \* changes made so far in its terminal session
  faults,      \* how often something has failed
  session,     \* history: "shared" from an overlap on until no process runs
  disturbed,   \* history: processes that read or wrote into another's save,
               \* or whose load or save was cut
  named        \* history: aliases a command or a session has named

vars == <<table, cmd, pc, collection, left, changes, faults, session, disturbed, named>>

Idle == "idle"
Ended == {"done", "failed", "killed"}
Busy == {"load", "change", "ssh", "tui", "delete", "insert", "quitting", "rewrite"}
\* A terminal session's last save goes through "quitting" (before its DELETE)
\* and "rewrite" (its INSERTs); every other save through "delete" and "insert".
Saving == {"delete", "quitting"}
Inserting == {"insert", "rewrite"}
Active == {p \in Processes : pc[p] \in Busy}
Writers == {p \in Processes : pc[p] \in Inserting}

Nothing == [a \in {} |-> a]
(* ServerCollection::remove and ServerCollection::insert. *)
remove(c, a) == [b \in DOMAIN c \ {a} |-> c[b]]
insert(c, a, s) == [b \in DOMAIN c \cup {a} |-> IF b = a THEN s ELSE c[b]]
NewServer(h) == [host |-> h, last_connect |-> "never"]
set_last_connect_now(s) == [s EXCEPT !.last_connect = "now"]

AliasesOf(c) == IF c.op \in {"create", "remove", "connect"} THEN {c.alias}
                ELSE IF c.op = "rename" THEN {c.alias, c.to} ELSE {}
-----------------------------------------------------------------------------
Init ==
  /\ table = Stored
  /\ cmd \in [Processes -> Commands]
  /\ pc = [p \in Processes |-> Idle]
  /\ collection = [p \in Processes |-> Nothing]
  /\ left = [p \in Processes |-> {}]
  /\ changes = [p \in Processes |-> 0]
  /\ faults = 0
  /\ session = "closed"
  /\ disturbed = {}
  /\ named = {}

(* A process moves to `at`; the history of overlaps follows. *)
Goto(p, at) ==
  /\ pc' = [pc EXCEPT ![p] = at]
  /\ LET running == IF at \in Busy THEN Active \cup {p} ELSE Active \ {p}
     IN session' = IF running = {} THEN "closed"
                   ELSE IF session # "shared" /\ running = {p} THEN "open"
                   ELSE "shared"

Fault == faults < MaxFaults /\ faults' = faults + 1

Start(p) ==
  /\ pc[p] = Idle
  /\ Goto(p, "load")
  /\ named' = named \cup AliasesOf(cmd[p])
  /\ UNCHANGED <<table, cmd, collection, left, changes, faults, disturbed>>

(* read_from_sqlite: one SELECT, which may fall into another process's save. *)
Load(p) ==
  /\ pc[p] = "load"
  /\ collection' = [collection EXCEPT ![p] = table]
  /\ Goto(p, IF cmd[p].op = "tui" THEN "tui" ELSE "change")
  /\ disturbed' = IF Writers = {} THEN disturbed ELSE disturbed \cup {p}
  /\ UNCHANGED <<table, cmd, left, changes, faults, named>>

(* The same step when a plausible bug lets every command go on with an empty *)
(* collection, as the terminal session does.                                 *)
LoadFailsIgnored(p) ==
  /\ pc[p] = "load"
  /\ Fault
  /\ Goto(p, IF cmd[p].op = "tui" THEN "tui" ELSE "change")
  /\ disturbed' = IF cmd[p].op = "tui" THEN disturbed \cup {p} ELSE disturbed
  /\ UNCHANGED <<table, cmd, collection, left, changes, named>>

(* The database cannot be read: a command gives up, App::init goes on with   *)
(* an empty collection.                                                      *)
LoadFails(p) ==
  /\ pc[p] = "load"
  /\ Fault
  /\ Goto(p, IF cmd[p].op = "tui" THEN "tui" ELSE "failed")
  /\ disturbed' = IF cmd[p].op = "tui" THEN disturbed \cup {p} ELSE disturbed
  /\ UNCHANGED <<table, cmd, collection, left, changes, named>>

(* check_alias_exists says no, or there is nothing to change: no save. *)
check_alias_exists(p) ==
  LET here == DOMAIN collection[p] IN
  CASE cmd[p].op = "create" -> cmd[p].alias \notin here
    [] cmd[p].op = "rename" -> cmd[p].alias \in here /\ cmd[p].to \notin here
    [] cmd[p].op \in {"remove", "connect"} -> cmd[p].alias \in here
    [] OTHER -> FALSE

NothingToSave(p) ==
  /\ pc[p] = "change"
  /\ ~check_alias_exists(p)
  /\ Goto(p, "done")
  /\ UNCHANGED <<table, cmd, collection, left, changes, faults, disturbed, named>>

(* handle_create, handle_rename and handle_remove change the collection. *)
Changed(p) ==
  LET c == collection[p]  a == cmd[p].alias IN
  CASE cmd[p].op = "create" -> insert(c, a, NewServer(cmd[p].host))
    [] cmd[p].op = "rename" -> insert(remove(c, a), cmd[p].to, c[a])
    [] cmd[p].op = "remove" -> remove(c, a)
    [] OTHER -> insert(c, a, set_last_connect_now(c[a]))

ChangeCollection(p) ==
  /\ pc[p] = "change"
  /\ cmd[p].op # "connect"
  /\ check_alias_exists(p)
  /\ collection' = [collection EXCEPT ![p] = Changed(p)]
  /\ Goto(p, "delete")
  /\ UNCHANGED <<table, cmd, left, changes, faults, disturbed, named>>

(* hp <alias>: ssh runs, for hours perhaps, between the load and the save. *)
StartSsh(p) ==
  /\ pc[p] = "change"
  /\ cmd[p].op = "connect"
  /\ check_alias_exists(p)
  /\ Goto(p, "ssh")
  /\ UNCHANGED <<table, cmd, collection, left, changes, faults, disturbed, named>>

SshSucceeds(p) ==
  /\ pc[p] = "ssh"
  /\ collection' = [collection EXCEPT ![p] = Changed(p)]
  /\ Goto(p, "delete")
  /\ UNCHANGED <<table, cmd, left, changes, faults, disturbed, named>>

SshFails(p) ==
  /\ pc[p] = "ssh"
  /\ \E at \in {"done", "failed"} : Goto(p, at)
  /\ UNCHANGED <<table, cmd, collection, left, changes, faults, disturbed, named>>

(* A terminal session adds, edits, deletes or connects to a server in its    *)
(* collection and saves at once; an edit inserts its server under the new    *)
(* alias, which may exist, and forgets when it last connected.               *)
TuiChange(p) ==
  /\ pc[p] = "tui"
  /\ changes[p] < MaxChanges
  /\ \/ \E a \in Aliases, h \in Hosts :
          /\ collection' = [collection EXCEPT ![p] = insert(@, a, NewServer(h))]
          /\ named' = named \cup {a}
     \/ \E a \in DOMAIN collection[p], b \in Aliases, h \in Hosts :
          /\ collection' = [collection EXCEPT ![p] = insert(remove(@, a), b, NewServer(h))]
          /\ named' = named \cup {a, b}
     \/ \E a \in DOMAIN collection[p] :
          /\ \/ collection' = [collection EXCEPT ![p] = remove(@, a)]
             \/ collection' = [collection EXCEPT ![p] = insert(@, a, set_last_connect_now(@[a]))]
          /\ named' = named \cup {a}
  /\ changes' = [changes EXCEPT ![p] = @ + 1]
  /\ Goto(p, "delete")
  /\ UNCHANGED <<table, cmd, left, faults, disturbed>>

(* run_app writes the collection back however the session ended. *)
Quit(p) ==
  /\ pc[p] = "tui"
  /\ Goto(p, "quitting")
  /\ UNCHANGED <<table, cmd, collection, left, changes, faults, disturbed, named>>

(* Whoever is in the middle of its own INSERTs is disturbed by p's statement. *)
DisturbedBy(p) == IF Writers \subseteq {p} THEN disturbed ELSE disturbed \cup Writers \cup {p}

(* save_to_sqlite as if the rows were replaced one by one, without DELETE. *)
KeepRows(p) ==
  /\ pc[p] \in Saving
  /\ left' = [left EXCEPT ![p] = DOMAIN collection[p]]
  /\ Goto(p, IF pc[p] = "delete" THEN "insert" ELSE "rewrite")
  /\ disturbed' = DisturbedBy(p)
  /\ UNCHANGED <<table, cmd, collection, changes, faults, named>>

DeleteRows(p) ==
  /\ pc[p] \in Saving
  /\ table' = Nothing
  /\ left' = [left EXCEPT ![p] = DOMAIN collection[p]]
  /\ Goto(p, IF pc[p] = "delete" THEN "insert" ELSE "rewrite")
  /\ disturbed' = DisturbedBy(p)
  /\ UNCHANGED <<cmd, collection, changes, faults, named>>

InsertRow(p) ==
  /\ pc[p] \in Inserting
  /\ \E a \in left[p] :
       /\ \A b \in left[p] : a =< b
       /\ table' = insert(table, a, collection[p][a])
       /\ left' = [left EXCEPT ![p] = @ \ {a}]
  /\ disturbed' = DisturbedBy(p)
  /\ UNCHANGED <<cmd, pc, collection, changes, faults, session, named>>

SaveEnds(p) ==
  /\ pc[p] \in Inserting
  /\ left[p] = {}
  /\ Goto(p, IF cmd[p].op = "tui" /\ pc[p] = "insert" THEN "tui" ELSE "done")
  /\ UNCHANGED <<table, cmd, collection, left, changes, faults, disturbed, named>>

(* A row that cannot be inserted is skipped, and the next one tried. *)
SkipRow(p) ==
  /\ pc[p] \in Inserting
  /\ Fault
  /\ \E a \in left[p] :
       /\ \A b \in left[p] : a =< b
       /\ left' = [left EXCEPT ![p] = @ \ {a}]
  /\ disturbed' = disturbed \cup {p}
  /\ UNCHANGED <<table, cmd, pc, collection, changes, session, named>>

(* Every caller treats a failed save as a terminal session does. *)
FailToTui(p) ==
  /\ pc[p] \in Saving \cup Inserting
  /\ Fault
  /\ Goto(p, "tui")
  /\ left' = [left EXCEPT ![p] = {}]
  /\ disturbed' = IF pc[p] \in Inserting THEN disturbed \cup {p} ELSE disturbed
  /\ UNCHANGED <<table, cmd, collection, changes, named>>

(* A statement fails (the database locked for longer than the busy timeout,  *)
(* the disk full): a command gives up, a terminal session only prints the    *)
(* error and goes on, unless it was on its way out.                          *)
StatementFails(p) ==
  /\ pc[p] \in Saving \cup Inserting
  /\ Fault
  /\ Goto(p, IF cmd[p].op = "tui" /\ pc[p] \in {"delete", "insert"} THEN "tui" ELSE "failed")
  /\ left' = [left EXCEPT ![p] = {}]
  /\ disturbed' = IF pc[p] \in Inserting THEN disturbed \cup {p} ELSE disturbed
  /\ UNCHANGED <<table, cmd, collection, changes, named>>

Kill(p) ==
  /\ p \in Active
  /\ Fault
  /\ Goto(p, "killed")
  /\ left' = [left EXCEPT ![p] = {}]
  /\ disturbed' = IF pc[p] \in Inserting THEN disturbed \cup {p} ELSE disturbed
  /\ UNCHANGED <<table, cmd, collection, changes, named>>

Finished == (\A p \in Processes : pc[p] \in Ended) /\ UNCHANGED vars

Step(p) ==
  \/ Start(p) \/ Load(p) \/ LoadFails(p)
  \/ NothingToSave(p) \/ ChangeCollection(p)
  \/ StartSsh(p) \/ SshSucceeds(p) \/ SshFails(p)
  \/ TuiChange(p) \/ Quit(p)
  \/ DeleteRows(p) \/ InsertRow(p) \/ SaveEnds(p) \/ StatementFails(p)
  \/ Kill(p)

Next == (\E p \in Processes : Step(p)) \/ Finished

Spec == Init /\ [][Next]_vars
-----------------------------------------------------------------------------
(* The state is well formed: only terminal sessions are where only they can  *)
(* be, and a save has nothing left to insert that is not in its collection.  *)
TypeOK ==
  /\ table \in Collections
  /\ cmd \in [Processes -> Commands]
  /\ pc \in [Processes -> {Idle} \cup Busy \cup Ended]
  /\ collection \in [Processes -> Collections]
  /\ left \in [Processes -> SUBSET Aliases]
  /\ changes \in [Processes -> 0..MaxChanges]
  /\ faults \in 0..MaxFaults
  /\ session \in {"closed", "open", "shared"}
  /\ disturbed \subseteq Processes /\ named \subseteq Aliases
  /\ \A p \in Processes : /\ left[p] \subseteq DOMAIN collection[p]
                          /\ pc[p] \in {"tui", "quitting", "rewrite"} => cmd[p].op = "tui"

(* However many processes run: while a save no other one writes into is under*)
(* way, the table holds exactly the rows it has inserted so far, so the save *)
(* leaves its collection and nothing else (save_to_sqlite).                  *)
UndisturbedSave ==
  \A p \in Writers \ disturbed :
    table = [a \in DOMAIN collection[p] \ left[p] |-> collection[p][a]]

(* As long as no process reads or writes into another's save and no load or  *)
(* save is cut, an alias that no command and no session has named keeps its  *)
(* server, or is about to be inserted again by the save under way.           *)
Kept(b) == b \in DOMAIN table /\ table[b] = Stored[b]
BystandersKept ==
  disturbed = {} =>
    \A b \in DOMAIN Stored \ named : Kept(b) \/ \E p \in Writers : b \in left[p]

(* Sessions that do not overlap see one map, changed whole or, when a save is*)
(* cut, cut off at an alias: AliasMap.                                       *)
Holder == CHOOSE p \in Active : TRUE
Atomic == INSTANCE AliasMap WITH
  Servers <- Server,
  map <- IF session = "open" /\ Writers # {} THEN collection[Holder] ELSE table,
  view <- IF session = "open" THEN collection[Holder] ELSE Nothing,
  session <- IF session = "open" /\ Writers # {} THEN "storing" ELSE session
ImplementsMap == Atomic!Spec

(* What the change log says of concurrent processes: with nothing failing,   *)
(* an alias nobody has named is still there when every process is done.      *)
BystanderSurvives ==
  (\A p \in Processes : pc[p] = "done") => \A b \in DOMAIN Stored \ named : Kept(b)
=============================================================================
