-------------------------------- MODULE Tui --------------------------------
(* The terminal session of hp: TuiApp's modes, its selection in the sorted   *)
(* list of aliases, the saves it makes and the state it leaves the terminal  *)
(* in (tui.rs, app.rs, and the terminal set-up of ops.rs). Each pass of the  *)
(* loop draws the screen and then handles one key. What the user types in a  *)
(* field is one step; a save is one step whose failure leaves the first      *)
(* aliases (AliasStore has its statements). Release build: usize wraps.      *)
EXTENDS Naturals, FiniteSets
CONSTANTS Aliases,   \* alias names, as the numbers of their alphabetical order
          Hosts,     \* what a server is reached by
          Stored,    \* the saved aliases at the start
          USize,     \* number of values of a usize
          MaxFaults  \* bound: failed reads, saves and terminal calls

Server == [host : Hosts, last_connect : {"never", "now"}]
Collections == UNION {[D -> Server] : D \in SUBSET Aliases}
Forms == [alias : Aliases, host : Hosts, port : {"valid", "invalid"}]
TerminalModes == {"raw", "alternate", "hidden"}
Modes == {"list", "help", "quick", "edit", "delete", "add", "confirm"}
ListShown == {"list", "help", "quick", "delete"}  \* modes that draw the table

ASSUME AliasesAssumption == Aliases \subseteq Nat /\ IsFiniteSet(Aliases) /\ Aliases # {}
ASSUME HostsAssumption == Hosts # {}
ASSUME StoredAssumption == Stored \in Collections
ASSUME USizeAssumption == USize \in Nat /\ USize > Cardinality(Aliases) + 1
ASSUME MaxFaultsAssumption == MaxFaults \in Nat

VARIABLES
  at,          \* where the session is in its loop
  mode,        \* which of editing, deleting, adding, show_help, ... is set
  collection,  \* TuiApp's ServerCollection
  selected,    \* TuiApp::selected
  highlight,   \* TableState: {} for None, {i} for Some(i)
  index,       \* the index in `editing` or `deleting`
  yes,         \* confirm_yes, add_choice
  form,        \* the fields of the edit or the add dialog, or the quick input
  term,        \* what is on in the terminal
  saved,       \* the rows of the table
  faults,
  unsaved,     \* history: why collection and table may differ
  chosen,      \* history: the alias highlighted when a dialog opened
  broken       \* history: whether setting the terminal up or back failed

ui == <<mode, selected, highlight, index, yes, form, chosen>>
store == <<collection, saved, unsaved>>
terminal == <<term, broken>>
vars == <<at, ui, store, terminal, faults>>

Len(c) == Cardinality(DOMAIN c)
Position(c, a) == Cardinality({b \in DOMAIN c : b < a})
(* hosts().keys().nth(i), as the set of no or one alias. *)
Nth(c, i) == {a \in DOMAIN c : Position(c, a) = i}
remove(c, a) == [b \in DOMAIN c \ {a} |-> c[b]]
insert(c, a, s) == [b \in DOMAIN c \cup {a} |-> IF b = a THEN s ELSE c[b]]
NewServer(f) == [host |-> f.host, last_connect |-> "never"]
Nothing == [a \in {} |-> a]
Torn(c) == {[b \in {x \in DOMAIN c : x < n} |-> c[b]] : n \in Aliases}
Highlighted == UNION {Nth(collection, i) : i \in highlight}
AnyForm == CHOOSE f \in Forms : TRUE
Fault == faults < MaxFaults /\ faults' = faults + 1

Select(i) == selected' = i /\ highlight' = {i}
-----------------------------------------------------------------------------
Init ==
  /\ at = "open" /\ mode = "list"
  /\ collection = Nothing /\ saved = Stored
  /\ selected = 0 /\ highlight = {0} /\ index = 0 /\ yes = "no"
  /\ form = AnyForm
  /\ term = {} /\ faults = 0 /\ unsaved = {} /\ chosen = {} /\ broken = {}

(* App::init, then setup_terminal. *)
OpenApp ==
  /\ at = "open"
  /\ collection' = saved
  /\ at' = "setup"
  /\ UNCHANGED <<ui, saved, unsaved, terminal, faults>>

OpenBlind ==
  /\ at = "open"
  /\ Fault
  /\ unsaved' = {"blind"}
  /\ at' = "setup"
  /\ UNCHANGED <<ui, collection, saved, terminal>>

Setup ==
  /\ at = "setup"
  /\ term' = TerminalModes
  /\ at' = "draw"
  /\ UNCHANGED <<ui, store, broken, faults>>

(* setup_terminal fails half way: main returns without restoring anything. *)
SetupFails ==
  /\ at = "setup"
  /\ Fault
  /\ term' \in {{}, {"raw"}, {"raw", "alternate"}}
  /\ broken' = {"setup"}
  /\ at' = "exited"
  /\ UNCHANGED <<ui, store>>

(* terminal.draw: ratatui keeps the highlight inside the table it renders,   *)
(* and drops it for an empty one; a table without room is not rendered.      *)
Draw ==
  /\ at = "draw"
  /\ at' = "key"
  /\ \/ /\ mode \in ListShown
        /\ highlight' = IF Len(collection) = 0 THEN {}
                        ELSE {IF i < Len(collection) THEN i ELSE Len(collection) - 1 : i \in highlight}
     \/ UNCHANGED highlight
  /\ UNCHANGED <<mode, selected, index, yes, form, chosen, store, terminal, faults>>

(* draw or event::read fails: run returns, run_app saves. *)
LoopFails ==
  /\ at \in {"draw", "key"}
  /\ Fault
  /\ at' = "leave"
  /\ UNCHANGED <<ui, store, terminal>>
-----------------------------------------------------------------------------
(* save_to_storage with its error printed; then the loop goes round.         *)
Save(c) ==
  /\ collection' = c
  /\ \/ saved' = c /\ unsaved' = {} /\ UNCHANGED faults
     \/ Fault /\ saved' \in Torn(c) \cup {saved} /\ unsaved' = {"failed"}

Key(m) == at = "key" /\ mode = m /\ at' = "draw"

(* next and previous: from the highlight, not from `selected`; len() - 1     *)
(* wraps round when there is no alias.                                       *)
Last == (Len(collection) + USize - 1) % USize
BelowUnbounded(i) == i + 1
Below(i) == IF i >= Last THEN 0 ELSE i + 1
Above(i) == IF i = 0 THEN Last ELSE i - 1

Move ==
  /\ Key("list")
  /\ \/ highlight = {} /\ Select(0)
     \/ \E i \in highlight : Select(Below(i)) \/ Select(Above(i))
  /\ UNCHANGED <<mode, index, yes, form, chosen, store, terminal, faults>>

Help ==
  /\ \/ Key("list") /\ mode' = "help"
     \/ Key("help") /\ mode' = "list"
  /\ UNCHANGED <<selected, highlight, index, yes, form, chosen, store, terminal, faults>>

StartDelete ==
  /\ Key("list")
  /\ mode' = "delete" /\ index' = selected /\ yes' = "no" /\ chosen' = Highlighted
  /\ UNCHANGED <<selected, highlight, form, store, terminal, faults>>

(* The dialog starts with fields of its own, which Type then fills. *)
StartAdd ==
  /\ Key("list")
  /\ mode' = "add" /\ chosen' = {}
  /\ UNCHANGED <<selected, highlight, index, yes, form, store, terminal, faults>>

StartEdit ==
  /\ Key("list")
  /\ \E a \in Nth(collection, selected) :
       form' = [alias |-> a, host |-> collection[a].host, port |-> "valid"]
  /\ mode' = "edit" /\ index' = selected /\ chosen' = Highlighted
  /\ UNCHANGED <<selected, highlight, yes, store, terminal, faults>>

(* Characters, Backspace and Tab in a dialog or in Quick Connect. *)
Type ==
  /\ mode \in {"edit", "add", "quick"} /\ Key(mode)
  /\ form' \in Forms
  /\ UNCHANGED <<mode, selected, highlight, index, yes, chosen, store, terminal, faults>>

(* Enter in the edit dialog: the alias is looked up again by its index. An   *)
(* edit to an alias that exists merges the two; `selected` stays.            *)
SaveEdit ==
  /\ Key("edit")
  /\ form.port = "valid"
  /\ mode' = "list"
  /\ \/ \E old \in Nth(collection, index) :
          Save(insert(remove(collection, old), form.alias, NewServer(form)))
     \/ Nth(collection, index) = {} /\ UNCHANGED <<store, faults>>
  /\ UNCHANGED <<selected, highlight, index, yes, form, chosen, terminal>>

BadPort ==
  /\ mode \in {"edit", "confirm"} /\ Key(mode)
  /\ form.port = "invalid" /\ (mode = "confirm" => yes = "yes")
  /\ UNCHANGED <<ui, store, terminal, faults>>

Escape ==
  /\ mode \in {"edit", "delete", "add", "confirm"} /\ Key(mode)
  /\ mode' = "list"
  /\ UNCHANGED <<selected, highlight, index, yes, form, chosen, store, terminal, faults>>

Choose ==
  /\ mode \in {"delete", "confirm"} /\ Key(mode)
  /\ yes' \in {"yes", "no"}
  /\ UNCHANGED <<mode, selected, highlight, index, form, chosen, store, terminal, faults>>

(* Enter in the delete dialog: saves even if no alias is at the index. *)
SaveBeforeRemove ==
  /\ Key("delete")
  /\ mode' = "list"
  /\ \/ yes = "no" /\ UNCHANGED <<selected, highlight, store, faults>>
     \/ /\ yes = "yes"
        /\ collection' = [b \in DOMAIN collection \ Nth(collection, index) |-> collection[b]]
        /\ saved' = collection /\ unsaved' = {} /\ UNCHANGED faults
        /\ Select(IF Len(collection') = 0 THEN 0
                  ELSE IF selected >= Len(collection') THEN Len(collection') - 1 ELSE selected)
  /\ UNCHANGED <<index, yes, form, chosen, terminal>>

ConfirmDelete ==
  /\ Key("delete")
  /\ mode' = "list"
  /\ \/ yes = "no" /\ UNCHANGED <<selected, highlight, store, faults>>
     \/ /\ yes = "yes"
        /\ Save([b \in DOMAIN collection \ Nth(collection, index) |-> collection[b]])
        /\ Select(IF Len(collection') = 0 THEN 0
                  ELSE IF selected >= Len(collection') THEN Len(collection') - 1 ELSE selected)
  /\ UNCHANGED <<index, yes, form, chosen, terminal>>

FinishInput ==
  /\ Key("add")
  /\ mode' = "confirm" /\ yes' = "no"
  /\ UNCHANGED <<selected, highlight, index, form, chosen, store, terminal, faults>>

(* Enter in the add dialog's confirmation, which does not look whether the   *)
(* alias exists; the new alias is selected.                                  *)
HighlightOnly ==
  /\ Key("confirm")
  /\ mode' = "list"
  /\ \/ yes = "no" /\ UNCHANGED <<selected, highlight, store, faults>>
     \/ /\ yes = "yes" /\ form.port = "valid"
        /\ Save(insert(collection, form.alias, NewServer(form)))
        /\ highlight' = {Position(collection', form.alias)} /\ UNCHANGED selected
  /\ UNCHANGED <<index, yes, form, chosen, terminal>>

ConfirmAdd ==
  /\ Key("confirm")
  /\ mode' = "list"
  /\ \/ yes = "no" /\ UNCHANGED <<selected, highlight, store, faults>>
     \/ /\ yes = "yes" /\ form.port = "valid"
        /\ Save(insert(collection, form.alias, NewServer(form)))
        /\ Select(Position(collection', form.alias))
  /\ UNCHANGED <<index, yes, form, chosen, terminal>>

(* Ctrl+F, and Esc in Quick Connect. *)
ToggleQuick ==
  /\ \/ Key("list") /\ mode' = "quick"
     \/ Key("quick") /\ mode' = "list"
  /\ UNCHANGED <<selected, highlight, index, yes, form, chosen, store, terminal, faults>>

QuickNotFound ==
  /\ Key("quick")
  /\ form.alias \notin DOMAIN collection
  /\ mode' = "list"
  /\ UNCHANGED <<selected, highlight, index, yes, form, chosen, store, terminal, faults>>

(* Enter in the list or in Quick Connect: connect() stores the time and      *)
(* saves before ssh is started.                                              *)
Connect(a) ==
  /\ at' = "connect"
  /\ Save(insert(collection, a, [collection[a] EXCEPT !.last_connect = "now"]))
  /\ UNCHANGED <<selected, highlight, index, yes, form, terminal>>

ConnectSelected ==
  /\ at = "key" /\ mode = "list"
  /\ \E a \in Nth(collection, selected) : Connect(a)
  /\ chosen' = Highlighted
  /\ UNCHANGED mode

ConnectQuick ==
  /\ at = "key" /\ mode = "quick"
  /\ form.alias \in DOMAIN collection
  /\ Connect(form.alias)
  /\ mode' = "list" /\ chosen' = {form.alias}

(* connect() gives the terminal to ssh and takes it back; any of its calls   *)
(* may fail, which ends the session.                                         *)
KeepRaw ==
  /\ at = "connect"
  /\ term' = {"raw"} /\ at' = "ssh"
  /\ UNCHANGED <<ui, store, broken, faults>>

GiveTerminal ==
  /\ at = "connect"
  /\ term' = {} /\ at' = "ssh"
  /\ UNCHANGED <<ui, store, broken, faults>>

TakeTerminal ==
  /\ at = "ssh"
  /\ term' = TerminalModes /\ at' = "draw"
  /\ UNCHANGED <<ui, store, broken, faults>>

HandOverFails ==
  /\ at \in {"connect", "ssh"}
  /\ Fault
  /\ term' \in IF at = "connect" THEN {TerminalModes, {"raw", "hidden"}, {"hidden"}}
               ELSE {{}, {"hidden"}, {"hidden", "raw"}, TerminalModes}
  /\ at' = "leave"
  /\ UNCHANGED <<ui, store, broken>>

Quit ==
  /\ at = "key" /\ mode = "list"
  /\ at' = "leave"
  /\ UNCHANGED <<ui, store, terminal, faults>>

(* run_app writes the collection back, then main restores the terminal.      *)
FinalSave ==
  /\ at = "leave"
  /\ Save(collection)
  /\ at' = "restore"
  /\ UNCHANGED <<ui, terminal>>

Restore ==
  /\ at = "restore"
  /\ term' = {} /\ at' = "exited"
  /\ UNCHANGED <<ui, store, broken, faults>>

RestoreFails ==
  /\ at = "restore"
  /\ Fault
  /\ term' \in {term, term \ {"raw"}, term \ {"raw", "alternate"}}
  /\ broken' = {"restore"} /\ at' = "exited"
  /\ UNCHANGED <<ui, store>>

Exited == at = "exited" /\ UNCHANGED vars

Next ==
  \/ OpenApp \/ OpenBlind \/ Setup \/ SetupFails \/ Draw \/ LoopFails
  \/ Move \/ Help \/ StartDelete \/ StartAdd \/ StartEdit \/ Type \/ SaveEdit \/ BadPort
  \/ Escape \/ Choose \/ ConfirmDelete \/ FinishInput \/ ConfirmAdd
  \/ ToggleQuick \/ QuickNotFound \/ ConnectSelected \/ ConnectQuick
  \/ GiveTerminal \/ TakeTerminal \/ HandOverFails \/ Quit
  \/ FinalSave \/ Restore \/ RestoreFails \/ Exited

Spec == Init /\ [][Next]_vars
-----------------------------------------------------------------------------
(* The state is well formed; a dialog that needs an index has a usize. *)
TypeOK ==
  /\ at \in {"open", "setup", "draw", "key", "connect", "ssh", "leave", "restore", "exited"}
  /\ mode \in Modes
  /\ collection \in Collections /\ saved \in Collections
  /\ selected \in 0..USize - 1 /\ index \in 0..USize - 1
  /\ highlight \subseteq 0..USize - 1 /\ Cardinality(highlight) <= 1
  /\ yes \in {"yes", "no"} /\ form \in Forms
  /\ term \subseteq TerminalModes /\ broken \subseteq {"setup", "restore"}
  /\ faults \in 0..MaxFaults
  /\ unsaved \subseteq {"blind", "failed"} /\ chosen \subseteq Aliases

(* The alias an edit or a deletion takes away is the one the table showed    *)
(* highlighted when its dialog was opened, although the dialogs keep an      *)
(* index, taken from `selected` and not from the highlight; and so is the    *)
(* alias that Enter connects to.                                             *)
ActsOnShown ==
  [][/\ \A a \in DOMAIN collection \ DOMAIN collection' : at = "key" => a \in chosen
     /\ (at = "key" /\ at' = "connect") =>
          \A a \in DOMAIN collection : collection'[a] # collection[a] => a \in chosen']_vars

(* Unless the last save failed or the collection could not be read, what the *)
(* session shows is what is stored; so is what it leaves behind.             *)
InSync == (unsaved = {} /\ at # "open") => saved = collection

(* ssh finds the terminal as the user's shell had it, and so does the shell  *)
(* when the session ends, whatever failed in between, unless setting the     *)
(* terminal up or back failed itself.                                        *)
TerminalDiscipline ==
  /\ at = "ssh" => term = {}
  /\ (at = "exited" /\ broken = {}) => term = {}
=============================================================================
