------------------------------ MODULE TuiProofs ------------------------------
(***************************************************************************)
(* Theorems about Tui for every set of aliases, every stored collection    *)
(* and any number of faults.                                               *)
(***************************************************************************)
EXTENDS Tui, FiniteSetTheorems, TLAPS

USE DEF Key, Fault, Select, ui, store, terminal

-----------------------------------------------------------------------------
\* Collections and positions in them.

LEMMA CollectionParts ==
  ASSUME NEW c \in Collections
  PROVE  /\ DOMAIN c \subseteq Aliases /\ IsFiniteSet(DOMAIN c)
         /\ c \in [DOMAIN c -> Server]
         /\ Len(c) \in Nat /\ Len(c) <= Cardinality(Aliases)
         /\ Cardinality(Aliases) \in Nat
<1>1. DOMAIN c \subseteq Aliases /\ c \in [DOMAIN c -> Server]
  BY DEF Collections
<1>2. /\ IsFiniteSet(DOMAIN c)
      /\ Cardinality(DOMAIN c) <= Cardinality(Aliases)
  BY <1>1, AliasesAssumption, FS_Subset
<1>3. Cardinality(DOMAIN c) \in Nat /\ Cardinality(Aliases) \in Nat
  BY <1>2, AliasesAssumption, FS_CardinalityType
<1>. QED  BY <1>1, <1>2, <1>3 DEF Len

LEMMA MakeCollection ==
  ASSUME NEW D \in SUBSET Aliases, NEW c \in [D -> Server]
  PROVE  c \in Collections
BY DEF Collections

\* An alias is below the end of its collection.
LEMMA PositionBelow ==
  ASSUME NEW c \in Collections, NEW a \in DOMAIN c
  PROVE  Position(c, a) \in Nat /\ Position(c, a) < Len(c)
<1>. DEFINE B == {b \in DOMAIN c : b < a}
<1>1. IsFiniteSet(DOMAIN c) /\ Len(c) \in Nat /\ a \in Nat
  BY CollectionParts, AliasesAssumption
<1>2. /\ IsFiniteSet(B) /\ Cardinality(B) <= Cardinality(DOMAIN c)
      /\ Cardinality(DOMAIN c) = Cardinality(B) => DOMAIN c = B
  BY <1>1, FS_Subset
<1>3. a \notin B
  BY <1>1
<1>4. Cardinality(B) # Cardinality(DOMAIN c)
  BY <1>2, <1>3
<1>5. Cardinality(B) \in Nat
  BY <1>2, FS_CardinalityType
<1>. QED  BY <1>1, <1>2, <1>4, <1>5 DEF Position, Len

LEMMA NthBelow ==
  ASSUME NEW c \in Collections, NEW i, NEW a \in Nth(c, i)
  PROVE  a \in DOMAIN c /\ i \in Nat /\ i < Len(c)
BY PositionBelow DEF Nth

LEMMA ServerType ==
  ASSUME NEW f \in Forms
  PROVE  NewServer(f) \in Server /\ f.alias \in Aliases
BY DEF Forms, NewServer, Server

LEMMA Edits ==
  ASSUME NEW c \in Collections, NEW a \in Aliases, NEW s \in Server
  PROVE  /\ insert(c, a, s) \in Collections
         /\ DOMAIN insert(c, a, s) = DOMAIN c \union {a}
         /\ \A b \in DOMAIN c : b # a => insert(c, a, s)[b] = c[b]
         /\ remove(c, a) \in Collections
         /\ DOMAIN remove(c, a) = DOMAIN c \ {a}
<1>1. DOMAIN c \subseteq Aliases /\ c \in [DOMAIN c -> Server]
  BY CollectionParts
<1>2. /\ insert(c, a, s) \in [DOMAIN c \union {a} -> Server]
      /\ \A b \in DOMAIN c : b # a => insert(c, a, s)[b] = c[b]
  BY <1>1 DEF insert
<1>3. remove(c, a) \in [DOMAIN c \ {a} -> Server]
  BY <1>1 DEF remove
<1>. QED  BY <1>1, <1>2, <1>3, MakeCollection

LEMMA AddType ==
  ASSUME NEW c \in Collections, NEW f \in Forms
  PROVE  /\ insert(c, f.alias, NewServer(f)) \in Collections
         /\ DOMAIN insert(c, f.alias, NewServer(f)) = DOMAIN c \union {f.alias}
<1>1. ASSUME NEW a, NEW s, a = f.alias, s = NewServer(f)
      PROVE  insert(c, a, s) \in Collections /\ DOMAIN insert(c, a, s) = DOMAIN c \union {a}
  BY <1>1, ServerType, Edits
<1>. QED  BY <1>1

LEMMA DropType ==
  ASSUME NEW c \in Collections, NEW A
  PROVE  /\ [b \in DOMAIN c \ A |-> c[b]] \in Collections
         /\ DOMAIN [b \in DOMAIN c \ A |-> c[b]] = DOMAIN c \ A
<1>1. DOMAIN c \subseteq Aliases /\ c \in [DOMAIN c -> Server]
  BY CollectionParts
<1>2. [b \in DOMAIN c \ A |-> c[b]] \in [DOMAIN c \ A -> Server]
  BY <1>1
<1>. QED  BY <1>1, <1>2, MakeCollection

LEMMA TornType ==
  ASSUME NEW c \in Collections
  PROVE  Torn(c) \subseteq Collections
<1>1. DOMAIN c \subseteq Aliases /\ c \in [DOMAIN c -> Server]
  BY CollectionParts
<1>2. ASSUME NEW n \in Aliases
      PROVE  [b \in {x \in DOMAIN c : x < n} |-> c[b]] \in Collections
  <2>1. [b \in {x \in DOMAIN c : x < n} |-> c[b]] \in [{x \in DOMAIN c : x < n} -> Server]
    BY <1>1
  <2>. QED  BY <1>1, <2>1, MakeCollection
<1>. QED  BY <1>2 DEF Torn

LEMMA SaveType ==
  ASSUME TypeOK, NEW c \in Collections, Save(c)
  PROVE  /\ collection' \in Collections /\ saved' \in Collections
         /\ collection' = c
         /\ faults' \in 0 .. MaxFaults
         /\ unsaved' \subseteq {"blind", "failed"}
         /\ unsaved' = {} => saved' = c
BY TornType, MaxFaultsAssumption DEF Save, TypeOK

\* The highlight is None or Some.
LEMMA OneAtMost ==
  ASSUME NEW S \in SUBSET (0 .. USize - 1)
  PROVE  Cardinality(S) <= 1 <=> S = {} \/ \E i \in S : S = {i}
<1>1. IsFiniteSet(0 .. USize - 1)
  BY USizeAssumption, FS_Interval
<1>2. IsFiniteSet(S) /\ Cardinality(S) \in Nat
  BY <1>1, FS_Subset, FS_CardinalityType
<1>3. /\ Cardinality(S) = 0 <=> S = {}
      /\ Cardinality(S) = 1 <=> \E x : S = {x}
  BY <1>2, FS_EmptySet, FS_Singleton
<1>4. (\E x : S = {x}) <=> \E i \in S : S = {i}
  OBVIOUS
<1>5. Cardinality(S) <= 1 <=> Cardinality(S) = 0 \/ Cardinality(S) = 1
  BY <1>2
<1>. QED  BY <1>3, <1>4, <1>5

LEMMA SelectType ==
  ASSUME NEW i \in 0 .. USize - 1, Select(i)
  PROVE  /\ selected' \in 0 .. USize - 1
         /\ highlight' \subseteq 0 .. USize - 1 /\ Cardinality(highlight') <= 1
BY OneAtMost DEF Select

LEMMA MoveType ==
  ASSUME NEW i \in 0 .. USize - 1, collection \in Collections
  PROVE  Below(i) \in 0 .. USize - 1 /\ Above(i) \in 0 .. USize - 1
<1>1. Len(collection) + USize - 1 \in Nat /\ USize \in Nat \ {0}
  BY CollectionParts, USizeAssumption
<1>2. Last \in 0 .. USize - 1
  BY <1>1 DEF Last
<1>. QED  BY <1>1, <1>2 DEF Below, Above

LEMMA StoredParts ==
  ASSUME TypeOK
  PROVE  /\ Len(collection) \in Nat /\ Len(collection) < USize - 1
         /\ USize \in Nat /\ 0 \in 0 .. USize - 1
BY CollectionParts, USizeAssumption DEF TypeOK

\* The row after a deletion, and the row of an added alias, exist.
LEMMA RowType ==
  ASSUME NEW c \in Collections
  PROVE  /\ (IF Len(c) = 0 THEN 0 ELSE IF selected >= Len(c) THEN Len(c) - 1 ELSE selected)
               \in {selected} \union 0 .. USize - 1
         /\ \A a \in DOMAIN c : Position(c, a) \in 0 .. USize - 1
<1>1. /\ Len(c) \in Nat /\ Len(c) < USize - 1 /\ USize \in Nat
  BY CollectionParts, USizeAssumption
<1>2. \A a \in DOMAIN c : Position(c, a) \in 0 .. USize - 1
  BY <1>1, PositionBelow
<1>. QED  BY <1>1, <1>2
-----------------------------------------------------------------------------
\* Types.

LEMMA InitType == Init => TypeOK
<1>. SUFFICES ASSUME Init PROVE TypeOK
  OBVIOUS
<1>1. Nothing \in Collections
  <2>1. Nothing \in [{} -> Server]
    BY DEF Nothing
  <2>. QED  BY <2>1, MakeCollection
<1>2. AnyForm \in Forms
  <2>1. PICK a \in Aliases, h \in Hosts : TRUE
    BY AliasesAssumption, HostsAssumption
  <2>2. [alias |-> a, host |-> h, port |-> "valid"] \in Forms
    BY DEF Forms
  <2>. QED  BY <2>2 DEF AnyForm
<1>3. {0} \subseteq 0 .. USize - 1 /\ Cardinality({0}) <= 1 /\ 0 \in 0 .. USize - 1
  <2>1. USize \in Nat /\ USize > 0
    BY USizeAssumption, AliasesAssumption, FS_CardinalityType
  <2>2. Cardinality({0}) = 1
    BY FS_Singleton
  <2>. QED  BY <2>1, <2>2
<1>. QED
  BY <1>1, <1>2, <1>3, StoredAssumption, MaxFaultsAssumption DEF Init, TypeOK, Modes

\* The alias in hand when a dialog opens.
LEMMA HighlightedType == TypeOK => Highlighted \subseteq Aliases
BY CollectionParts DEF TypeOK, Highlighted, Nth

LEMMA StepType == TypeOK /\ [Next]_vars => TypeOK'
<1>. SUFFICES ASSUME TypeOK, [Next]_vars PROVE TypeOK'
  OBVIOUS
<1>1. CASE OpenApp \/ OpenBlind \/ LoopFails \/ Quit
  <2>1. CASE OpenApp \/ Quit
    BY <2>1 DEF OpenApp, Quit, TypeOK
  <2>2. CASE OpenBlind
    BY <2>2, MaxFaultsAssumption DEF OpenBlind, TypeOK
  <2>3. CASE LoopFails
    BY <2>3, MaxFaultsAssumption DEF LoopFails, TypeOK
  <2>. QED  BY <1>1, <2>1, <2>2, <2>3
<1>2. CASE \/ Setup \/ SetupFails \/ GiveTerminal \/ TakeTerminal
           \/ HandOverFails \/ Restore \/ RestoreFails
  <2>1. /\ term' \subseteq TerminalModes /\ broken' \subseteq {"setup", "restore"}
        /\ at' \in {"draw", "ssh", "leave", "exited"}
    BY <1>2
    DEF Setup, SetupFails, GiveTerminal, TakeTerminal, HandOverFails, Restore,
        RestoreFails, TypeOK, TerminalModes
  <2>2. faults' \in 0 .. MaxFaults /\ UNCHANGED <<ui, store>>
    BY <1>2, MaxFaultsAssumption
    DEF Setup, SetupFails, GiveTerminal, TakeTerminal, HandOverFails, Restore,
        RestoreFails, TypeOK
  <2>. QED  BY <2>1, <2>2 DEF TypeOK
<1>3. CASE Draw
  <2>1. highlight' \subseteq 0 .. USize - 1 /\ Cardinality(highlight') <= 1
    <3>1. highlight \subseteq 0 .. USize - 1 /\ Cardinality(highlight) <= 1
      BY DEF TypeOK
    <3>2. CASE UNCHANGED highlight
      BY <3>1, <3>2
    <3>3. CASE highlight' = IF Len(collection) = 0 THEN {}
                 ELSE {IF i < Len(collection) THEN i ELSE Len(collection) - 1 : i \in highlight}
      <4>1. highlight' \subseteq 0 .. USize - 1
        BY <3>1, <3>3, StoredParts
      <4>2. highlight' = {} \/ \E i \in highlight' : highlight' = {i}
        BY <3>1, <3>3, OneAtMost
      <4>. QED  BY <4>1, <4>2, OneAtMost
    <3>. QED  BY <1>3, <3>2, <3>3 DEF Draw
  <2>. QED  BY <1>3, <2>1 DEF Draw, TypeOK
<1>4. CASE Move
  <2>1. PICK i \in 0 .. USize - 1 : Select(i)
    BY <1>4, StoredParts, MoveType DEF Move, TypeOK
  <2>2. /\ selected' \in 0 .. USize - 1
        /\ highlight' \subseteq 0 .. USize - 1 /\ Cardinality(highlight') <= 1
    BY <2>1, SelectType
  <2>3. /\ at' = "draw"
        /\ UNCHANGED <<mode, index, yes, form, chosen, store, terminal, faults>>
    BY <1>4 DEF Move
  <2>. QED  BY <2>2, <2>3 DEF TypeOK
<1>5. CASE Help \/ StartDelete \/ StartAdd \/ ToggleQuick \/ QuickNotFound
  BY <1>5, HighlightedType
  DEF Help, StartDelete, StartAdd, ToggleQuick, QuickNotFound, TypeOK, Modes
<1>6. CASE StartEdit
  <2>1. PICK a \in Nth(collection, selected) :
          form' = [alias |-> a, host |-> collection[a].host, port |-> "valid"]
    BY <1>6 DEF StartEdit
  <2>2. a \in Aliases /\ collection[a] \in Server
    BY <2>1, CollectionParts, NthBelow DEF TypeOK
  <2>3. form' \in Forms
    BY <2>1, <2>2 DEF Forms, Server
  <2>. QED  BY <1>6, <2>3, HighlightedType DEF StartEdit, TypeOK, Modes
<1>7. CASE Type \/ BadPort \/ Escape \/ Choose \/ FinishInput
  BY <1>7 DEF Type, BadPort, Escape, Choose, FinishInput, TypeOK, Modes
<1>8. CASE SaveEdit
  <2>1. CASE UNCHANGED <<store, faults>>
    BY <1>8, <2>1 DEF SaveEdit, TypeOK, Modes
  <2>2. ASSUME NEW old \in Nth(collection, index),
               Save(insert(remove(collection, old), form.alias, NewServer(form)))
        PROVE  TypeOK'
    <3>1. old \in Aliases /\ NewServer(form) \in Server /\ form.alias \in Aliases
      BY NthBelow, CollectionParts, ServerType DEF TypeOK
    <3>2. remove(collection, old) \in Collections
      BY <3>1, Edits, ServerType DEF TypeOK
    <3>3. insert(remove(collection, old), form.alias, NewServer(form)) \in Collections
      BY <3>1, <3>2, Edits
    <3>4. /\ collection' \in Collections /\ saved' \in Collections
          /\ faults' \in 0 .. MaxFaults /\ unsaved' \subseteq {"blind", "failed"}
      BY <2>2, <3>3, SaveType
    <3>. QED  BY <1>8, <3>4 DEF SaveEdit, TypeOK, Modes
  <2>. QED  BY <1>8, <2>1, <2>2 DEF SaveEdit
<1>9. CASE ConfirmDelete
  <2>1. CASE UNCHANGED <<selected, highlight, store, faults>>
    BY <1>9, <2>1 DEF ConfirmDelete, TypeOK, Modes
  <2>2. CASE /\ Save([b \in DOMAIN collection \ Nth(collection, index) |-> collection[b]])
             /\ Select(IF Len(collection') = 0 THEN 0
                  ELSE IF selected >= Len(collection') THEN Len(collection') - 1 ELSE selected)
    <3>1. /\ collection' \in Collections /\ saved' \in Collections
          /\ faults' \in 0 .. MaxFaults /\ unsaved' \subseteq {"blind", "failed"}
      BY <2>2, DropType, SaveType DEF TypeOK
    <3>2. PICK i \in 0 .. USize - 1 : Select(i)
      BY <2>2, <3>1, RowType DEF TypeOK
    <3>3. /\ selected' \in 0 .. USize - 1
          /\ highlight' \subseteq 0 .. USize - 1 /\ Cardinality(highlight') <= 1
      BY <3>2, SelectType
    <3>4. /\ at' = "draw" /\ mode' = "list"
          /\ UNCHANGED <<index, yes, form, chosen, terminal>>
      BY <1>9 DEF ConfirmDelete
    <3>. QED  BY <3>1, <3>3, <3>4 DEF TypeOK, Modes
  <2>. QED  BY <1>9, <2>1, <2>2 DEF ConfirmDelete
<1>10. CASE ConfirmAdd
  <2>1. CASE UNCHANGED <<selected, highlight, store, faults>>
    BY <1>10, <2>1 DEF ConfirmAdd, TypeOK, Modes
  <2>2. CASE /\ Save(insert(collection, form.alias, NewServer(form)))
             /\ Select(Position(collection', form.alias))
    <3>1. NewServer(form) \in Server /\ form.alias \in Aliases
      BY ServerType DEF TypeOK
    <3>2. /\ insert(collection, form.alias, NewServer(form)) \in Collections
          /\ form.alias \in DOMAIN insert(collection, form.alias, NewServer(form))
      <4>1. collection \in Collections /\ form \in Forms
        BY DEF TypeOK
      <4>2. DOMAIN insert(collection, form.alias, NewServer(form)) =
              DOMAIN collection \union {form.alias}
        BY <4>1, AddType
      <4>. QED  BY <4>1, <4>2, AddType
    <3>3. /\ collection' \in Collections /\ saved' \in Collections
          /\ form.alias \in DOMAIN collection'
          /\ faults' \in 0 .. MaxFaults /\ unsaved' \subseteq {"blind", "failed"}
      BY <2>2, <3>2, SaveType
    <3>4. /\ selected' \in 0 .. USize - 1
          /\ highlight' \subseteq 0 .. USize - 1 /\ Cardinality(highlight') <= 1
      BY <2>2, <3>3, RowType, SelectType
    <3>5. /\ at' = "draw" /\ mode' = "list"
          /\ UNCHANGED <<index, yes, form, chosen, terminal>>
      BY <1>10 DEF ConfirmAdd
    <3>. QED  BY <3>3, <3>4, <3>5 DEF TypeOK, Modes
  <2>. QED  BY <1>10, <2>1, <2>2 DEF ConfirmAdd
<1>11. CASE ConnectSelected \/ ConnectQuick
  <2>1. PICK a \in DOMAIN collection : Connect(a)
    BY <1>11, NthBelow DEF ConnectSelected, ConnectQuick, TypeOK
  <2>2. a \in Aliases /\ [collection[a] EXCEPT !.last_connect = "now"] \in Server
    BY CollectionParts DEF TypeOK, Server
  <2>3. /\ collection' \in Collections /\ saved' \in Collections
        /\ faults' \in 0 .. MaxFaults /\ unsaved' \subseteq {"blind", "failed"}
    BY <2>1, <2>2, Edits, SaveType DEF TypeOK, Connect
  <2>4. /\ at' = "connect" /\ mode' \in Modes /\ chosen' \subseteq Aliases
        /\ UNCHANGED <<selected, highlight, index, yes, form, terminal>>
    BY <1>11, <2>1, HighlightedType
    DEF ConnectSelected, ConnectQuick, Connect, TypeOK, Modes, Forms
  <2>. QED  BY <2>3, <2>4 DEF TypeOK
<1>12. CASE FinalSave
  <2>1. /\ collection' \in Collections /\ saved' \in Collections
        /\ faults' \in 0 .. MaxFaults /\ unsaved' \subseteq {"blind", "failed"}
    BY <1>12, SaveType DEF FinalSave, TypeOK
  <2>. QED  BY <1>12, <2>1 DEF FinalSave, TypeOK
<1>13. CASE UNCHANGED vars
  BY <1>13 DEF vars, TypeOK
<1>. QED
  BY <1>1, <1>2, <1>3, <1>4, <1>5, <1>6, <1>7, <1>8, <1>9, <1>10, <1>11,
     <1>12, <1>13
  DEF Next, Exited

\* The state is well formed, for every set of aliases: see TypeOK.
THEOREM TypeCorrect == Spec => []TypeOK
BY InitType, StepType, PTL DEF Spec
-----------------------------------------------------------------------------
\* What is shown and what is stored.  Each of the two invariants is inductive
\* by itself, with the types.

\* A step that saves nothing and loads nothing, or that loads and saves whole.
LEMMA StepSync == TypeOK /\ InSync /\ [Next]_vars => InSync'
<1>. SUFFICES ASSUME TypeOK, InSync, [Next]_vars PROVE InSync'
  OBVIOUS
<1>1. CASE /\ UNCHANGED store /\ at # "open"
  BY <1>1 DEF InSync
<1>2. ASSUME NEW c, Save(c) PROVE InSync'
  BY <1>2 DEF Save, InSync
<1>3. CASE OpenApp \/ OpenBlind
  BY <1>3 DEF OpenApp, OpenBlind, InSync
<1>4. CASE Setup \/ SetupFails \/ Draw \/ LoopFails \/ Move \/ Help \/ StartDelete
           \/ StartAdd \/ StartEdit \/ Type \/ BadPort \/ Escape \/ Choose
  BY <1>1, <1>4
  DEF Setup, SetupFails, Draw, LoopFails, Move, Help, StartDelete, StartAdd,
      StartEdit, Type, BadPort, Escape, Choose
<1>5. CASE FinishInput \/ ToggleQuick \/ QuickNotFound \/ GiveTerminal \/ TakeTerminal
           \/ HandOverFails \/ Quit \/ Restore \/ RestoreFails
  BY <1>1, <1>5
  DEF FinishInput, ToggleQuick, QuickNotFound, GiveTerminal, TakeTerminal,
      HandOverFails, Quit, Restore, RestoreFails
<1>6. CASE SaveEdit \/ ConfirmDelete \/ ConfirmAdd
  BY <1>1, <1>2, <1>6 DEF SaveEdit, ConfirmDelete, ConfirmAdd
<1>7. CASE ConnectSelected \/ ConnectQuick \/ FinalSave
  BY <1>2, <1>7 DEF ConnectSelected, ConnectQuick, Connect, FinalSave
<1>8. CASE UNCHANGED vars
  BY <1>8 DEF vars, InSync
<1>. QED
  BY <1>3, <1>4, <1>5, <1>6, <1>7, <1>8 DEF Next, Exited

\* What the session shows and leaves behind is what is stored, unless a save
\* failed or nothing could be read: see InSync.
THEOREM ShownIsStored == Spec => []InSync
<1>1. Init => InSync
  BY DEF Init, InSync
<1>. QED  BY <1>1, StepSync, TypeCorrect, PTL DEF Spec

LEMMA StepTerminal == TerminalDiscipline /\ [Next]_vars => TerminalDiscipline'
<1>. SUFFICES ASSUME TerminalDiscipline, [Next]_vars PROVE TerminalDiscipline'
  OBVIOUS
<1>1. CASE at' \notin {"ssh", "exited"}
  BY <1>1 DEF TerminalDiscipline
<1>2. CASE OpenApp \/ OpenBlind \/ Setup \/ Draw \/ LoopFails \/ Quit \/ TakeTerminal
           \/ HandOverFails \/ FinalSave \/ ConnectSelected \/ ConnectQuick
  BY <1>1, <1>2
  DEF OpenApp, OpenBlind, Setup, Draw, LoopFails, Quit, TakeTerminal,
      HandOverFails, FinalSave, ConnectSelected, ConnectQuick, Connect
<1>3. CASE Move \/ Help \/ StartDelete \/ StartAdd \/ StartEdit \/ Type \/ SaveEdit
           \/ BadPort
  BY <1>1, <1>3
  DEF Move, Help, StartDelete, StartAdd, StartEdit, Type, SaveEdit, BadPort
<1>4. CASE Escape \/ Choose \/ ConfirmDelete \/ FinishInput \/ ConfirmAdd
           \/ ToggleQuick \/ QuickNotFound
  BY <1>1, <1>4
  DEF Escape, Choose, ConfirmDelete, FinishInput, ConfirmAdd, ToggleQuick,
      QuickNotFound
<1>5. CASE SetupFails \/ RestoreFails \/ Restore \/ GiveTerminal
  BY <1>5
  DEF SetupFails, RestoreFails, Restore, GiveTerminal, TerminalDiscipline
<1>6. CASE UNCHANGED vars
  BY <1>6 DEF vars, TerminalDiscipline
<1>. QED
  BY <1>2, <1>3, <1>4, <1>5, <1>6 DEF Next, Exited

\* ssh, and the shell at the end, find the terminal as the user had it: see
\* TerminalDiscipline.
THEOREM TerminalGivenBack == Spec => []TerminalDiscipline
<1>1. Init => TerminalDiscipline
  BY DEF Init, TerminalDiscipline
<1>. QED  BY <1>1, StepTerminal, PTL DEF Spec
-----------------------------------------------------------------------------
\* What the table shows is what the session acts on.  The highlight may leave
\* `selected` only when that is past the end, where Draw puts it on the last
\* row; and a row comes into being under `selected` only when both are set.

SelectionShown ==
  at = "open" \/ selected < Len(collection) => highlight = {selected}
DialogShown ==
  /\ mode \in {"edit", "delete"} => Nth(collection, index) \subseteq chosen
  /\ at = "open" => mode = "list"
Shown == SelectionShown /\ DialogShown

LEMMA SelectedHighlighted ==
  ASSUME TypeOK, SelectionShown
  PROVE  Nth(collection, selected) \subseteq Highlighted
<1>. SUFFICES ASSUME NEW a \in Nth(collection, selected) PROVE a \in Highlighted
  OBVIOUS
<1>1. selected < Len(collection)
  BY NthBelow DEF TypeOK
<1>. QED  BY <1>1 DEF SelectionShown, Highlighted

\* An edit takes one alias away and brings one in: no row is added.
LEMMA EditShrinks ==
  ASSUME NEW c \in Collections, NEW old \in DOMAIN c, NEW f \in Forms
  PROVE  /\ Len(insert(remove(c, old), f.alias, NewServer(f))) <= Len(c)
         /\ DOMAIN insert(remove(c, old), f.alias, NewServer(f)) =
              (DOMAIN c \ {old}) \union {f.alias}
<1>. DEFINE D == DOMAIN c \ {old}
<1>1. old \in Aliases /\ IsFiniteSet(DOMAIN c) /\ Len(c) \in Nat
  BY CollectionParts
<1>2. remove(c, old) \in Collections /\ DOMAIN remove(c, old) = D
  <2>1. PICK s \in Server : TRUE
    BY ServerType
  <2>. QED  BY <1>1, <2>1, Edits
<1>3. DOMAIN insert(remove(c, old), f.alias, NewServer(f)) = D \union {f.alias}
  BY <1>2, AddType
<1>4. IsFiniteSet(D) /\ Cardinality(D) = Cardinality(DOMAIN c) - 1
  BY <1>1, FS_RemoveElement
<1>5. Cardinality(D \union {f.alias}) <= Cardinality(D) + 1 /\ Cardinality(D) \in Nat
  <2>1. Cardinality(D) \in Nat
    BY <1>4, FS_CardinalityType
  <2>2. CASE f.alias \in D
    <3>1. D \union {f.alias} = D
      BY <2>2
    <3>2. Cardinality(D \union {f.alias}) = Cardinality(D)
      BY <3>1, Zenon
    <3>. QED  BY <2>1, <3>2
  <2>3. CASE f.alias \notin D
    <3>1. Cardinality(D \union {f.alias}) = Cardinality(D) + 1
      BY <1>4, <2>3, FS_AddElement
    <3>. QED  BY <2>1, <3>1
  <2>. QED  BY <2>2, <2>3
<1>6. Len(c) = Cardinality(DOMAIN c)
  BY DEF Len
<1>7. Len(insert(remove(c, old), f.alias, NewServer(f))) = Cardinality(D \union {f.alias})
  BY <1>3 DEF Len
<1>8. Cardinality(D \union {f.alias}) <= Len(c)
  BY <1>1, <1>4, <1>5, <1>6
<1>. QED  BY <1>3, <1>7, <1>8

\* connect() changes the one alias it connects to, and no row.
LEMMA ConnectKeeps ==
  ASSUME TypeOK, NEW a \in DOMAIN collection, Connect(a)
  PROVE  /\ DOMAIN collection' = DOMAIN collection
         /\ \A b \in DOMAIN collection : b # a => collection'[b] = collection[b]
         /\ \A i : Nth(collection', i) = Nth(collection, i)
<1>1. a \in Aliases /\ collection[a] \in Server /\ collection \in Collections
  BY CollectionParts DEF TypeOK
<1>2. PICK s \in Server : collection' = insert(collection, a, s)
  <2>1. [collection[a] EXCEPT !.last_connect = "now"] \in Server
    BY <1>1 DEF Server
  <2>. QED  BY <2>1 DEF Connect, Save
<1>3. /\ DOMAIN collection' = DOMAIN collection \union {a}
      /\ \A b \in DOMAIN collection : b # a => collection'[b] = collection[b]
  <2>1. /\ DOMAIN insert(collection, a, s) = DOMAIN collection \union {a}
        /\ \A b \in DOMAIN collection : b # a => insert(collection, a, s)[b] = collection[b]
    BY <1>1, Edits
  <2>. QED  BY <1>2, <2>1, Zenon
<1>4. DOMAIN collection' = DOMAIN collection
  BY <1>3
<1>5. \A b : Position(collection', b) = Position(collection, b)
  BY <1>4 DEF Position
<1>6. \A i : Nth(collection', i) = Nth(collection, i)
  BY <1>4, <1>5 DEF Nth
<1>. QED  BY <1>3, <1>4, <1>6

LEMMA StepSelection ==
  TypeOK /\ SelectionShown /\ [Next]_vars => SelectionShown'
<1>. SUFFICES ASSUME TypeOK, SelectionShown, [Next]_vars PROVE SelectionShown'
  OBVIOUS
<1>1. CASE UNCHANGED <<selected, highlight, collection>> /\ at' # "open"
  BY <1>1 DEF SelectionShown
<1>2. ASSUME NEW i, Select(i) PROVE SelectionShown'
  BY <1>2 DEF SelectionShown
<1>3. CASE OpenApp \/ OpenBlind
  BY <1>3 DEF OpenApp, OpenBlind, SelectionShown
<1>4. CASE Draw
  BY <1>4, StoredParts DEF Draw, SelectionShown, TypeOK
<1>5. CASE Move
  BY <1>2, <1>5 DEF Move
<1>6. CASE Setup \/ SetupFails \/ LoopFails \/ Help \/ StartDelete \/ StartAdd
           \/ StartEdit \/ Type \/ BadPort \/ Escape \/ Choose
  BY <1>1, <1>6
  DEF Setup, SetupFails, LoopFails, Help, StartDelete, StartAdd, StartEdit,
      Type, BadPort, Escape, Choose
<1>7. CASE FinishInput \/ ToggleQuick \/ QuickNotFound \/ GiveTerminal \/ TakeTerminal
           \/ HandOverFails \/ Quit \/ Restore \/ RestoreFails
  BY <1>1, <1>7
  DEF FinishInput, ToggleQuick, QuickNotFound, GiveTerminal, TakeTerminal,
      HandOverFails, Quit, Restore, RestoreFails
<1>8. CASE SaveEdit
  <2>1. CASE UNCHANGED <<store, faults>>
    BY <1>1, <1>8, <2>1 DEF SaveEdit
  <2>2. ASSUME NEW old \in Nth(collection, index),
               Save(insert(remove(collection, old), form.alias, NewServer(form)))
        PROVE  SelectionShown'
    <3>1. old \in DOMAIN collection /\ collection \in Collections /\ form \in Forms
      BY NthBelow DEF TypeOK
    <3>2. Len(collection') <= Len(collection) /\ collection' \in Collections
      <4>1. collection' = insert(remove(collection, old), form.alias, NewServer(form))
        BY <2>2 DEF Save
      <4>2. Len(collection') <= Len(collection)
        BY <3>1, <4>1, EditShrinks
      <4>. QED  BY <4>2, StepType DEF TypeOK
    <3>3. selected \in Nat /\ Len(collection) \in Nat /\ Len(collection') \in Nat
      BY <3>1, <3>2, CollectionParts, USizeAssumption DEF TypeOK
    <3>. QED  BY <1>8, <3>2, <3>3 DEF SaveEdit, SelectionShown
  <2>. QED  BY <1>8, <2>1, <2>2 DEF SaveEdit
<1>9. CASE ConfirmDelete
  BY <1>1, <1>2, <1>9 DEF ConfirmDelete
<1>10. CASE ConfirmAdd
  BY <1>1, <1>2, <1>10 DEF ConfirmAdd
<1>11. CASE ConnectSelected \/ ConnectQuick
  <2>1. PICK a \in DOMAIN collection : Connect(a)
    BY <1>11, NthBelow DEF ConnectSelected, ConnectQuick, TypeOK
  <2>2. Len(collection') = Len(collection)
    BY <2>1, ConnectKeeps DEF Len
  <2>3. UNCHANGED <<selected, highlight>> /\ at' = "connect"
    BY <2>1 DEF Connect
  <2>. QED  BY <2>2, <2>3 DEF SelectionShown
<1>12. CASE FinalSave
  BY <1>1, <1>12 DEF FinalSave, Save
<1>13. CASE UNCHANGED vars
  BY <1>13 DEF vars, SelectionShown
<1>. QED
  BY <1>3, <1>4, <1>5, <1>6, <1>7, <1>8, <1>9, <1>10, <1>11, <1>12, <1>13
  DEF Next, Exited

LEMMA StepDialog ==
  TypeOK /\ Shown /\ [Next]_vars => DialogShown'
<1>. SUFFICES ASSUME TypeOK, Shown, [Next]_vars PROVE DialogShown'
  OBVIOUS
<1>1. CASE UNCHANGED <<mode, index, chosen, collection>> /\ at' # "open"
  BY <1>1 DEF Shown, DialogShown
<1>2. CASE mode' \notin {"edit", "delete"} /\ at' # "open"
  BY <1>2 DEF DialogShown
<1>3. CASE OpenApp \/ OpenBlind
  BY <1>3 DEF OpenApp, OpenBlind, Shown, DialogShown
<1>4. CASE StartDelete \/ StartEdit
  <2>1. /\ at' = "draw" /\ index' = selected /\ chosen' = Highlighted
        /\ UNCHANGED collection
    BY <1>4 DEF StartDelete, StartEdit
  <2>2. Nth(collection, selected) \subseteq Highlighted
    BY SelectedHighlighted DEF Shown
  <2>. QED  BY <2>1, <2>2 DEF DialogShown
<1>5. CASE Setup \/ SetupFails \/ Draw \/ LoopFails \/ Move \/ Type \/ BadPort \/ Choose
  BY <1>1, <1>5
  DEF Setup, SetupFails, Draw, LoopFails, Move, Type, BadPort, Choose
<1>6. CASE GiveTerminal \/ TakeTerminal \/ HandOverFails \/ Quit \/ Restore
           \/ RestoreFails
  BY <1>1, <1>6
  DEF GiveTerminal, TakeTerminal, HandOverFails, Quit, Restore, RestoreFails
<1>7. CASE Help \/ StartAdd \/ Escape \/ FinishInput \/ ToggleQuick \/ QuickNotFound
  BY <1>2, <1>7
  DEF Help, StartAdd, Escape, FinishInput, ToggleQuick, QuickNotFound
<1>8. CASE SaveEdit \/ ConfirmDelete \/ ConfirmAdd \/ ConnectSelected \/ ConnectQuick
  BY <1>2, <1>8
  DEF SaveEdit, ConfirmDelete, ConfirmAdd, ConnectSelected, ConnectQuick, Connect
<1>9. CASE FinalSave
  BY <1>1, <1>9 DEF FinalSave, Save
<1>10. CASE UNCHANGED vars
  BY <1>10 DEF vars, Shown, DialogShown
<1>. QED
  BY <1>3, <1>4, <1>5, <1>6, <1>7, <1>8, <1>9, <1>10 DEF Next, Exited

LEMMA ShownHolds == Spec => []Shown
<1>1. Init => Shown
  BY DEF Init, Shown, SelectionShown, DialogShown
<1>2. TypeOK /\ Shown /\ [Next]_vars => Shown'
  BY StepSelection, StepDialog DEF Shown
<1>. QED  BY <1>1, <1>2, TypeCorrect, PTL DEF Spec

\* The property of one step, as ActsOnShown has it.
ActShown ==
  /\ \A a \in DOMAIN collection \ DOMAIN collection' : at = "key" => a \in chosen
  /\ (at = "key" /\ at' = "connect") =>
       \A a \in DOMAIN collection : collection'[a] # collection[a] => a \in chosen'

LEMMA StepActs == TypeOK /\ Shown /\ [Next]_vars => ActShown
<1>. SUFFICES ASSUME TypeOK, Shown, [Next]_vars PROVE ActShown
  OBVIOUS
<1>1. CASE UNCHANGED collection
  BY <1>1 DEF ActShown
<1>2. CASE at # "key"
  BY <1>2 DEF ActShown
<1>3. CASE Setup \/ SetupFails \/ Draw \/ LoopFails \/ Move \/ Help \/ StartDelete
           \/ StartAdd \/ StartEdit \/ Type \/ BadPort \/ Escape \/ Choose
  BY <1>1, <1>3
  DEF Setup, SetupFails, Draw, LoopFails, Move, Help, StartDelete, StartAdd,
      StartEdit, Type, BadPort, Escape, Choose
<1>4. CASE FinishInput \/ ToggleQuick \/ QuickNotFound \/ GiveTerminal \/ TakeTerminal
           \/ HandOverFails \/ Quit \/ Restore \/ RestoreFails
  BY <1>1, <1>4
  DEF FinishInput, ToggleQuick, QuickNotFound, GiveTerminal, TakeTerminal,
      HandOverFails, Quit, Restore, RestoreFails
<1>5. CASE OpenApp \/ OpenBlind \/ FinalSave
  BY <1>2, <1>5 DEF OpenApp, OpenBlind, FinalSave
<1>6. CASE SaveEdit
  <2>1. CASE UNCHANGED <<store, faults>>
    BY <1>1, <2>1
  <2>2. ASSUME NEW old \in Nth(collection, index),
               Save(insert(remove(collection, old), form.alias, NewServer(form)))
        PROVE  ActShown
    <3>1. /\ old \in DOMAIN collection /\ collection \in Collections /\ form \in Forms
          /\ old \in chosen
      BY <1>6, NthBelow DEF TypeOK, SaveEdit, Shown, DialogShown
    <3>2. collection' = insert(remove(collection, old), form.alias, NewServer(form))
      BY <2>2 DEF Save
    <3>3. DOMAIN collection' = (DOMAIN collection \ {old}) \union {form.alias}
      BY <3>1, <3>2, EditShrinks
    <3>4. at' = "draw"
      BY <1>6 DEF SaveEdit
    <3>. QED  BY <3>1, <3>3, <3>4 DEF ActShown
  <2>. QED  BY <1>6, <2>1, <2>2 DEF SaveEdit
<1>7. CASE ConfirmDelete
  <2>1. CASE UNCHANGED <<selected, highlight, store, faults>>
    BY <1>1, <2>1
  <2>2. CASE Save([b \in DOMAIN collection \ Nth(collection, index) |-> collection[b]])
    <3>1. Nth(collection, index) \subseteq chosen /\ at' = "draw"
      BY <1>7 DEF ConfirmDelete, Shown, DialogShown
    <3>2. DOMAIN collection' = DOMAIN collection \ Nth(collection, index)
      BY <2>2, DropType DEF Save, TypeOK
    <3>. QED  BY <3>1, <3>2 DEF ActShown
  <2>. QED  BY <1>7, <2>1, <2>2 DEF ConfirmDelete
<1>8. CASE ConfirmAdd
  <2>1. CASE UNCHANGED <<selected, highlight, store, faults>>
    BY <1>1, <2>1
  <2>2. CASE Save(insert(collection, form.alias, NewServer(form)))
    <3>1. collection \in Collections /\ form \in Forms
      BY DEF TypeOK
    <3>2. collection' = insert(collection, form.alias, NewServer(form)) /\ at' = "draw"
      BY <1>8, <2>2 DEF Save, ConfirmAdd
    <3>3. DOMAIN collection' = DOMAIN collection \union {form.alias}
      BY <3>1, <3>2, AddType
    <3>. QED  BY <3>2, <3>3 DEF ActShown
  <2>. QED  BY <1>8, <2>1, <2>2 DEF ConfirmAdd
<1>9. CASE ConnectSelected \/ ConnectQuick
  <2>1. PICK a \in DOMAIN collection : Connect(a) /\ a \in chosen'
    <3>1. Nth(collection, selected) \subseteq Highlighted
      BY SelectedHighlighted DEF Shown
    <3>. QED  BY <1>9, <3>1, NthBelow DEF ConnectSelected, ConnectQuick, TypeOK
  <2>. QED  BY <2>1, ConnectKeeps DEF ActShown
<1>10. CASE UNCHANGED vars
  BY <1>1, <1>10 DEF vars
<1>. QED
  BY <1>3, <1>4, <1>5, <1>6, <1>7, <1>8, <1>9, <1>10 DEF Next, Exited

\* The session changes and connects to what the table showed highlighted: see
\* ActsOnShown.
THEOREM ShownIsMeant == Spec => ActsOnShown
<1>1. TypeOK /\ Shown /\ [Next]_vars => [ActShown]_vars
  BY StepActs
<1>2. Spec => [][ActShown]_vars
  BY <1>1, TypeCorrect, ShownHolds, PTL DEF Spec
<1>. QED  BY <1>2 DEF ActsOnShown, ActShown
=============================================================================
