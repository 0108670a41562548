------------------------------ MODULE AliasMap ------------------------------
(* What the alias store promises to sessions that do not overlap: a map from *)
(* aliases to servers. A session takes a copy of the map, changes the copy   *)
(* and stores it back whole. A store that is cut short leaves the first      *)
(* aliases of the copy, in alias order, and loses the others. Nothing is     *)
(* promised from the moment two sessions overlap to the moment none is left. *)
EXTENDS Naturals
CONSTANTS Aliases, Servers
VARIABLES map, view, session

amvars == <<map, view, session>>
Collections == UNION {[D -> Servers] : D \in SUBSET Aliases}
Nothing == [a \in {} |-> a]
Without(c, a) == [b \in DOMAIN c \ {a} |-> c[b]]
With(c, a, s) == [b \in DOMAIN c \cup {a} |-> IF b = a THEN s ELSE c[b]]
Below(c, n) == [b \in {x \in DOMAIN c : x < n} |-> c[b]]
Torn(c) == {c} \cup {Below(c, n) : n \in Aliases}

Init == map \in Collections /\ view = Nothing /\ session = "closed"

Open == session = "closed" /\ session' = "open" /\ UNCHANGED <<map, view>>

Read == session = "open" /\ view' = map /\ UNCHANGED <<map, session>>

Change ==
  /\ session = "open"
  /\ \E a, b \in Aliases, s \in Servers : view' \in {Without(view, a), With(Without(view, a), b, s)}
  /\ UNCHANGED <<map, session>>

Store == session = "open" /\ session' = "storing" /\ map' = view /\ UNCHANGED view

Commit == session = "storing" /\ session' = "open" /\ UNCHANGED <<map, view>>

Tear == session = "storing" /\ session' = "open" /\ map' \in Torn(view) /\ UNCHANGED view

Close ==
  /\ session \in {"open", "storing"}
  /\ session' = "closed"
  /\ view' = Nothing
  /\ map' = map \/ (session = "storing" /\ map' \in Torn(view))

Overlap ==
  /\ session' = "shared" \/ (session = "shared" /\ session' = "closed")
  /\ map' \in Collections
  /\ view' = Nothing

Next == Open \/ Read \/ Change \/ Store \/ Commit \/ Tear \/ Close \/ Overlap

Spec == Init /\ [][Next]_amvars
=============================================================================
