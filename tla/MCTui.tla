------------------------------- MODULE MCTui -------------------------------
(* Instances of Tui for TLC: three aliases, two of them stored. *)
EXTENDS Tui, TLC
CONSTANT h1
MCStored == (1 :> [host |-> h1, last_connect |-> "never"])
            @@ (3 :> [host |-> h1, last_connect |-> "now"])
=============================================================================
