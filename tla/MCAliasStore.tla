---------------------------- MODULE MCAliasStore ----------------------------
(* Instances of AliasStore for TLC: three aliases, two of them stored. *)
EXTENDS AliasStore, TLC
CONSTANTS p1, p2, h1, h2
MCStored == (1 :> [host |-> h1, last_connect |-> "never"])
            @@ (2 :> [host |-> h1, last_connect |-> "now"])
MCSymmetry == Permutations({p1, p2})
=============================================================================
