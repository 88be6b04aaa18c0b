------------------------------ MODULE MCMemory ------------------------------
(***************************************************************************)
(* Two engines, of which one forks, on two process groups.               *)
(***************************************************************************)
EXTENDS Doctor, TLC

CONSTANTS g1, g2, none

Two == <<"redis", "pogocache">>
Spare == {g1, g2}

Alike == Permutations(Spare)
Forks == {"pogocache"}

=============================================================================
