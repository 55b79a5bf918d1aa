------------------------------- MODULE MCKsDs -------------------------------
(***************************************************************************)
(* KsDs for TLC: five keys that collide in the last slots and wrap around, *)
(* enough to double 4 -> 8, to fill 8 slots with entries and tombstones    *)
(* until the table is rebuilt at the same capacity.                        *)
(***************************************************************************)
EXTENDS KsDs, TLC

CONSTANTS k1, k2, k3, k4, k5

MCHash == (k1 :> 7) @@ (k2 :> 7) @@ (k3 :> 6) @@ (k4 :> 0) @@ (k5 :> 3)

Symmetry == Permutations(Values)

=============================================================================
