--------------------------- MODULE MCConfigStore ----------------------------
(***************************************************************************)
(* Instances of ConfigStore: two commands, which are alike, and two        *)
(* profiles                                                                *)
(***************************************************************************)
EXTENDS ConfigStore, TLC

CONSTANTS p1, p2, home, other

Symmetric == Permutations(Proc)
=============================================================================
