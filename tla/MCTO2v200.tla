---------------------------- MODULE MCTO2v200 ----------------------------
(***************************************************************************)
(* Instances of TO2v200 for TLC: one call of 2.0 and one of 1.01.          *)
(***************************************************************************)
EXTENDS TO2v200, TLC

CONSTANTS d1, g1, g2, g3, k1, k2, v1, v2

MCInitGuid == d1 :> g1

\* GUIDs drawn at random are interchangeable.
Symmetry == Permutations(Guids \ {g1})
=============================================================================
