------------------------------ MODULE MCTO2 ------------------------------
(***************************************************************************)
(* Instances of TO2 for TLC.                                               *)
(***************************************************************************)
EXTENDS TO2, TLC

CONSTANTS d1, g1, g2, g3, k1, k2

MCInitGuid == d1 :> g1

\* Calls of TO2 differ only in the order they start in; of the GUIDs, those
\* drawn at random are interchangeable.
Symmetry == Permutations(Attempts) \cup Permutations(Guids \ {g1})
=============================================================================
