------------------------------ MODULE MCStore ------------------------------
(***************************************************************************)
(* Instances of StoreSessions for TLC.                                     *)
(***************************************************************************)
EXTENDS StoreSessions, TLC

\* Callers and sessions are interchangeable.
Symmetry == Permutations(Callers) \cup Permutations(Ids)
=============================================================================
