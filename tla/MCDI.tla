------------------------------- MODULE MCDI -------------------------------
(***************************************************************************)
(* Instances of DI for TLC.                                                *)
(***************************************************************************)
EXTENDS DI, TLC

\* Calls, devices, GUIDs and directives are interchangeable.
Symmetry == Permutations(Calls) \cup Permutations(Devices) \cup Permutations(Guids) \cup Permutations(Rvs)
=============================================================================
