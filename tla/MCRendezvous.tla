---------------------------- MODULE MCRendezvous ----------------------------
(***************************************************************************)
(* Instances of Rendezvous for TLC.                                        *)
(***************************************************************************)
EXTENDS Rendezvous, TLC

\* Calls, owners and GUIDs are interchangeable.
Symmetry == Permutations(Regs) \cup Permutations(Lookups) \cup Permutations(Owners) \cup Permutations(Guids)
=============================================================================
