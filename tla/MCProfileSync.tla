---------------------------- MODULE MCProfileSync ----------------------------
(***************************************************************************)
(* ProfileSync for TLC: two files, one unit, the service and a user's run. *)
(***************************************************************************)
EXTENDS ProfileSync, TLC

\* Texts are only compared with each other.
Symmetry == Permutations(Values)
=============================================================================
