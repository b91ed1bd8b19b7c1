--------------------------- MODULE MCCodexInstances ---------------------------
(***************************************************************************)
(* CodexInstances for TLC.                                                 *)
(***************************************************************************)
EXTENDS CodexInstances, TLC

\* Ids and accounts are only compared with each other.
Symmetry == Permutations(Instances) \cup Permutations(Accounts)
=============================================================================
