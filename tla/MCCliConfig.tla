------------------------------ MODULE MCCliConfig -------------------------------
(* CliConfig on a small instance: one malformed text among the texts.      *)
EXTENDS CliConfig, TLC

Symmetry == Permutations(Texts \ Malformed) \cup Permutations(Gens)
=============================================================================
