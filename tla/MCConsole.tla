------------------------------- MODULE MCConsole -------------------------------
EXTENDS Console, TLC

CONSTANTS s1, s2

\* Slots are interchangeable.
SlotSymmetry == Permutations(Slots)
=============================================================================
