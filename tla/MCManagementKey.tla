----------------------------- MODULE MCManagementKey -----------------------------
EXTENDS ManagementKey, TLC

CONSTANTS a1, a2, u1, u2

\* Applications are interchangeable, and so are the user's keys.
KeySymmetry == Permutations({a1, a2}) \cup Permutations({u1, u2})
=============================================================================
