--------------------------- MODULE MCReplayPushes ---------------------------
EXTENDS ReplayPushes

\* Turns only compare for equality.
Symmetry == Permutations(Turns)
=============================================================================
