----------------------------- MODULE MCPairing ------------------------------
EXTENDS Pairing, TLC

\* Calls of one kind are interchangeable.
Symmetry ==
    Permutations(Begins) \cup Permutations(Guesses) \cup Permutations(Revokes)
=============================================================================
