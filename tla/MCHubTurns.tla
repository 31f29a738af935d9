----------------------------- MODULE MCHubTurns -----------------------------
EXTENDS HubTurns

\* Calls of one kind are interchangeable. Sound for the safety runs only.
Symmetry ==
    Permutations(Sends) \cup Permutations(Stops) \cup Permutations(Closes)
=============================================================================
