---------------------------- MODULE MCHubFrames -----------------------------
EXTENDS HubFrames

\* Calls of one kind and clients are interchangeable.
Symmetry ==
    Permutations(Sends) \cup Permutations(Clients)
=============================================================================
