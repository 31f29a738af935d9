----------------------------- MODULE MCChannels -----------------------------
EXTENDS Channels, TLC

\* Requests of one kind and challenges are interchangeable.
Symmetry ==
    Permutations(Streams) \cup Permutations(Calls) \cup Permutations(Challenges)
=============================================================================
