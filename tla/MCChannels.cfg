CONSTANTS
    Sockets = {w1}
    Posts = {p1}
    Streams = {s1, s2}
    Calls = {c1, c2}
    Devices = {d1}
    Challenges = {x1, x2}
    MaxInFlight = 1
    None = None
SYMMETRY Symmetry
SPECIFICATION Spec
INVARIANT TypeOK
INVARIANT ChallengesAdmitOnce
INVARIANT FacesHaveOneReader
INVARIANT EndedLeavesNothing
INVARIANT ClientsHaveCredentials
CHECK_DEADLOCK FALSE
