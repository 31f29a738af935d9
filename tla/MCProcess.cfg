CONSTANTS
    None = None
    Scenes = {1, 2, 3}
    Known = {1, 2}
    Profiles <- MCProfiles
    Flags <- MCFlags
    Environments <- MCEnvironments
    Devices = {d1}
    MaxStarts = 2
    Calls = {c1, c2, c3}
    Asked <- MCAsked
    Sessions = {s1}
    RingCapacity = 2
SYMMETRY Symmetry
SPECIFICATION Spec
INVARIANT RemoteIsGuarded
INVARIANT TableMatchesDispatch
INVARIANT RunsAreRecorded
CHECK_DEADLOCK FALSE
