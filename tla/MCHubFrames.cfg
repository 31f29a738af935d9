CONSTANTS
    Sends = {m1, m2}
    Stops = {}
    Removals = {}
    Closes = {}
    HttpCalls = {}
    None = None
    Clients = {c1}
    HttpClients = {c1}
    HistoryMayFail = TRUE
    MaxSeq = 4
    MaxFrames = 2
    MaxBytes = 100
    CoalesceBytes = 2
    Overhead = 1
SYMMETRY Symmetry
SPECIFICATION FramesSpec
INVARIANT FramesTypeOK
INVARIANT FramesFollowTheReply
INVARIANT RunningTurnIsBuffered
CHECK_DEADLOCK FALSE
