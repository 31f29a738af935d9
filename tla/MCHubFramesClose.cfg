CONSTANTS
    Sends = {m1}
    Stops = {}
    Removals = {}
    Closes = {k1}
    HttpCalls = {k1}
    None = None
    Clients = {c1, c2}
    HttpClients = {c1}
    HistoryMayFail = FALSE
    MaxSeq = 1
    MaxFrames = 2
    MaxBytes = 100
    CoalesceBytes = 2
    Overhead = 1
SPECIFICATION FramesSpec
INVARIANT DeafOnlyThroughAClose
CHECK_DEADLOCK FALSE
