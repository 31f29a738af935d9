CONSTANTS
    Sends = {m1}
    Stops = {}
    Removals = {}
    Closes = {k1}
    HttpCalls = {}
    None = None
    Clients = {c1}
    HttpClients = {}
    HistoryMayFail = FALSE
    MaxSeq = 4
    MaxFrames = 2
    MaxBytes = 100
    CoalesceBytes = 2
    Overhead = 1
SPECIFICATION FramesSpec
INVARIANT AttachedMeansListening
CHECK_DEADLOCK FALSE
