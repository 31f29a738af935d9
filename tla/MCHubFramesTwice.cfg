CONSTANTS
    Sends = {m1}
    Stops = {}
    Removals = {}
    Closes = {}
    HttpCalls = {}
    None = None
    Clients = {c1}
    HttpClients = {}
    HistoryMayFail = FALSE
    MaxSeq = 4
    MaxFrames = 2
    MaxBytes = 100
    CoalesceBytes = 2
    Overhead = 1
SPECIFICATION FramesSpec
PROPERTY CaughtUpAtMostOnce
CHECK_DEADLOCK FALSE
