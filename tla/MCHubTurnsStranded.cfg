CONSTANTS
    Sends = {m1, m2}
    Stops = {}
    Removals = {}
    Closes = {}
    HttpCalls = {}
    None = None
SPECIFICATION FairSpec
PROPERTY QueuedIsSent
CHECK_DEADLOCK FALSE
