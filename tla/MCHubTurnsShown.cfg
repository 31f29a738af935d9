CONSTANTS
    Sends = {m1, m2, m3}
    Stops = {}
    Removals = {}
    Closes = {}
    HttpCalls = {}
    None = None
SPECIFICATION Spec
INVARIANT QueueShownIsCurrent
CHECK_DEADLOCK FALSE
