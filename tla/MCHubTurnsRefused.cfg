CONSTANTS
    Sends = {m1, m2}
    Stops = {}
    Removals = {}
    Closes = {}
    HttpCalls = {}
    None = None
SPECIFICATION Spec
INVARIANT EngineNeverRefuses
CHECK_DEADLOCK FALSE
