CONSTANTS
    Sends = {m1, m2}
    Stops = {i1}
    Removals = {}
    Closes = {}
    HttpCalls = {}
    None = None
SPECIFICATION Spec
PROPERTY StopAbandonsTheQueue
CHECK_DEADLOCK FALSE
