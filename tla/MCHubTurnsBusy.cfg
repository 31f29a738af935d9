CONSTANTS
    Sends = {m1, m2}
    Stops = {}
    Removals = {}
    Closes = {}
    HttpCalls = {m1, m2}
    None = None
SPECIFICATION FairSpec
PROPERTY NoSessionStaysBusy
CHECK_DEADLOCK FALSE
