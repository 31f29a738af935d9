CONSTANTS
    Sends = {m1, m2, m3}
    Stops = {i1}
    Removals = {}
    Closes = {}
    HttpCalls = {m1, m2, m3, i1}
    None = None
SPECIFICATION FairSpec
PROPERTY PromisedTurnsSettle
PROPERTY DriversEmptyTheQueue
CHECK_DEADLOCK FALSE
