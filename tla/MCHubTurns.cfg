CONSTANTS
    Sends = {m1, m2, m3}
    Stops = {i1}
    Removals = {r1}
    Closes = {c1}
    HttpCalls = {m1, m2, m3, i1, r1, c1}
    None = None
SYMMETRY Symmetry
SPECIFICATION Spec
INVARIANT TypeOK
INVARIANT EveryMessageHasOnePlace
INVARIANT BusyMeansDriven
INVARIANT OnlyStaleSendsStrand
PROPERTY KeepsThePromise
CHECK_DEADLOCK FALSE
