CONSTANTS
    Sessions = {a, b}
    Opens = {o1, o2}
    PageSize = 1
    PagesAtOpen = 2
    None = None
    HistoryMayFail = FALSE
    Begun = {a}
    Talking = {a}
    MaxSaid = 4
SYMMETRY Symmetry
SPECIFICATION Spec
INVARIANT OnlyTheOpenSession
INVARIANT NothingIsMissed
INVARIANT InOrderUnlessOvertaken
