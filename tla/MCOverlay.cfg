CONSTANTS
    Creates = {c1, c2}
    Projects = {p1}
    Notes = {n1}
    Edits = {e1}
    Paths = {a}
    Sessions = {s1}
    Labels = {x}
    NoPath = NoPath
    None = None
    MaxCrashes = 1
    MaxFaults = 1
SYMMETRY Symmetry
SPECIFICATION Spec
INVARIANT AnsweredIsSaved
INVARIANT NotesAreWellFounded
PROPERTY KeepsTheDocument
PROPERTY ReorderMovesOne
CHECK_DEADLOCK FALSE
