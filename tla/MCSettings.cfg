CONSTANTS
    Sets = {s1, s2}
    Edits = {e1}
    Keys = {k, other}
    Values = {x, y}
    Editable = {k}
    Accepted = {x}
    Found = {"global", "project"}
    None = None
    MayNotRead = TRUE
SYMMETRY Symmetry
SPECIFICATION Spec
INVARIANT EachKeyShowsItsLastEdit
INVARIANT WriteIsShown
CHECK_DEADLOCK FALSE
