CONSTANTS
    MaxFrames = 2
    MaxBytes = 7
    CoalesceBytes = 2
    Overhead = 1
    Turns = {t1, t2}
    Kinds = {"text_delta", "tool_use"}
    MaxText = 2
    MaxPushes = 5
SYMMETRY Symmetry
SPECIFICATION PushesSpec
INVARIANT PushesTypeOK
INVARIANT SnapshotHasNoHole
INVARIANT HolesAreReported
INVARIANT NothingDroppedInVain
