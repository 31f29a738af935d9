CONSTANTS
    Begins = {b1, b2}
    Guesses = {g1, g2, g3}
    Revokes = {r1}
    Times = {0, 1, 2}
    TTL = 1
    MaxAttempts = 2
    None = None
SYMMETRY Symmetry
SPECIFICATION Spec
INVARIANT CodesPairOnceAndInTime
INVARIANT GuessedAtCodesAreBurned
INVARIANT GoodCodesStay
PROPERTY RevocationIsFinal
CHECK_DEADLOCK FALSE
