SPECIFICATION Spec
CONSTANTS
    Encoders = {e1, e2}
    Other = Other
SYMMETRY EncoderSymmetry
INVARIANTS
    KillsNoneInUse
    OtherSpared
    KnownServersEnd
CHECK_DEADLOCK FALSE
