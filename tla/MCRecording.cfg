SPECIFICATION Spec
CONSTANTS
    MaxSessions = 2
    None = None
INVARIANTS
    TypeOK
    StartsExclude
PROPERTIES
    DoneIsKept
    NaturalEndNoticed
    StopEnds
CHECK_DEADLOCK FALSE
