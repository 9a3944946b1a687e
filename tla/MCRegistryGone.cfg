SPECIFICATION RegSpec
CONSTANTS
 Capacity = 1
 MaxEvents = 3
INVARIANTS
    GoneIsForgotten
CHECK_DEADLOCK FALSE
