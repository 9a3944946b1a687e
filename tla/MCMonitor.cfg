SPECIFICATION Spec
CONSTANTS
    Viewers = {v1, v2}
    User = User
    Idle = Idle
    MaxRuns = 3
    Cycle = Cycle
    Kick = Kick
    Final = Final
    MaxRows = 4
    FullBatch = 2
    Rules <- const_Rules
    NotifyWindow = 2
    MaxTime = 8
    Capacity = 1
    MaxEvents = 3
INVARIANTS
    MonInv
    RecInv
    RegInv
PROPERTIES
    IdleStops
    AlertsHold
    RegGoesOn
CHECK_DEADLOCK FALSE
