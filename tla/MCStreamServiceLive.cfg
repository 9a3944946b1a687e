SPECIFICATION FairSpec
CONSTANTS
    Sessions = {s1, s2}
    Tiers = {low, high}
    BaseTier = high
    Tries = 1
    MaxStalls = 1
    IdleProbe = TRUE
    MaxEpoch = 1
    Absent = Absent
    Stopped = Stopped
PROPERTIES
    SlotReleased
    SwitchTakesEffect
