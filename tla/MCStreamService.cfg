SPECIFICATION Spec
CONSTANTS
    Sessions = {s1, s2}
    Tiers = {low, high}
    BaseTier = high
    Tries = 3
    MaxStalls = 3
    IdleProbe = TRUE
    MaxEpoch = 4
    Absent = Absent
    Stopped = Stopped
SYMMETRY SessionSymmetry
INVARIANTS
    OwnerStreams
    Routing
    AdvisorAgrees
    NothingLeft
    IInv
PROPERTIES
    ImplementsSlot
