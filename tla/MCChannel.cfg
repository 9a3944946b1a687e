SPECIFICATION Spec
CONSTANTS
    Cap = 3
    IdleTicks = 1
    StallTicks = 2
    StartTicks = 2
    Texts = {t1, t2}
    NoText = NoText
    MaxFailures = 2
    MaxPolls = 2
    MaxEvents = 2
    MaxOps = 3
    MaxPictures = 3
    MaxChanges = 2
    MaxRead = 3
    Tiers = 3
    Start = 1
    Window = 3
    BadMin = 2
    GoodMin = 3
    MinInterval = 2
    UpExtra = 2
    Cooldown = 3
    CooldownMax = 6
INVARIANTS
    QueueInv
    InputInv
    UnitInv
PROPERTIES
    ClipHolds
    AdvisorHolds
    ChannelGoesOn
CHECK_DEADLOCK FALSE
