SPECIFICATION Spec
CONSTANTS
    Parts = {"sessions", "files", "settings", "retention", "apps"}
    Users = {u1, u2, u3}
    MaxSessions = 1
    MaxJobs = 2
    Grace = 2
    TTL = 1
    Stale = 1
    Keys = {k1, k2}
    Values = {1, 2}
    Layered = FALSE
    Fixed = {k1}
    MaxEdits = 2
    MaxSaves = 1
    Callers = {loop}
    Written = {"perf", "network", "logs"}
    LastHour = 2
    MaxInserts = 3
    MaxFailures = 1
    Keep <- const_Keep
    MaxMetrics = 1
    MaxSize = 1
    BatchRows = 1
    MaxPids = 1
INVARIANTS
    FileInv
    AppsInv
PROPERTIES
    ControlHolds
    SettingsHold
    TrimHolds
    ServicesGoOn
CHECK_DEADLOCK FALSE
