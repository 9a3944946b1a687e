SPECIFICATION Spec
CONSTANTS
    Parts = {"retention"}
    Users = {u1}
    MaxSessions = 1
    MaxJobs = 0
    Grace = 2
    TTL = 1
    Stale = 1
    Keys = {}
    Values = {1}
    Layered = FALSE
    Fixed = {}
    MaxEdits = 0
    MaxSaves = 1
    Callers = {loop, manual}
    Written = {"perf"}
    LastHour = 2
    MaxInserts = 3
    MaxFailures = 0
    Keep <- const_Keep
    MaxMetrics = 1
    MaxSize = 9
    BatchRows = 1
    MaxPids = 0
PROPERTIES
    TrimLeavesLimit
CHECK_DEADLOCK FALSE
