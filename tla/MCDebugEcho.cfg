SPECIFICATION Spec
CONSTANTS
    Clients = {w1, w2}
    NoClient = NoClient
    Users = {u1, u2}
    NoUser = NoUser
    MaxShells = 3
    Cmds = {c1, c2}
    NoCmd = NoCmd
    MaxText = 1
    Loop = Loop
    Full = Full
    Reader = Reader
    Stopper = Stopper
    MaxSeq = 4
    Capacity = 2
    BatchSize = 2
    MaxFlush = 2
    Limit = 2
    MaxBoots = 1
INVARIANTS
    CompleteIsExecuted
CHECK_DEADLOCK FALSE
