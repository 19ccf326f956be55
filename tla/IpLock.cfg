SPECIFICATION Spec
CONSTANTS
    Ip = {a, b, c}
    NoIp = NoIp
    RecentMax = 2
    RecentTtl = 0
    MaxTrackIps = 1
    WriteOutcomes = {TRUE, FALSE}
    MaxConns = 2
    MaxTime = 2
    MaxDisturb = 2
SYMMETRY Clients
INVARIANT LockKept
INVARIANT StatusTruth
INVARIANT ListsTrue
PROPERTY HolderNotDisplaced
