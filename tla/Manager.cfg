SPECIFICATION FairSpec
CONSTANTS
    Port = {p1}
    Password = {w1, w2}
    None = None
    MaxPid = 3
    MaxConns = 2
    MaxCommands = 3
    MaxInbox = 2
    MaxFaults = 2
INVARIANT Orderly
PROPERTY LateWritesCounted
PROPERTY RemovedStops
PROPERTY ReportsSettle
CHECK_DEADLOCK FALSE
