SPECIFICATION Spec
CONSTANTS
    Bits4 = 2
    Bits6 = 3
    host1 = host1
    host2 = host2
    Name <- MCName
    Pattern <- MCPattern
    Network <- MCNetwork
    MaxLines = 4
    MaxChanges = 2
    MaxSteps = 5
 
INVARIANT NodesExact
INVARIANT SetsExact
CHECK_DEADLOCK FALSE
