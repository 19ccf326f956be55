SPECIFICATION Spec
CONSTANTS
    Port = {1, 2}
    Name <- Names
    Password = {w1, w2}
    Ip = {i1}
    Strip <- StripFun
    Lower <- LowerFun
    Deployment = {{"api", "cli"}}
    Unix = TRUE
    None = None
    MaxOps = 4
    MaxFaults = 2
    MaxSteps = 5
SYMMETRY Symmetry
CONSTRAINT Apart
INVARIANT KeysDurable
INVARIANT PasswordsAgree
INVARIANT ServedAsStored
CHECK_DEADLOCK FALSE
