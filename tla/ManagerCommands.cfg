SPECIFICATION Spec
CONSTANTS
    MaxRemotes = 2
    MaxDscp = 1
    MaxPorts = 2
    SocketBuf = 4
    Hash <- MCHash
    DefaultSize = 1
    MaxDensity = 0
    Inputs <- MCInputs
    Commands <- MCCommands
    Atoi <- MCAtoi
    HostPorts = {"h:6001"}
    Digits <- MCDigits
    BufSize = 62
    MaxCommands = 3
    MaxFaults = 1
INVARIANT TableTrue
INVARIANT SettingsReach
INVARIANT AnswersWhole
