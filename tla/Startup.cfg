SPECIFICATION StartupSpec
CONSTANTS
    MaxRemotes = 2
    MaxDscp = 2
    MaxPorts = 2
    SocketBuf = 4
    Spins = 1
    Inputs <- MCInputs
    V6Hosts = {"v6"}
    Methods = {"chacha20-ietf-poly1305"}
    Privileged = {"80", "443"}
    Environ <- MCEnviron
INVARIANT ComesUp
INVARIANT Meets
INVARIANT NothingLeft
PROPERTY ProgramStops
