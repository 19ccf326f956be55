SPECIFICATION Spec
CONSTANTS
    c1 = c1
    c2 = c2
    Conn <- MCConn
INVARIANT CallbacksSafe
PROPERTY Delivered
PROPERTY RelayKept
