SPECIFICATION FairSpec
CONSTANTS
    Conn = {c1, c2}
    IdleTimer = TRUE
INVARIANT CallbacksSafe
INVARIANT BuffersServed
INVARIANT OrphansEnd
PROPERTY Delivered
CHECK_DEADLOCK FALSE
