SPECIFICATION Spec
CONSTANTS
    V4 = {"d4"}
    V6 = {"d6"}
    Name = {"name"}
    Dns <- MCDns
    App = {a, b}
    Target <- MCTarget
    Forward = {"d6", "name"}
    None = None
    MaxAsked = 2
    MaxLocal = 2
    MaxRemote = 2
    MaxLookups = 1
    MaxReplies = 1
SYMMETRY MCSymmetry
INVARIANT AnswersAsked
PROPERTY ImplementsService
CHECK_DEADLOCK FALSE
