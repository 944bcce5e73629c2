CONSTANTS
    a = a
    b = b
    c = c
    Validator = {a, b, c}
    Block = {x, y}
    None = None
    Quorum <- MCQuorum
    PacemakerSets <- MCPacemakerSets
    Candidates <- EitherWeak
    MaxRound = 1
    MaxRootHeight = 0
    MaxRestarts = 0
    MayFail = {}
SPECIFICATION Spec
SYMMETRY Symmetry
CHECK_DEADLOCK FALSE
INVARIANTS OneBlockPerView
PROPERTY BlocksAreFinal
