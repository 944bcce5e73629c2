CONSTANTS
    a = a
    b = b
    c = c
    Validator = {a, b, c}
    Block = {x, y}
    None = None
    Quorum <- MCQuorum
    PacemakerSets <- MCPacemakerSets
    Candidates <- AlwaysWeak
    MaxRound = 0
    MaxRootHeight = 1
    MaxRestarts = 2
    MayFail = {}
SPECIFICATION Spec
SYMMETRY BlockSymmetry
CHECK_DEADLOCK FALSE
CONSTRAINT OneKindOfFault
INVARIANTS LocksAreCertified SteadyVotersStayLocked
