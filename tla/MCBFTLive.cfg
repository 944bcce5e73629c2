CONSTANTS
    a = a
    b = b
    c = c
    Validator = {a, b, c}
    Block = {x}
    None = None
    Quorum <- MCQuorum
    PacemakerSets <- MCPacemakerSets
    Candidates <- StrongThenWeak
    MaxRound = 1
    MaxRootHeight = 0
    MaxRestarts = 0
    MayFail = {a, b}
SPECIFICATION FairSpec
CHECK_DEADLOCK FALSE
PROPERTY EveryRoundEnds
