CONSTANTS
    Id = {x, y}
    Final = x
    None = None
    MaxHeight = 2
    MaxResets = 1
    MaxFaults = 1
    Peer = {p}
    QueueSize = 2
SPECIFICATION FairSpec
CHECK_DEADLOCK FALSE
INVARIANTS NoStaleValidation ConsensusFollowsTheChain QueueIsTheWindow
PROPERTY SyncCompletes
