CONSTANTS
    Id = {x, y}
    Final = x
    None = None
    MaxHeight = 1
    MaxResets = 2
    MaxFaults = 0
    Peer = {p}
    QueueSize = 1
SPECIFICATION Spec
CHECK_DEADLOCK FALSE
INVARIANT CommittedStateIsTheBlocks
