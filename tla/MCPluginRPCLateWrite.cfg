CONSTANTS
    Fsm = {f1}
    MaxTxs = 2
    HostTimeouts = TRUE
    PluginTimeouts = FALSE
SPECIFICATION Spec
INVARIANTS
    FailedLeavesNothing
CHECK_DEADLOCK FALSE
