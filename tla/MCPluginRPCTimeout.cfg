CONSTANTS
    Fsm = {f1, f2}
    MaxTxs = 1
    HostTimeouts = TRUE
    PluginTimeouts = TRUE
SPECIFICATION FairSpec
INVARIANTS
    NoStaleEntries
    WritesStayWithTheirMachine
PROPERTIES
    EveryCallReturns
CHECK_DEADLOCK FALSE
