CONSTANTS
    Fsm = {f1, f2}
    MaxTxs = 2
    HostTimeouts = FALSE
    PluginTimeouts = FALSE
SPECIFICATION Spec
INVARIANTS
    NoFatal
PROPERTIES
    TransactionsAreAtomic
CHECK_DEADLOCK FALSE
