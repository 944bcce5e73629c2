CONSTANTS
    cheap = cheap
    even = even
    dear = dear
    bad = bad
    Tx = {cheap, even, dear, bad}
    Malformed = {bad}
    Fee <- MCFee
    Size <- MCSize
    Batch <- ShortBatches
    MaxTotalBytes = 3
    MaxTransactionCount = 3
    DropPercentage = 35
    ChecksFail = FALSE
    MaxBatches = 3
    MaxHeight = 2
SPECIFICATION Spec
CHECK_DEADLOCK FALSE
INVARIANTS NeverUndercounted ProposalIsOfThisHeight
PROPERTY HighestFeesStay
