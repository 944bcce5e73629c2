CONSTANTS
    a = a
    b = b
    Val = {a, b}
    Chain = {self, other}
    Self = self
    Balance <- MCBalance
    Stake <- MCStake
    Payments <- MCPayments
    Amounts = {3}
    Lists <- MCLists
    Fee = 1
    Mint = 4
    DaoMint = 1
    UnstakingBlocks = 1
    DelegateUnstakingBlocks = 2
    MaxPauseBlocks = 1
    MinimumStakeForValidators = 3
    MinimumStakeForDelegates = 2
    NonSignWindow = 1
    MaxNonSign = 0
    NonSignSlashPercentage = 20
    DoubleSignSlashPercentage = 80
    EarlyWithdrawalPenalty = 20
    StakePercentForSubsidizedCommittee = 33
    MaxHeight = 5
    MaxTxs = 2
    MaxReports = 1
SPECIFICATION Spec
CHECK_DEADLOCK FALSE
INVARIANTS TypeOK TokensAreConserved CommitteesAreTallied DelegatesAreCovered UnstakersAreReleased PausedAreForcedOut
PROPERTIES UnstakingIsFinal IndexesAreKept
