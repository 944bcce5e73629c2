------------------------------ MODULE Staking -------------------------------
(***************************************************************************)
(* Stakes, rewards and slashes of the state machine (fsm/): the records of *)
(* the validators, the two indexes that tell a block which of them have to *)
(* be released or forced out, the accounts and pools, and the supply that  *)
(* tracks them. The chain is its own root and runs protocol version 1, the *)
(* only one this software accepts (CheckProtocolVersion), so the branches  *)
(* behind IsFeatureEnabled(2) are not taken.                               *)
(*                                                                         *)
(* s is the working state of the store while a block is applied: every     *)
(* handler is an operator from one such state to the next, and a block is  *)
(* BeginBlock, transactions and EndBlock. A step that would return an      *)
(* error is not taken: the transaction, or the block, is refused.          *)
(***************************************************************************)
EXTENDS Integers, FiniteSets, Functions

CONSTANTS
    Val,         \* the addresses; each is its own signer and output
    Chain, Self, \* the committees, and this chain's own
    Balance,     \* genesis: address -> tokens in the account
    Stake,       \* genesis: address -> stake of the validator, or 0
    Payments,    \* the rewards of a certificate: recipient -> percent
    Amounts,     \* the amounts of messages
    Lists,       \* and their lists of committees
    Fee,
    Mint,        \* tokens minted to the subsidized committees of a block
    DaoMint,     \* and to the DAO
    UnstakingBlocks, DelegateUnstakingBlocks, MaxPauseBlocks,
    MinimumStakeForValidators, MinimumStakeForDelegates,
    NonSignWindow, MaxNonSign,
    NonSignSlashPercentage, DoubleSignSlashPercentage,
    EarlyWithdrawalPenalty, StakePercentForSubsidizedCommittee,
    MaxHeight, MaxTxs, MaxReports \* bounds: blocks, transactions, double signs

ASSUME ParametersAreValid ==
    /\ {UnstakingBlocks, MaxPauseBlocks, NonSignWindow} \subseteq Nat \ {0}
    /\ DelegateUnstakingBlocks \in Nat \ {0, 1}
    /\ MaxHeight \in Nat \ {0}
    /\ {MaxTxs, MaxReports, Fee, Mint, DaoMint} \subseteq Nat
    /\ {MinimumStakeForValidators, MinimumStakeForDelegates} \subseteq Nat
    /\ {NonSignSlashPercentage, DoubleSignSlashPercentage,
        EarlyWithdrawalPenalty} \subseteq Nat
    /\ Amounts \subseteq Nat \ {0}
    /\ Lists \subseteq SUBSET Chain

ASSUME AccountsAreNumbers == Balance \in [Val -> Nat] /\ Stake \in [Val -> Nat]

ASSUME SelfIsAChain == Self \in Chain

ASSUME SetsAreFinite == IsFiniteSet(Val) /\ IsFiniteSet(Chain)

ASSUME PaymentsArePercents ==
    \A p \in Payments : /\ DOMAIN p \subseteq Val /\ p \in [DOMAIN p -> Nat]
                        /\ SumFunction(p) <= 100

VARIABLES
    height,  \* the block being applied
    phase,   \* "Begin", or "Txs" once BeginBlock has run
    s,       \* the working state
    prev,    \* voting powers of the committee that signed the last block
    cur,     \* and of the one that signs this block
    liable,  \* <<height, address>>: served in a committee, not yet punished
    payment, \* recipient -> percent of the reward, from the last certificate
    txs,     \* transactions so far
    reports  \* double signs reported so far

vars == <<height, phase, s, prev, cur, liable, payment, txs, reports>>

Validator == [stake: Nat, committees: SUBSET Chain, delegate: BOOLEAN,
              compound: BOOLEAN, paused: Nat, unstaking: Nat]

Dao == "dao"
Pool == Chain \cup {Dao}

\* DAOPoolID is above every id of a committee (MaxChainId).
ASSUME DaoIsNoChain == Dao \notin Chain

VP == INSTANCE VotingPower WITH Member <- Val, Power <- prev

(***************************************************************************)
(* The supply tracker. f is a function from some addresses to records.     *)
(***************************************************************************)
StakeOf(f) == SumFunction([v \in DOMAIN f |-> f[v].stake])
StakeIn(f, c) == StakeOf(Restrict(f, {v \in DOMAIN f : c \in f[v].committees}))
Delegates(f) == Restrict(f, {v \in DOMAIN f : f[v].delegate})

\* the committees' part of a change of records from old to new
UpdateCommittees(t, old, new) ==
    [t EXCEPT !.staked = @ - StakeOf(old) + StakeOf(new),
              !.committeeStaked =
                  [c \in Chain |-> @[c] - StakeIn(old, c) + StakeIn(new, c)]]

\* and the part that counts the delegates
UpdateDelegations(t, old, new) ==
    [t EXCEPT !.delegated =
                  @ - StakeOf(Delegates(old)) + StakeOf(Delegates(new)),
              !.committeeDelegated =
                  [c \in Chain |-> @[c] - StakeIn(Delegates(old), c)
                                        + StakeIn(Delegates(new), c)]]

Tally(t, old, new) == UpdateDelegations(UpdateCommittees(t, old, new), old, new)

Nothing == << >>

(***************************************************************************)
(* Validators. The operators take sets of addresses: the code's loops over *)
(* them touch only the entries of the address at hand, and each address    *)
(* once. (HandleDoubleSigners lists an address once for each height it     *)
(* signed twice; here a certificate reports one such height, see           *)
(* BeginBlock, and the next certificate may report the next.)              *)
(***************************************************************************)
Exists(t, v) == v \in DOMAIN t.validators
Unstaking(t, v) == t.validators[v].unstaking # 0
Paused(t, v) == t.validators[v].paused # 0

SetValidators(t, new) ==
    [t EXCEPT !.validators = [v \in DOMAIN @ \cup DOMAIN new |->
                                IF v \in DOMAIN new THEN new[v] ELSE @[v]]]

MutAddValidators(t, new) == SetValidators(UpdateCommittees(t, Nothing, new), new)

AddValidators(t, new) == SetValidators(Tally(t, Nothing, new), new)

MutUpdateValidatorStake(t, new) == SetValidators(Tally(t, new, new), new)

\* UpdateValidatorStake, for the records in new
UpdateValidatorStake(t, new) ==
    SetValidators(Tally(t, Restrict(t.validators, DOMAIN new), new), new)

DeleteValidators(t, D) ==
    [Tally(t, Restrict(t.validators, D), Nothing) EXCEPT
        !.validators = Restrict(@, DOMAIN @ \ D)]

MutSetValidatorUnstaking(t, at) ==
    [SetValidators(t, [v \in DOMAIN at |->
        [t.validators[v] EXCEPT !.paused = 0, !.unstaking = at[v]]]) EXCEPT
        !.unstaking = @ \cup {<<at[v], v>> : v \in DOMAIN at}]

\* at gives each address the height at which its stake is released
SetValidatorUnstaking(t, at) ==
    [SetValidators(t, [v \in DOMAIN at |->
        [t.validators[v] EXCEPT !.paused = 0, !.unstaking = at[v]]]) EXCEPT
        !.unstaking = @ \cup {<<at[v], v>> : v \in DOMAIN at},
        !.paused = @ \ {<<t.validators[v].paused, v>> : v \in DOMAIN at}]

SetValidatorPaused(t, P, h) ==
    [SetValidators(t, [v \in P |-> [t.validators[v] EXCEPT !.paused = h]])
        EXCEPT !.paused = @ \cup {<<h, v>> : v \in P}]

SetValidatorUnpaused(t, v) ==
    [SetValidators(t, [u \in {v} |-> [t.validators[u] EXCEPT !.paused = 0]])
        EXCEPT !.paused = @ \ {<<t.validators[v].paused, v>>}]

MutCanPause(t, v) == Exists(t, v) /\ ~Paused(t, v) /\ ~t.validators[v].delegate

CanPause(t, v) ==
    /\ Exists(t, v)
    /\ ~Paused(t, v)
    /\ ~Unstaking(t, v)
    /\ ~t.validators[v].delegate

UnstakingBlocksOf(r) ==
    IF r.delegate THEN DelegateUnstakingBlocks ELSE UnstakingBlocks

MinimumStakeOf(delegate) ==
    IF delegate THEN MinimumStakeForDelegates ELSE MinimumStakeForValidators

BelowMinimum(r) == r.stake < MinimumStakeOf(r.delegate)

(***************************************************************************)
(* Slashing                                                                *)
(***************************************************************************)
AfterSlash(t, v, percent) ==
    VP!Uint64ReducePercentage(t.validators[v].stake, percent)

MutSetUnstakingIfBelowMinimum(t, S) ==
    LET below == {v \in S : BelowMinimum(t.validators[v])}
    IN  SetValidatorUnstaking(t,
            [v \in below |-> height + UnstakingBlocksOf(t.validators[v])])

SetUnstakingIfBelowMinimum(t, S) ==
    LET below == {v \in S : ~Unstaking(t, v) /\ BelowMinimum(t.validators[v])}
    IN  SetValidatorUnstaking(t,
            [v \in below |-> height + UnstakingBlocksOf(t.validators[v])])

\* A slashed record is re-counted in the committees only: the trackers of the
\* delegates are not told, even if the record is a delegate's.
SlashValidators(t, addresses, percent) ==
    LET S    == {v \in addresses : Exists(t, v)}
        gone == {v \in S : AfterSlash(t, v, percent) = 0}
        less == [v \in S \ gone |->
                    [t.validators[v] EXCEPT !.stake = AfterSlash(t, v, percent)]]
        burned == SumFunction([v \in S |->
                    t.validators[v].stake - AfterSlash(t, v, percent)])
        t1 == DeleteValidators([t EXCEPT !.total = @ - burned], gone)
        t2 == UpdateCommittees(t1, Restrict(t.validators, S \ gone), less)
    IN  SetUnstakingIfBelowMinimum(SetValidators(t2, less), S \ gone)

\* the end of a window: pause and slash those who missed too many blocks
SlashAndResetNonSigners(t) ==
    LET bad == {v \in Val : t.nonSigner[v] > MaxNonSign}
        t1  == SetValidatorPaused(t, {v \in bad : CanPause(t, v)},
                                  height + MaxPauseBlocks)
    IN  [SlashValidators(t1, bad, NonSignSlashPercentage) EXCEPT
            !.nonSigner = [v \in Val |-> 0]]

\* missed: who did not sign the last certificate; evidence: who signed twice
HandleByzantine(t, missed, evidence) ==
    LET t1 == IF height % NonSignWindow = 0 THEN SlashAndResetNonSigners(t) ELSE t
        t2 == [t1 EXCEPT !.nonSigner =
                  [v \in Val |-> IF v \in missed THEN @[v] + 1 ELSE @[v]]]
    IN  SlashValidators(t2, {e[2] : e \in evidence}, DoubleSignSlashPercentage)

(***************************************************************************)
(* Rewards                                                                 *)
(***************************************************************************)
SubsidizedCommittees(t) ==
    {Self} \cup {c \in Chain :
        /\ t.committeeStaked[c] > 0
        /\ (t.committeeStaked[c] * 100) \div t.staked
              >= StakePercentForSubsidizedCommittee}

FundCommitteeRewardPools(t) ==
    LET paid == SubsidizedCommittees(t)
        each == Mint \div Cardinality(paid)
    IN  [t EXCEPT
           !.total = @ + DaoMint + each * Cardinality(paid),
           !.pool = [p \in Pool |-> @[p] + IF p = Dao THEN DaoMint
                                           ELSE IF p \in paid THEN each ELSE 0]]

Compounds(t, v) ==
    Exists(t, v) /\ t.validators[v].compound /\ ~Unstaking(t, v)

\* Whoever does not compound pays the penalty.
DistributeCommitteeReward(t, v) ==
    LET full == (payment[v] * t.pool[Self]) \div 100
    IN  IF Compounds(t, v) THEN full
        ELSE VP!Uint64ReducePercentage(full, EarlyWithdrawalPenalty)

TotalDistributed(t) ==
    SumFunction([v \in DOMAIN payment |-> DistributeCommitteeReward(t, v)])

\* What is not distributed is burned.
DistributeCommitteeRewards(t) ==
    LET paid  == DOMAIN payment
        grown == {v \in paid : Compounds(t, v)}
        t1 == UpdateValidatorStake(t, [v \in grown |->
                [t.validators[v] EXCEPT !.stake = @ + DistributeCommitteeReward(t, v)]])
    IN  IF paid = {} THEN t
        ELSE [t1 EXCEPT
           !.account = [v \in Val |->
               IF v \in paid \ grown THEN @[v] + DistributeCommitteeReward(t, v)
                                     ELSE @[v]],
           !.total = @ - (t.pool[Self] - TotalDistributed(t)),
           !.pool[Self] = 0]

(***************************************************************************)
(* The end of a block                                                      *)
(***************************************************************************)
ForceUnstakeMaxPaused(t) ==
    LET due == {v \in Val : <<height, v>> \in t.paused}
        out == {v \in due : Exists(t, v) /\ ~Unstaking(t, v)}
    IN  [SetValidatorUnstaking(t, [v \in out |-> height + UnstakingBlocks]) EXCEPT
            !.paused = @ \ {<<height, v>> : v \in due}]

MutFinished(t) == {v \in Val : <<height - 1, v>> \in t.unstaking}

Finished(t) == {v \in Val : <<height, v>> \in t.unstaking}

DeleteFinishedUnstaking(t) ==
    LET done == Finished(t)
    IN  [DeleteValidators(t, done) EXCEPT
            !.account = [v \in Val |->
                IF v \in done THEN @[v] + t.validators[v].stake ELSE @[v]],
            !.unstaking = @ \ {<<height, v>> : v \in done}]

AtEnd(t) == ForceUnstakeMaxPaused(DistributeCommitteeRewards(t))

\* getValidatorSet: who votes for this chain, and with which power
VotingPowers(t) ==
    [v \in Val |->
        IF /\ Exists(t, v)
           /\ ~Unstaking(t, v) /\ ~Paused(t, v) /\ ~t.validators[v].delegate
           /\ Self \in t.validators[v].committees
        THEN t.validators[v].stake ELSE 0]

Voters(p) == {v \in Val : p[v] > 0}

(***************************************************************************)
(* Blocks                                                                  *)
(***************************************************************************)
NewValidator(amount, C, delegate, compound) ==
    [stake |-> amount, committees |-> C, delegate |-> delegate,
     compound |-> compound, paused |-> 0, unstaking |-> 0]

\* NewStateFromGenesis
Genesis ==
    LET first == [v \in {u \in Val : Stake[u] > 0} |->
                    NewValidator(Stake[v], {Self}, FALSE, TRUE)]
        empty == [validators |-> Nothing,
                  unstaking |-> {}, paused |-> {},
                  account |-> Balance, pool |-> [p \in Pool |-> 0],
                  nonSigner |-> [v \in Val |-> 0],
                  total |-> SumFunction(Balance) + StakeOf(first),
                  staked |-> 0, delegated |-> 0,
                  committeeStaked |-> [c \in Chain |-> 0],
                  committeeDelegated |-> [c \in Chain |-> 0]]
    IN  AddValidators(empty, first)

Init ==
    /\ height = 1 /\ phase = "Begin" /\ txs = 0 /\ reports = 0
    /\ s = Genesis
    /\ prev = [v \in Val |-> 0]
    /\ cur = VotingPowers(Genesis)
    /\ liable = {<<1, v>> : v \in Voters(VotingPowers(Genesis))}
    /\ payment = Nothing

\* the first block has no certificate to handle
BeginFirstBlock ==
    /\ phase = "Begin" /\ height = 1
    /\ phase' = "Txs"
    /\ UNCHANGED <<height, s, prev, cur, liable, payment, txs, reports>>

\* A certificate reports at most one double sign, of an earlier height (the
\* code takes any number, of several signers and heights).
BeginBlock ==
    /\ phase = "Begin" /\ height > 1
    /\ \E signers \in VP!Majorities, reward \in Payments,
          evidence \in {{}} \cup {{e} : e \in {l \in liable : l[1] < height}} :
        LET missed == Voters(prev) \ signers
            share  == (VP!PowerOf(missed) * 100) \div VP!TotalPower
        IN  /\ signers \subseteq Voters(prev)
            /\ s' = HandleByzantine(FundCommitteeRewardPools(s), missed, evidence)
            /\ payment' = [v \in DOMAIN reward |->
                             VP!Uint64ReducePercentage(reward[v], share)]
            /\ liable' = liable \ evidence
            /\ reports + Cardinality(evidence) <= MaxReports
            /\ reports' = reports + Cardinality(evidence)
    /\ phase' = "Txs"
    /\ UNCHANGED <<height, prev, cur, txs>>

EndBlock ==
    LET t    == AtEnd(s)
        next == DeleteFinishedUnstaking(t)
    IN  /\ phase = "Txs" /\ height < MaxHeight
        /\ \A v \in Finished(t) : Exists(t, v)
        /\ s' = next
        /\ height' = height + 1
        /\ phase' = "Begin"
        /\ prev' = cur
        /\ cur' = VotingPowers(next)
        /\ liable' = {l \in liable : l[1] + UnstakingBlocks >= height}
                       \cup {<<height + 1, v>> : v \in Voters(VotingPowers(next))}
        /\ payment' = Nothing
        /\ UNCHANGED <<txs, reports>>

(***************************************************************************)
(* Transactions. t is the state after the sender has paid the fee.         *)
(***************************************************************************)
AccountDeductFees(v) ==
    [s EXCEPT !.account[v] = @ - Fee, !.pool[Self] = @ + Fee]

MutApply(v, result) ==
    /\ phase = "Txs" /\ txs < MaxTxs
    /\ s' = result
    /\ txs' = txs + 1
    /\ UNCHANGED <<height, phase, prev, cur, liable, payment, reports>>

Apply(v, result) ==
    /\ phase = "Txs" /\ txs < MaxTxs
    /\ s.account[v] >= Fee
    /\ s' = result
    /\ txs' = txs + 1
    /\ UNCHANGED <<height, phase, prev, cur, liable, payment, reports>>

MutTransfer(t, v, w, amount) ==
    [t EXCEPT !.account[v] = @ - amount, !.account[w] = t.account[w] + amount]

\* the recipient is read after the sender is written: they may be the same
Transfer(t, v, w, amount) ==
    [[t EXCEPT !.account[v] = @ - amount] EXCEPT !.account[w] = @ + amount]

HandleMessageSend(v, w, amount) ==
    LET t == AccountDeductFees(v)
    IN  /\ t.account[v] >= amount
        /\ Apply(v, Transfer(t, v, w, amount))

HandleMessageStake(v, amount, C, delegate, compound) ==
    LET t == AccountDeductFees(v)
    IN  /\ ~Exists(t, v)
        /\ amount >= MinimumStakeOf(delegate)
        /\ t.account[v] >= amount
        /\ Apply(v, AddValidators([t EXCEPT !.account[v] = @ - amount],
               [u \in {v} |-> NewValidator(amount, C, delegate, compound)]))

HandleMessageEditStake(v, amount, C, compound) ==
    LET t   == AccountDeductFees(v)
        old == t.validators[v]
        add == IF amount > old.stake THEN amount - old.stake ELSE 0
    IN  /\ Exists(t, v)
        /\ ~Unstaking(t, v)
        /\ t.account[v] >= add
        /\ Apply(v, UpdateValidatorStake([t EXCEPT !.account[v] = @ - add],
               [u \in {v} |-> [old EXCEPT !.stake = @ + add,
                                          !.committees = C,
                                          !.compound = compound]]))

HandleMessageUnstake(v) ==
    LET t == AccountDeductFees(v)
    IN  /\ Exists(t, v)
        /\ ~Unstaking(t, v)
        /\ Apply(v, SetValidatorUnstaking(t,
               [u \in {v} |-> height + UnstakingBlocksOf(t.validators[v])]))

HandleMessagePause(v) ==
    LET t == AccountDeductFees(v)
    IN  /\ CanPause(t, v)
        /\ Apply(v, SetValidatorPaused(t, {v}, height + MaxPauseBlocks))

HandleMessageUnpause(v) ==
    LET t == AccountDeductFees(v)
    IN  /\ Exists(t, v)
        /\ Paused(t, v) /\ ~Unstaking(t, v) /\ ~t.validators[v].delegate
        /\ Apply(v, SetValidatorUnpaused(t, v))

HandleMessageSubsidy(v, c, amount) ==
    LET t == AccountDeductFees(v)
    IN  /\ t.account[v] >= amount
        /\ Apply(v, [t EXCEPT !.account[v] = @ - amount, !.pool[c] = @ + amount])

\* a proposal the validators have approved
HandleMessageDAOTransfer(v, amount, mint) ==
    LET t == AccountDeductFees(v)
        minted == IF mint THEN amount ELSE 0
    IN  /\ t.pool[Dao] + minted >= amount
        /\ Apply(v, [t EXCEPT !.total = @ + minted,
                              !.pool[Dao] = @ + minted - amount,
                              !.account[v] = @ + amount])

Transaction ==
    \E v \in Val :
        \/ \E w \in Val, amount \in Amounts : HandleMessageSend(v, w, amount)
        \/ \E amount \in Amounts, C \in Lists,
              delegate, compound \in BOOLEAN :
              HandleMessageStake(v, amount, C, delegate, compound)
        \/ \E amount \in Amounts, C \in Lists, compound \in BOOLEAN :
              HandleMessageEditStake(v, amount, C, compound)
        \/ HandleMessageUnstake(v)
        \/ HandleMessagePause(v)
        \/ HandleMessageUnpause(v)
        \/ \E c \in Chain, amount \in Amounts : HandleMessageSubsidy(v, c, amount)
        \/ \E amount \in Amounts, mint \in BOOLEAN :
              HandleMessageDAOTransfer(v, amount, mint)

Next == BeginFirstBlock \/ BeginBlock \/ Transaction \/ EndBlock

Spec == Init /\ [][Next]_vars

-----------------------------------------------------------------------------
\* The working state is well formed; in particular no tracker is negative,
\* where the code would return ErrInsufficientSupply and refuse the block.
TypeOK ==
    /\ height \in 1 .. MaxHeight /\ phase \in {"Begin", "Txs"} 
    /\ txs \in 0 .. MaxTxs /\ reports \in 0 .. MaxReports
    /\ DOMAIN s.validators \subseteq Val
    /\ s.validators \in [DOMAIN s.validators -> Validator]
    /\ s.unstaking \subseteq Nat \X Val /\ s.paused \subseteq Nat \X Val
    /\ s.account \in [Val -> Nat] /\ s.pool \in [Pool -> Nat]
    /\ {s.total, s.staked, s.delegated} \subseteq Nat
    /\ s.committeeStaked \in [Chain -> Nat]
    /\ s.committeeDelegated \in [Chain -> Nat]
    /\ s.nonSigner \in [Val -> Nat]
    /\ prev \in [Val -> Nat] /\ cur \in [Val -> Nat]
    /\ DOMAIN payment \subseteq Val /\ payment \in [DOMAIN payment -> Nat]
    /\ liable \subseteq Nat \X Val

\* The total supply is what the accounts, the pools and the stakes hold: no
\* reward, penalty, slash, release or fee creates or loses a token.
TokensAreConserved ==
    s.total = SumFunction(s.account) + SumFunction(s.pool) + StakeOf(s.validators)

\* The staked supply and the supply of each committee are the sums of the
\* stakes, through edits of the committees, slashes, rewards and deletions.
CommitteesAreTallied ==
    /\ s.staked = StakeOf(s.validators)
    /\ \A c \in Chain : s.committeeStaked[c] = StakeIn(s.validators, c)

\* Deleting a delegate never finds too little in the delegates' trackers,
\* although a slash does not update them.
DelegatesAreCovered ==
    /\ s.delegated >= StakeOf(Delegates(s.validators))
    /\ \A c \in Chain : s.committeeDelegated[c] >= StakeIn(Delegates(s.validators), c)

\* Who unstakes is indexed under the height of the record, and that height is
\* still to come: no stake is forgotten, whatever else happens to it before.
UnstakersAreReleased ==
    \A v \in DOMAIN s.validators : Unstaking(s, v) =>
        /\ <<s.validators[v].unstaking, v>> \in s.unstaking
        /\ s.validators[v].unstaking >= height

\* Who is paused is indexed likewise, and is neither unstaking nor a delegate:
\* no validator is paused for longer than MaxPauseBlocks.
PausedAreForcedOut ==
    \A v \in DOMAIN s.validators : Paused(s, v) =>
        /\ <<s.validators[v].paused, v>> \in s.paused
        /\ s.validators[v].paused >= height
        /\ ~Unstaking(s, v) /\ ~s.validators[v].delegate

\* the entries of the two indexes that are not those of a record
StrayUnstaking(t) ==
    {k \in t.unstaking : ~Exists(t, k[2]) \/ t.validators[k[2]].unstaking # k[1]}
StrayPaused(t) ==
    {k \in t.paused : ~Exists(t, k[2]) \/ t.validators[k[2]].paused # k[1]}

\* a slash took the whole stake of v: its record is gone, and nothing is paid out
SlashedAway(v) ==
    Exists(s, v) /\ ~Exists(s', v) /\ s'.account[v] = s.account[v]

\* the end of the block released v because of an entry that is not its record's
ReleasedByStray(v) ==
    /\ Exists(s, v) /\ ~Exists(s', v)
    /\ height' = height + 1 /\ <<height, v>> \in StrayUnstaking(s)

\* A record that unstakes keeps the height of its release until a block of
\* just that height releases it, unless a slash takes the whole stake before,
\* or an earlier block finds an entry that another record of the same address
\* has left in the index (SlashValidators deletes a record and leaves its
\* entries; DeleteFinishedUnstaking trusts them, and so can release early).
UnstakingIsFinal ==
    [][\A v \in DOMAIN s.validators : Unstaking(s, v) =>
          \/ Exists(s', v) /\ s'.validators[v].unstaking = s.validators[v].unstaking
          \/ ~Exists(s', v) /\ height' = height + 1
                            /\ s.validators[v].unstaking = height
          \/ SlashedAway(v)
          \/ ReleasedByStray(v)]_vars

\* An entry that is not a record's comes from two sources only: a slash that
\* takes the whole stake, and a release by such an entry. Every other step, in
\* whatever state it finds the indexes, moves the entries with the records.
IndexesAreKept ==
    [][/\ \A k \in StrayUnstaking(s') :
             k \in StrayUnstaking(s) \/ SlashedAway(k[2]) \/ ReleasedByStray(k[2])
       /\ \A k \in StrayPaused(s') :
             k \in StrayPaused(s) \/ SlashedAway(k[2]) \/ ReleasedByStray(k[2])]_vars
=============================================================================
