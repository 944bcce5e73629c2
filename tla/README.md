# RepuRing: a TLA+ development

The repository holds two things: *RepuRing*, a reputation contract written in
TypeScript (`plugin/typescript`), and the *Canopy* node it runs in, written in
Go. The node orders transactions with a HotStuff-style BFT protocol, applies
them to a state machine over a versioned key-value store, and forwards the
transactions that belong to the contract to the plugin process over a Unix
socket. This directory models the parts of both in which order, concurrency or
arithmetic decides whether the result is right.

## Inventory

| Part | State | Operations | Talks to |
|---|---|---|---|
| RepuRing contract (`plugin/typescript/src/contract/contract.ts`) | profiles, names, circles, members, roles, contributions, endorsements and their indexes, all as keys of the node's state | ten transactions, each a stateless check and a Deliver handler that ends in one write | the node, through the plugin runtime |
| Plugin runtime (`plugin/typescript/src/contract/plugin.ts`) | pending requests by id, request contexts | framing, dispatch, state reads and writes, a 10 s timeout | `lib/plugin.go` |
| Plugin host (`lib/plugin.go`) | pending responses and state machines by request id, under one lock | Genesis, BeginBlock, CheckTx, DeliverTx, EndBlock; answers state reads and writes | plugin runtime, `fsm` |
| BFT (`bft/`) | view, lock (HighQC), block and results, votes, proposals, evidence | ten phases, message handlers, pacemaker, new height | controller, p2p |
| Controller (`controller/`) | sync flag, cached proposal, uncommitted changes of a validated block | gossip, sync, proposal validation, commit | bft, fsm, store, p2p |
| Mempool (`lib/mempool.go`, `controller/tx.go`) | transactions ordered by fee, a byte counter, limits, the context of a running check | add, evict, check, delete | controller, its own copy of the state machine |
| State machine (`fsm/`) | accounts, pools, validators, committees, orders, dex batches, parameters | blocks, transactions, automatic begin- and end-block work | store, plugin host |
| Store (`store/`) | nested write caches over a versioned database, sparse Merkle tree, indexer | get, set, delete, iterate, flush, discard, commit | fsm, controller |
| Peer to peer (`p2p/`) | peer set, address book, multiplexed connections | dial, inbound, handshake, send, receive, heartbeat, churn | controller |
| RPC (`cmd/rpc`) | none of its own; a subscription to the root chain | queries over past and present state | fsm, controller |
| Auto update (`cmd/auto-update`) | current and pending binary | download, swap, restart | operating system |
| Web wallets and explorers (`cmd/rpc/web`), generated protobuf code, the vendored toolchain | | | |

How they interact: p2p delivers messages into inboxes; the controller's
listeners read them under the controller's lock and call `bft` (consensus
messages), `HandlePeerBlock` (blocks) or the mempool (transactions). `bft` runs
one timer loop and asks the controller to produce, validate, send and gossip. A
commit applies the block to the state machine, which calls the plugin for the
contract's transactions; the state machine of the mempool uses the same plugin
connection at the same time. A new block, or news of the root chain, resets
`bft` over a channel.

### Where it is hard, and what makes each part correct

* **Contract.** Membership, roles, counts and indexes are each stored more than
  once and moved by hand, and two kinds of endorsement share one space of
  identifiers. Correct: the copies agree after any history; nobody endorses the
  same thing twice; reputation is accounted for by endorsements; what two
  endorsements of one identifier disturb is bounded by how many there are.
* **Plugin exchange.** A goroutine per message, two state machines, two
  processes, two timeouts of different length. Correct: a transaction is
  applied entirely or not at all, to the right state machine, every call
  returns, and no message ends a process.
* **Consensus.** Lost, late and reordered messages, split elections, locks taken
  over from others, resets by root blocks in mid-round, restarts. Correct: one
  block per view, one block per height, a voter's lock survives, rounds end or wait for a
  block whose handling failed.
* **Commit and sync.** A validated proposal stays applied to the state machine
  so that its commit need not apply it again; proposals, interrupts, resets,
  syncs and restarts come in between. Correct: what is committed as a block is
  that block; consensus follows the chain; the request window follows the
  chain; a sync ends, unless a peer's false block or a skipped height took the
  node off the chain.
* **Store.** Write caches that flush into each other, a latest state kept beside
  a history, a version raised before the write, commits lost in a crash,
  rollback, readers without the lock. Correct: a map with drafts and a history.
* **Staking.** The supply is tracked apart from what it sums; heights in the
  records are repeated in indexes that the end of a block goes by. Correct: no
  token appears or is lost, nobody's release is forgotten, put off or called
  off, none comes early but through an entry that a slashed record left, nobody
  stays paused.
* **Mempool.** Three goroutines and one lock, a counter kept by hand, a
  cancelled check. Correct: the counter is never short, the best fees stay, the
  leader gets a proposal of the current height.

`PROJECT.json` lists the single hazards at their lines.

## Modules

| Module | Models | Composition |
|---|---|---|
| `RepuRing` | the contract's ten transactions | |
| `AtomicTx` | abstract: transactions that take effect at one moment | |
| `PluginRPC` | host, socket, plugin runtime and the transaction wrapping around them | implements `AtomicTx` |
| `VotingPower` | two-thirds majority and pacemaker threshold of a committee, percentages | |
| `Finality` | abstract: one block per height | |
| `BFT` | consensus on one height | implements `Finality`; quorums from `VotingPower` in `MCBFT` |
| `BlockCommit` | one node from a proposal to a committed block | |
| `BlockSync` | the same node with its sync loop | extends `BlockCommit` |
| `VersionedMap` | abstract: a map with drafts and a history | |
| `Store` | write caches, commit, latest and historic state, crash, rollback, readers | implements `VersionedMap` |
| `Staking` | stakes, rewards, slashes, supply and their blocks | majorities from `VotingPower` |
| `Mempool` | the pool, its checker and commits | |
| `..._proofs` | theorems about `RepuRing`, `PluginRPC`, `BFT`, `BlockSync`, `Store`, `Staking`, `Mempool` | extend their module and `TLAPS` |
| `Sums_proofs` | facts about sums over finite sets | cited by `BFT_proofs`, `Mempool_proofs`, `Staking_proofs` |
| `MC...` | constants and bounds for TLC | |

Operators named `Mut...` are defective forms of the definition below them. They
belong to no specification; each shows that some property would notice the
defect.

### RepuRing

A key prefix is a variable: functions for prefixes that hold records, sets for
those that hold a flag. A handler reads, checks, and ends in one `StateWrite`;
as the node applies transactions one after another the whole handler is one
action, and a rejected transaction is a stuttering step. The member list is
kept as the number of times each address occurs in it, so that a double entry
is visible. Lower-casing is the function `toLowerCase`. Free texts (bio, title, reason, links) are left out.
The slashed flag of a contribution exists in the code, is written `false` and
never again, and is therefore not a variable.

An endorsement is stored under the first 32 hexadecimal digits of the `sha256` of
its parts (`makeEndorsementId`, `makeContributionEndorsementId`). These 128 bits
are taken to be free of collisions, so an identifier in the model stands for the
bytes that are hashed. These bytes do *not* tell the two kinds of endorsement
apart: parts are joined by NUL bytes without their lengths, only one of the forms
has a tag, and the tag is a legal circle identifier. The constant `spells` gives
the contributions whose identifier, behind `contribution` and a NUL, is the bytes
of a circle, a NUL and an address; as addresses have 20 bytes, such a contribution
fixes both and is fixed by them (`SpellsAssumption`). An endorsement of that
contribution by *t* and one of the user *t* by that address in that circle then
have one identifier, and no handler checks that it is unused: the second is
written over the first. `Doubled` is the set of identifiers given twice. Index
flags of the first, its unit in `endorsementCount` and its point stay, by as much
as `IndexesAgree`, `CountIsActiveEndorsements` and `ReputationBounds` allow for
each element of `Doubled` and no more; `EndorsementsPermanent` allows the one
overwriting. With `spells` empty these are the exact statements.

### PluginRPC

`caller`, `pending`, `requestFSMs`, `channel` and `goroutines` are the host's
call, its two maps, the answer channels and the goroutine of each inbound
message. A lookup under the lock and the use after it are separate steps
(`Lookup`/`Serve`, `Respond`/`Forward`), as are the firing of a timer and the
clean-up under the lock. `handler` is where the plugin's asynchronous handler
waits. A store is the set of requests whose writes it holds; `txn` is the store
`ApplyTransactions` wraps around `base`. The first pass of `ApplyTransactions`,
which only checks, is a transaction that ends after CheckTx with its store
dropped. The refinement to `AtomicTx` maps `store` to `base` and `busy` to a
caller that is not idle. Ids do not repeat (they are 64 random bits).

### BFT

One action per phase handler plus `AddVote` (a lock that arrives with an
election vote), `NewCommittee` (root block), `HandlePeerBlock` (commit) and
`Restart`. `msgs` holds everything ever sent and a handler reads any part of
it, which covers loss, delay, duplication and reordering. Certificates are
their view and block, because every validator follows the code and a leader
only builds what it has votes for; validators that deviate are **not**
modelled, nor are evidence and slashing, VDF, sortition (the leader a validator
votes for is any of the round's `Candidates`), partial certificates and changes
of the committee (a root block resets the round and keeps the members).
`NewRound` of the code also reads the latest root height; here it changes with
the reset only, which waits in `ResetBFT` by the time the controller's root height
has changed. Handling a block may fail at the validators in `MayFail`
(`HandlePeerBlockFails`): the committee cannot be loaded, the block not applied or
stored. `ListenForBlock` then returns without a reset, and a copy of the same
message is dropped as seen before (`blockFailed`). After COMMIT-PROCESS no timer
is set either, so such a validator waits for the next block or root block
(`DeadEnd`). The
refinement to `Finality` maps `final` to `committed`.

### BlockCommit and BlockSync

Each action is a function that holds the controller's lock: a phase of
consensus, a reset read from the channel `ResetBFT`, a block from the inbox, one
turn of the sync loop's select. `applied` is the set of blocks whose changes the
state machine holds uncommitted, `cached` is `BlockResult`, and a commit records
which changes were committed for which block, so that a wrong mixture is
visible. Of the other validators only the blocks they certify are seen, one at
each height (what `BFT` shows); `Final` names that block, and the node may have
validated it or another one before. `BlockSync` adds the loop of `Sync()`: a
poll of heights, a window of requests (`queue`), answers, losses, ageing
requests, `processQueue` and `applyTimeouts`. While syncing nobody's signature is
checked, neither of the block nor of the certificate before it
(`controller/block.go:532`, `:616`), although the comment at `Sync()` says
"CheckBasic each block by checking if cert was signed by +2/3 maj". So a peer that
was asked may answer with a block of its own (`WrongAnswer`), which may be refused,
fail to apply, or be committed; `Fits` is what remains, that the block names the
one before it. A peer is taken at its word for the greatest height, in the poll
and later (`consensus.go:680`): `target` may be any height that the committee comes to reach
in the model, certified by then or not. A peer's reputation does not end the connection (`p2p/set.go:167` is
commented out), so nothing keeps a peer from answering wrongly again.

`version` is that of the store, raised before the write. When the write fails it
stays raised (`store.go:253`), the block committed next is stored one version
later, and the new state machine takes its height from there (`state.go:82`): the
node has skipped a height, and every block of the others is refused because the
one before it is missing. `Misled` says that this happened or that a block that
nobody certified is in the chain. Errors after a successful write, checkpoints and
the shortcut of `Sync()` for a network of one are left out.

A request is answered by its peer, or a block comes that nobody asked this peer
for: gossip and late answers are one action, `Unsolicited`.

### Store

`ops[i]` are the operations of write cache `i`; cache 1 is the store's own, the
others are `NewTxn()`. `db` is the database with the latest state (`lss`), the
entries of every version (`hss`), those of the state tree (`smt`) and the commit
ids; `durable` are the databases a crash may leave, as batches are written
without a sync. A commit raises `version`, writes the batch and may fail in
between. The root of the tree is represented by the state it was computed from
(collision-free hashes), and `sc` is the cached tree by the operations it has
taken in. `view` is a read-only store, opened in the steps of the code without
the lock. The refinement to `VersionedMap` maps the history to what `hss` reads
at each version and the drafts to the caches.

### Staking

`s` is the working state while a block is applied, as a record; every handler is
an operator from one such state to the next. A block is `BeginBlock` (mint,
certificate, non-signers, double signers), any transactions and `EndBlock`
(rewards, forced unstaking, releases, next committee). The loops of the code
over validators are operators on sets of addresses. A certificate reports at most
one double sign (`MaxReports` bounds them in all), where the code slashes once for
each height reported of a signer: several slashes of one address in one block
are those of missed and double signatures. A step that would return an error is not taken. Percentages are
those of `VotingPower`, rounded down. Minimum stakes differ for validators and
delegates. `SlashValidators` deletes a record whose whole stake is taken and, like
the code, leaves its entries in the indexes (`StrayUnstaking`, `StrayPaused`);
`DeleteFinishedUnstaking` trusts the index, so that a stake made again by that
address may be released at the old height. The chain is its own root and runs
protocol version 1, which is the only one `CheckProtocolVersion` accepts.

### Mempool

`holder` is who holds the lock `L`. Short critical sections are one action;
the eviction loop and a check keep the lock across steps. A check may be
cancelled by `stop()`, which a commit calls before it waits for the lock. What
fails a check is any set that includes the transactions already on the chain
(replay protection); what fits a block is the rest of any beginning of the pool.
`CountedBytes` is what a batch adds to the counter, repetitions and the
transactions before an error included; `Kept` is the part of the list that a
deletion leaves, in its order.

## Runs

| Run | Instance | Shows |
|---|---|---|
| `repuring` | 2 addresses, 2 circles, 1 contribution, names in two spellings, the contribution spells a circle and an address; behaviours are followed up to 2 endorsements and one role held at a time, and one step further | all properties of the contract |
| `plugin` | 2 state machines, 2 transactions each, no timeouts | transactions are atomic, no process ends |
| `plugin_timeout` | 2 state machines, 1 transaction each, both timeouts | no stale entries, no stray writes, every call returns |
| `plugin_late_write` | 1 state machine, 2 transactions | *violated*: a failed transaction leaves nothing |
| `bft` | power 2+1+1, 2 blocks, rounds 0 and 1, split election in round 1 | one block per view, refinement of `Finality` |
| `bft_faults` | round 0, one root block or up to 2 restarts | locks are certified; voters that did not restart stay locked |
| `bft_live` | 1 block, rounds 0 and 1, fair timers, two validators may fail to handle a block | every round ends, or waits for a block that failed |
| `mempool` | 3 valid transactions and a malformed one, batches of 1 and 2, 3 batches, 2 commits | counter, fee order, fresh proposals |
| `store` | 2 keys, 1 value and deletion, 2 commits, 2 caches | latest state is the history, roots, readers, refinement of `VersionedMap` |
| `node` | 2 heights, 2 names of blocks, window of 2, 1 signal, 1 fault | no mixed commits, consensus and window follow the chain, a sync ends or is misled |
| `node_stale` | 1 height, 2 signals, no fault | *violated*: what is committed as a block is that block, applied |
| `staking` | a strong and a weak validator, 2 committees, 5 blocks, 2 transactions, 1 double sign, minimum stakes 3 and 2 | supply, trackers, indexes and records agree |

### Bounds, and why they are enough

* *Contract.* Two addresses can be each other's endorser, target, moderator and
  author; two circles tell circle-wide from global uniqueness; the scaled
  thresholds 1, 2, 3 let every role but the highest be claimed. Two endorsements
  are enough for one identifier to be given twice, in either order, with slashes
  before, between and after; a third is made but not followed. A role concerns one
  member of one circle; a second one is claimed, but not followed (`MaxRoles`).
  123,137 states. All of these properties are also proved for all values. Deadlock
  is checked: an updated profile is always possible once there is one, and
  creating one before.
* *Plugin.* Two transactions let a late write of the first meet the second; two
  state machines let messages be confused.
* *BFT.* With power 2+1+1 a majority is the strong validator and one other, so
  that a single missing message decides; two blocks and two rounds are what a
  conflicting commit needs (a lock in one round, another proposal in the next).
  `bft_faults` explores root blocks or restarts, not both in one behaviour
  (`OneKindOfFault`), and one round per root height. The four safety properties
  are also proved without bounds. In `bft_live` (111,215 states) the strong
  validator and a weak one may fail to handle the block and the third always
  succeeds.
* *Node.* Two heights let a block be committed while consensus is at the one
  before; one signal in the channel lets phases run before it is read (the
  channel of the code holds 100, and a full one blocks the writer); two names
  let another block than the certified one have been validated. One fault can
  be a failed commit or write, a lost answer or a restart at any moment; blocks that
  a peer makes up and heights it overstates are not faults and not bounded. With
  one peer asked, a block of another peer is one for which there is no request.
  206,888 states.
* *Store.* Two commits and a rollback let an entry of version 1 be hidden by one
  of version 2 and come back; two caches let a deletion be flushed down.
* *Staking.* The weak validator's stake of 1 is taken entirely by any slash, the
  strong one's majority lets it miss signatures; windows and periods of one or
  two blocks let a validator be released and stake again, as a delegate, before
  the window in which it missed blocks closes. Five blocks are what an early
  release takes: unstake, be slashed of everything, stake and unstake again, and
  meet the old entry; every disjunct of `UnstakingIsFinal` and `IndexesAreKept`
  is needed in the run. 264,009 states.
* *Mempool.* The pool holds two transactions and three bytes, so every addition
  can reach both limits; two commits let a proposal be one height old.

`CHECK_DEADLOCK FALSE` is set where the system really stops: all transactions
done or a process ended, a height decided or the last round reached, the bound
on batches, blocks, versions, signals or faults reached.

### Fairness

* `PluginRPC`: goroutines that can run, runtime timers, and the plugin's event
  loop. Nothing forces a transaction to begin.
* `BFT`: a phase timer that was set fires, and a block in the inbox is handled,
  once and with or without success. Nothing forces votes to arrive: `EveryRoundEnds` holds because a validator
  without them interrupts its round by itself.
* `BlockSync`: the loop goes on; Go's select serves each channel that keeps
  being ready (strong fairness of the ticks, of the answers and of the end of
  the sync, whose signal waits for room in the channel); time passes; the
  signals are read. Of the network it is assumed that blocks keep being
  gossiped (strong fairness of `Unsolicited`): the loop applies its timeouts
  only after an inbound block, so without any a sync whose answers were lost
  would wait for ever. This holds on a chain that goes on producing blocks. Of the
  peers it is assumed that among those picked at random for the height to come
  there is, time and again, one that answers with the certified block (strong
  fairness of `Answer` for that height only): peers that never do can hold a sync
  up for ever. A sync towards a height that a peer overstates lasts until the
  committee has got there, which on a chain that goes on it does for any number,
  if only after years.

## What the violated runs mean

* **Late write** (`plugin_late_write`). `handleStateWriteRequest` releases the
  lock between finding the state machine and writing. If the call times out in
  between and the transaction is dropped, the write goes to the store under it,
  or into the wrapped store of the next transaction. The host waits 1 s by
  default.
* **Stale result** (`node_stale`). A reset of consensus keeps `BlockResult`. If
  the node then leads a round without a lock, the deferred reset at the end of
  `ProduceProposal` empties the state machine. If the block that was validated
  first is the one that is certified after all, `HandlePeerBlock` finds its
  result cached, `CommitCertificate` neither resets nor applies, and the block
  is committed without its changes.

Also seen while modelling, and not made runs of their own:

* `README.md` of the repository calls a role "derived from current profile
  reputation"; the contract stores it when it is claimed and never again.
* An answer after the host's timeout has no entry in `pending`; that is an
  error of its goroutine, and any such error is `log.Fatal`. The plugin exits
  likewise on a reply that comes after its own 10 s.
* The lock of consensus lives in memory. The comment at the lock says that only
  the safe-node predicate or a commit releases it; a restart does too. This is
  why finality is proved for committees in which nobody restarts.
* The mempool's byte counter also counts what an error or a repetition in a
  batch kept out of the pool. The surplus never goes away; once it exceeds the
  limit, the eviction loop (`lib/mempool.go:104`) runs on an empty pool for
  ever, under the lock a commit needs.
* "DeleteValidator() completely removes a validator from the state"
  (`fsm/validator.go:239`) and leaves its entries in the indexes. After a slash
  that takes the whole stake, the block at which it would have been released
  finds no record and fails, or releases a stake made since, too early.
  `IndexesAreKept` says that such entries have no other source, and
  `UnstakingIsFinal` that nothing else releases early.
* Two endorsements may have one identifier (see RepuRing above).
* While syncing, a block is committed without a look at anybody's signature,
  against the comment at `Sync()`; between checkpoints, only that it applies and
  names the block before it counts.
* A write that fails makes the node skip a height and refuse every block after
  the next one, until it is restored.
* After COMMIT-PROCESS a validator that fails to handle the block has no timer.
* A slash of a delegate leaves the trackers of delegated stake too high.
  `DelegatesAreCovered` shows that they are never too low.
* The pacemaker's threshold is half of the two-thirds power, rounded down.
* The transactions of a block leave the pool before the store has taken it.

## Proofs

All theorems hold for every value of the constants that satisfies the named
assumptions of the module; TLC evaluates these assumptions on each instance.
Each inductive invariant was model-checked before it was proved.

**`RepuRing_proofs`**: every property of the run `repuring`, for any set of
addresses, names, circles and contributions (also infinite), any increasing
thresholds and any coincidences of identifiers that the hashed bytes allow.
Assumed: lower-casing maps names to names, the empty contribution id is no
contribution, the thresholds are ordered, a contribution is fixed by the circle
and address that it spells. `CountIsActiveEndorsements` and
`ReputationBounds` are not inductive by themselves. That a slash subtracts from
the count a unit that an endorsement added needs the endorsement to refer to the
right contribution (`EndorsementsRefer`); that an endorsement appears only once
needs the once-only keys to name exactly the endorsements (`EndorsedOnce`), or
overwriting a slashed one would add a point twice; an overwriting that the
identifiers do allow enters `Doubled` in the same step and happens once, as both
its keys are set then; counting needs the set of
endorsements to be finite, which is part of the invariant. The induction goes in
layers: typing, membership, once-only keys and references, counts.

**`PluginRPC_proofs`**: the host's maps are never left with an entry of a call
that returned, and no write strays to another state machine, for any number of
state machines and transactions and with both timeouts. The invariant says what
the maps do hold: the last id its state machine drew, paired with that machine
(`MapsHoldCalls`), while an answer on its way to a channel has left both maps
(`AnswersAreForgotten`) and is of an id drawn before; a new id is therefore new
to all of them.

The second part of the module shows that, while nothing times out (`NoTimeouts`), the
exchange implements `AtomicTx` and no message ends a process. The heart of the invariant
is that the control of a state machine's call is in one place at a time
(`OneToken`): a message on the socket, a running handler, a goroutine, the
answer's channel. `InPlace` says for each place how far the handler is, whether
the maps know the id and what the wrapped store holds; each step takes the token
from one place and puts it into the next (`MovesOn`), and leaves the calls of
other state machines alone (`Frame`). So a write is served while its transaction
is wrapped, and a good answer to DeliverTx finds exactly its own write there.
With timeouts the theorem is false; `plugin_late_write` shows how.

**`BFT_proofs`**: for any committee, blocks, leaders, rounds and root heights,
from one fact about voting power, that two majorities share a validator
(`QuorumAssumption`). That fact is itself proved of the code's threshold: for any
finite committee and any powers two majorities of `VotingPower` share more than a
third of the power (`MajoritiesShareAThird`), so that its majorities are such
quorums (`MajoritiesAreQuorums`). Locks are certified and voters that did not restart
themselves stay locked, whatever restarts there are; one block per view, and the
refinement of `Finality`, while nobody restarts (`NoRestarts`). The inductive
invariant says that every message has the messages before it that its phase
demands (`MessagesAreFounded`), that a validator that did not restart has voted
in no later view than its own, once in a view and after its phase, and has
reported its locks to the leaders of later views (`LocksAreReported`), and, the
heart of it, that a proposal agrees with every earlier view: some quorum has
left that view and voted there for no other block (`ProposalsAreSettled`). A new
proposal does because its leader's lock is the highest its majority reported:
nothing was voted for between the lock's view and this one, the lock's block was
the only one in its view, and below that the proposal for which the lock was
taken has the same block. This also covers a lock of a *later* view, which a
leader that lags behind may be given. `SafeNode` is not used: among validators
that follow the code, agreement does not rest on it, and so not on its comparing
rounds without root heights. Steps enter the induction through one lemma
(`StepEffects`) that sums up what any handler may do.

**`BlockSync_proofs`**: commits are not mixed, consensus follows the chain, the
window is kept, for any number of heights, signals, faults and any window. The
invariant adds that the state machine holds nothing but the block whose result
is cached (`AppliedIsCached`) and that where consensus is behind the chain, a
signal that makes it follow is on its way (`WillFollow`). None of it depends on
what peers answer or tell: blocks that nobody certified, skipped heights and
targets out of reach are among the steps.

**`Store_proofs`**: the latest state is the history, roots, readers, and the
refinement of `VersionedMap`, for any keys, values and bounds. The invariant is
about every database a crash may leave, not only the present one, and about what
the stack of caches reads; lemmas say what a commit and a rollback make of a
sound database.

**`Staking_proofs`**: releases and forced unstaking are never forgotten, put off
or called off; a release is early only through an entry that a slashed record of
the same address left, and such entries come from slashes of a whole stake and
releases by such entries only; both for every step from every state that can be
reached, for any addresses, committees and parameters. Assumed: unstaking and pause
periods are at least one block and a delegate's at least two
(`ParametersAreValid`; the code refuses smaller ones), amounts are positive. The
invariant (`IInv`) joins both index properties: forcing out a paused validator
makes it an unstaking one in the same block, and both heights must still be to
come. What a step may do to records and entries is said once (`Kept`: which
records may be gone, which entries may lose theirs) and composed along each
handler.

The second part is about the supply: tokens are conserved, the trackers of staked
tokens are exact, those of delegated tokens cover the delegates, rewards fit the
pool they are taken from, and no balance, stake or tracker is ever negative
(`TypeOK`; in the code these are unsigned). Assumed besides: addresses and
committees are finitely many, the percentages of a certificate add up to at most
100 (`PaymentsArePercents`; `RewardRecipients.CheckBasic` refuses others), the
DAO's pool is no committee. None of the four is inductive by itself: a subtraction is safe because
the tracker covers the record it is taken from, and the record is part of a sum
that others are part of too. `Tracks` is the conjunction of the four without the
balance of the total, and `Surplus` by how much the total exceeds what is held.
Handlers are operators from state to state, and some of them mint or burn; so each
has one lemma that says it keeps `Tracks` and by how much it moves `Surplus`
(nothing for a transfer, the burned amount and back for a slash, which burns first
and lowers the stakes after). Composed along `BeginBlock`, each transaction and `EndBlock` these add up
to nothing (`Steady`), and `SInv` says that between steps the surplus is zero.
Delegate trackers are covered and not exact because a slash leaves them alone.

**`Mempool_proofs`**: the cached proposal is of the current height whenever no
commit is under way, for any transactions, batches and limits, if checks do not
fail by themselves. What makes it inductive (`Fresh`): the proposal grows old
only while a commit holds the lock, and the check of that commit has a context
that nobody cancels. The counter is never short, and eviction drops no
transaction that pays more than one that stays, for all runs. Their invariant
(`PInv`) adds that the pool is sorted by fee and holds nothing twice: only then do
the bytes subtracted for the dropped end of the list, or for a set of deleted
transactions, equal the bytes that left.

**`Sums_proofs`**: the community modules define a sum by a recursive function
over subsets. The lemmas identify it with the number of pairs of an element and a
unit of it (`SumIsUnits`), show by induction over the *set* of subsets with a
property, which the prover can instantiate, that such a function exists, and
derive how a sum changes when the function or the set does.

Only model-checked: liveness (`EveryCallReturns`, `EveryRoundEnds`,
`SyncCompletes`). Liveness under fairness is out of the prover's reach.

## Plan

1. Done: `RepuRing`, `PluginRPC`, `BFT`, `Mempool`, `Store`, `BlockCommit`,
   `BlockSync`, `Staking`, each with its proofs; every safety property that a
   passing run checks is also a theorem.
2. `Swap` and the dex: lock, commit and settle between root and nested chain.
3. Consensus over two root heights with two rounds each, for the liveness of
   `SafeNode`; validators that deviate, with evidence.

## Not modelled

* Swaps and the dex, vesting, the faucet, governance votes and parameter
  changes, retired committees, halvening, and the certificates that nested chains
  send to their root as transactions (`MessageCertificateResults`, which may slash
  and pause within the transactions of a block): not
  yet. Branches behind protocol version 2: not reachable.
* Evidence, VDF, sortition and partial certificates of consensus; checkpoints;
  the configuration handshake of the plugin: not yet.
* The nodes of the sparse Merkle tree, encodings, iterators, the indexer,
  compaction and backup: their correctness is about bytes and orders, which
  tests reach better.
* Peer-to-peer connections and encryption, RPC, auto update, user interfaces,
  plugins in other languages, generated code and the toolchain: input and
  output, or code without protocol state of this system.
