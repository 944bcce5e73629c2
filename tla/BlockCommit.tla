----------------------------- MODULE BlockCommit ----------------------------
(***************************************************************************)
(* How one validator gets from a certified block to a committed state      *)
(* (controller/block.go, bft/bft.go).  Consensus applies a proposal to the *)
(* state machine to validate it and leaves it applied, with its result in  *)
(* BlockResult, so that the commit need not apply it again; everything     *)
(* that empties the state machine in between matters.  The commit signals  *)
(* consensus through the ResetBFT channel, which it reads when it can.     *)
(*                                                                         *)
(* Each action is a function that holds the controller's lock: a phase, a  *)
(* reset, a block from the inbox.  Of the other validators only the blocks *)
(* they certify are seen, one at a height (see BFT); blocks that nobody    *)
(* certified come from peers.                                              *)
(***************************************************************************)
EXTENDS Naturals, Sequences

CONSTANTS Id,           \* what tells blocks of one height apart
          Final,        \* the name of the block that is, or comes to be, certified
          None,
          MaxHeight,    \* bound: certified heights
          MaxResets,    \* bound: signals in ResetBFT (the channel holds 100)
          MaxFaults     \* bound: failed commits, restarts, lost answers

ASSUME BoundsAreNumbers == MaxHeight \in Nat /\ MaxResets \in Nat /\ MaxFaults \in Nat

Height == Nat \ {0}
Block == [h : Height, id : Id]
ASSUME NamesOfBlocks == Final \in Id /\ None \notin Block

VARIABLES
    certified,  \* the other validators: at how many heights a block is certified
    chain,      \* the store: the blocks, what was applied for each, under which version
    version,    \* Store.version
    height,     \* StateMachine.height: the height of the block to come
    applied,    \* the blocks whose changes the state machine holds uncommitted
    phase,      \* View.Phase, or "Waiting" if no phase timer is set
    view,       \* View.Height
    block,      \* BFT.Block
    cached,     \* BFT.BlockResult
    high,       \* BFT.HighQC
    resets,     \* the channel ResetBFT
    syncing,    \* Controller.isSyncing
    faults

network == certified
node == <<chain, version, height, applied>>
consensus == <<phase, view, block, cached, high>>
commitVars == <<network, node, consensus, resets, syncing, faults>>

CommitInit ==
    /\ certified = 0 /\ chain = <<>> /\ version = 1 /\ height = 1 /\ applied = {}
    /\ phase = "Waiting" /\ view = 1 /\ block = None /\ cached = None /\ high = None
    /\ resets = <<>> /\ syncing = TRUE /\ faults = 0

\* two thirds of the committee signed the block of a height
Certified(h) == h <= certified
Certificate(h) == [h |-> h, id |-> Final]

\* the other validators certify the next block
Certify ==
    /\ certified < MaxHeight
    /\ certified' = certified + 1
    /\ UNCHANGED <<node, consensus, resets, syncing, faults>>

(***************************************************************************)
(* Consensus phases.                                                       *)
(***************************************************************************)
\* the timer fires while syncing, or while this node is no validator, and is stopped
Pause ==
    /\ phase # "Waiting"
    /\ phase' = "Waiting"
    /\ UNCHANGED <<network, node, view, block, cached, high, resets, syncing, faults>>

\* the leader without a lock takes a block from the mempool, and resets the state machine
ProduceProposal ==
    /\ ~syncing /\ phase = "Propose" /\ high = None
    /\ \/ \E id \in Id : block' = [h |-> height, id |-> id]
       \/ block' = None
    /\ applied' = {}
    /\ phase' = "ProposeVote"
    /\ UNCHANGED <<network, chain, version, height, view, cached, high, resets, syncing, faults>>

\* the leader with a lock proposes that block
ProposeLocked ==
    /\ ~syncing /\ phase = "Propose" /\ high # None
    /\ block' = high
    /\ phase' = "ProposeVote"
    /\ UNCHANGED <<network, node, view, cached, high, resets, syncing, faults>>

\* not elected
Follow ==
    /\ ~syncing /\ phase = "Propose"
    /\ phase' = "ProposeVote"
    /\ UNCHANGED <<network, node, view, block, cached, high, resets, syncing, faults>>

\* an election vote that carries a higher lock; its certificate has no block
HighVote ==
    /\ ~syncing
    /\ \E id \in Id : high' = [h |-> view, id |-> id]
    /\ block' = None
    /\ UNCHANGED <<network, node, phase, view, cached, resets, syncing, faults>>

\* CheckAndSetLastCertificate: the chain has the block before b, and it is the one that b
\* follows.  A certified block follows a certified one; who makes up a block has it follow
\* what he likes.  The certificate of the block before is looked into unless syncing.
Fits(b) ==
    chain # <<>> =>
        LET last == chain[Len(chain)].block
        IN  last.h = height - 1 /\ (b.id = Final \/ ~syncing => last.id = Final)

\* ValidateProposal: reset, apply, keep the result
Validate(b) ==
    /\ ~syncing /\ phase = "ProposeVote" /\ b.h = view
    /\ b.h = height /\ Fits(b)
    /\ applied' = {b}
    /\ cached' = b /\ block' = b
    /\ phase' = "PrecommitVote"
    /\ UNCHANGED <<network, chain, version, height, view, high, resets, syncing, faults>>

\* PRECOMMIT-VOTE: lock
Lock ==
    /\ ~syncing /\ phase = "PrecommitVote" /\ block # None
    /\ high' = block
    /\ phase' = "CommitProcess"
    /\ UNCHANGED <<network, node, view, block, cached, resets, syncing, faults>>

\* the certificate is sent to self through the inbox, and no timer is set
CommitProcess ==
    /\ ~syncing /\ phase = "CommitProcess" /\ block # None
    /\ Certified(block.h) /\ block = Certificate(block.h)
    /\ phase' = "Waiting"
    /\ UNCHANGED <<network, node, view, block, cached, high, resets, syncing, faults>>

\* no message, a proposal that is unsafe or does not apply, another block than expected
MutRoundInterrupt == applied' = {} /\ phase' = "Pacemaker" /\ UNCHANGED cached
RoundInterrupt == applied' = {} /\ phase' = "Pacemaker" /\ cached' = None

Interrupt ==
    /\ ~syncing /\ phase \in {"ProposeVote", "PrecommitVote", "CommitProcess"}
    /\ RoundInterrupt
    /\ UNCHANGED <<network, chain, version, height, view, block, high, resets, syncing, faults>>

NewRound == view' = height /\ block' = None /\ phase' = "Propose"

Pacemaker ==
    /\ ~syncing /\ phase = "Pacemaker"
    /\ NewRound
    /\ UNCHANGED <<network, node, cached, high, resets, syncing, faults>>

(***************************************************************************)
(* Resets.                                                                 *)
(***************************************************************************)
\* locks are kept on a root chain update
MutKept(reset) == high
Kept(reset) == IF reset = "root" THEN high ELSE None

NewHeight(reset) ==
    /\ NewRound
    /\ high' = Kept(reset)
    /\ UNCHANGED cached

HandleReset ==
    /\ resets # <<>>
    /\ NewHeight(Head(resets))
    /\ resets' = Tail(resets)
    /\ UNCHANGED <<network, node, syncing, faults>>

\* a new root block; without a last validator set it is signalled as a new height
UpdateRootChainInfo ==
    /\ Len(resets) < MaxResets
    /\ \E reset \in {"root", "height"} : resets' = Append(resets, reset)
    /\ UNCHANGED <<network, node, consensus, syncing, faults>>

(***************************************************************************)
(* Commit.                                                                 *)
(***************************************************************************)
\* what CommitCertificate commits for a block: the state machine as it is if the
\* result is at hand, or else the block applied to a state machine that was reset
MutToCommit(b) == IF cached = b THEN applied ELSE applied \cup {b}
ToCommit(b) == IF cached = b THEN applied ELSE {b}

Continues(b) == b.h = height /\ (cached = b \/ Fits(b))

\* HandlePeerBlock and CommitCertificate of the block to come: the store is written under
\* its next version, and the new state machine takes its height from there
HandlePeerBlock(b) ==
    /\ Continues(b)
    /\ version' = version + 1
    /\ chain' = Append(chain, [block |-> b, state |-> ToCommit(b), version |-> version'])
    /\ height' = version'
    /\ applied' = {}

\* a block that the chain does not continue with: the deferred reset runs
BlockRefused(b) ==
    /\ b.h = height /\ ~Continues(b)
    /\ applied' = {}
    /\ UNCHANGED <<network, chain, version, height, consensus, resets, faults>>

\* the block does not apply or is not indexed; or it is not written, and store.Commit
\* has raised its version by then
CommitFails(b) ==
    /\ Continues(b) /\ faults < MaxFaults
    /\ faults' = faults + 1
    /\ version' \in {version, version + 1}
    /\ applied' = {}
    /\ UNCHANGED <<network, chain, height, consensus, resets>>

\* a block from the inbox; ~syncing is what ListenForBlock runs under, and the signatures
\* of two thirds of the committee are checked
ListenForBlock ==
    /\ ~syncing /\ Len(resets) < MaxResets
    /\ Certified(height) /\ HandlePeerBlock(Certificate(height))
    /\ resets' = Append(resets, "height")
    /\ UNCHANGED <<network, consensus, syncing, faults>>

ListenFails ==
    /\ ~syncing /\ Certified(height)
    /\ CommitFails(Certificate(height)) \/ BlockRefused(Certificate(height))
    /\ UNCHANGED syncing

\* blocks of later heights came from a third of the peers
FallBehind ==
    /\ ~syncing /\ height < certified
    /\ syncing' = TRUE
    /\ UNCHANGED <<network, node, consensus, resets, faults>>

\* the node stops, perhaps before the last commits reached the disk, and starts
Restarts ==
    /\ faults < MaxFaults
    /\ faults' = faults + 1
    /\ \E n \in 0 .. Len(chain) :
         /\ chain' = SubSeq(chain, 1, n)
         /\ version' = IF n = 0 THEN 1 ELSE chain[n].version
    /\ height' = version'
    /\ applied' = {} /\ resets' = <<>> /\ syncing' = TRUE
    /\ phase' = "Waiting" /\ view' = height'
    /\ block' = None /\ cached' = None /\ high' = None
    /\ UNCHANGED network

Phases ==
    \/ Pause \/ ProduceProposal \/ ProposeLocked \/ Follow \/ HighVote
    \/ \E id \in Id : Validate([h |-> view, id |-> id])
    \/ Lock \/ CommitProcess \/ Interrupt \/ Pacemaker
Commits == ListenForBlock \/ ListenFails \/ FallBehind
CommitNext == Certify \/ Phases \/ HandleReset \/ UpdateRootChainInfo \/ Commits

(***************************************************************************)
(* Properties.                                                             *)
(***************************************************************************)
CommitTypeOK ==
    /\ certified \in 0 .. MaxHeight
    /\ chain \in Seq([block : Block, state : SUBSET Block, version : Height])
    /\ version \in Height /\ height \in Height
    /\ height = IF chain = <<>> THEN 1 ELSE chain[Len(chain)].version
    /\ applied \in SUBSET Block
    /\ phase \in {"Propose", "ProposeVote", "PrecommitVote", "CommitProcess", "Waiting", "Pacemaker"}
    /\ view \in Height /\ {block, cached, high} \subseteq Block \cup {None}
    /\ resets \in Seq({"root", "height"}) /\ Len(resets) <= MaxResets
    /\ syncing \in BOOLEAN /\ faults \in 0 .. MaxFaults

\* What is committed as a block is never mixed with the changes of a proposal that was
\* validated before it: CommitCertificate resets the state machine "to ensure stale
\* proposal validations don't come into play".
NoStaleValidation ==
    \A i \in 1 .. Len(chain) : chain[i].state \subseteq {chain[i].block}

\* What is committed as a block is that block, applied: the cached result, "allowing a
\* validator to validate the block only once and directly commit", is of the state machine.
CommittedStateIsTheBlocks ==
    \A i \in 1 .. Len(chain) : chain[i].state = {chain[i].block}

\* Once it has read its signals consensus is about the block to come, and so is its
\* lock, whatever phases ran between a commit and the reset it signals.
ConsensusFollowsTheChain ==
    resets = <<>> /\ ~syncing => view = height /\ (high # None => high.h = height)
=============================================================================
