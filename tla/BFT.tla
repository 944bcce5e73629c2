-------------------------------- MODULE BFT ---------------------------------
(***************************************************************************)
(* NestBFT: how the validators of a committee agree on the block of one    *)
(* height (bft/bft.go, vote.go, prop.go, msg.go).                          *)
(*                                                                         *)
(* A validator walks through the phases by its own timers and reads, in    *)
(* each phase, whatever messages of its view have reached it.  Messages    *)
(* are lost, delayed and reordered at will: msgs is everything ever sent,  *)
(* and a handler reads any part of it.  That the code stores a message on  *)
(* arrival and reads it in a later phase adds nothing: one that comes too  *)
(* early to be accepted is a lost one.  The exception is an election vote  *)
(* that carries a lock, which takes effect when it arrives (AddVote).      *)
(*                                                                         *)
(* A view is <<root height, round>>.  A quorum certificate is its view and *)
(* its block: every validator follows the code, so a leader only builds    *)
(* the certificates it has the votes for.  Validators may stop, and may    *)
(* restart with nothing but their committed blocks.  An operator named     *)
(* Mut... is a defective form of the definition that follows it.           *)
(***************************************************************************)
EXTENDS Naturals, FiniteSetsExt

CONSTANTS
    Validator, Block, None,
    Quorum,        \* the sets of validators with +2/3 of the voting power
    PacemakerSets, \* the sets with half of that, which may pull up a round
    Candidates,    \* round -> the validators that may be elected in it
    MaxRound,      \* bound on the rounds of a root height
    MaxRootHeight, \* bound on the root blocks during this height
    MaxRestarts,   \* bound on the restarts of all validators
    MayFail        \* the validators whose handling of a block may fail

ASSUME QuorumAssumption ==
    /\ Quorum \subseteq SUBSET Validator
    /\ \A P, Q \in Quorum : P \cap Q # {}
ASSUME BoundAssumption ==
    MaxRound \in Nat /\ MaxRootHeight \in Nat /\ MaxRestarts \in Nat
ViewSet == (0 .. MaxRootHeight) \X (0 .. MaxRound)
QCSet == [view : ViewSet, block : Block]

ASSUME NoneAssumption == None \notin Block \cup Validator \cup QCSet
ASSUME MayFailAssumption == MayFail \subseteq Validator
ASSUME CandidatesAssumption == Candidates \in [0 .. MaxRound -> SUBSET Validator]

VARIABLES
    phase,      \* Validator -> b.Phase: the handler its timer will start
    round,      \* Validator -> b.Round
    rootHeight, \* Validator -> b.RootHeight
    proposer,   \* Validator -> b.ProposerKey
    block,      \* Validator -> b.Block with b.Results
    highQC,     \* Validator -> b.HighQC: the lock, or None
    committed,  \* Validator -> the block in its store at this height
    msgs,       \* every message sent
    restarts,   \* Validator -> how often it restarted
    blockFailed \* Validator -> HandlePeerBlock returned an error

vars == <<phase, round, rootHeight, proposer, block, highQC, committed, msgs, restarts,
          blockFailed>>
lockVars == <<highQC, committed>>

View(v) == <<rootHeight[v], round[v]>>

\* View.Less
Less(x, y) == x[1] < y[1] \/ (x[1] = y[1] /\ x[2] < y[2])

QC(view, b) == [view |-> view, block |-> b]

\* from the leader to the replicas
Proposal(type, v, b, high) ==
    [type |-> type, src |-> v, view |-> View(v), block |-> b, high |-> high]
\* from a replica to the leader
Vote(type, v, dst, b, high) ==
    [type |-> type, src |-> v, dst |-> dst, view |-> View(v), block |-> b, high |-> high]
\* from a replica that interrupted its round, to all
ViewMsg(v) == [type |-> "RoundInterrupt", src |-> v, view |-> View(v)]
\* a block with its certificate, as gossiped
Certificate(qc) == [type |-> "Block", qc |-> qc]

Send(m) == msgs' = msgs \cup {m}

Init ==
    /\ phase = [v \in Validator |-> "Election"]
    /\ round = [v \in Validator |-> 0] /\ rootHeight = [v \in Validator |-> 0]
    /\ proposer = [v \in Validator |-> None] /\ block = [v \in Validator |-> None]
    /\ highQC = [v \in Validator |-> None] /\ committed = [v \in Validator |-> None]
    /\ msgs = {} /\ restarts = [v \in Validator |-> 0]
    /\ blockFailed = [v \in Validator |-> FALSE]

-----------------------------------------------------------------------------
(* Votes and proposals a validator may have received *)

\* A vote that was counted went through AddVote: the lock it carries is no
\* higher than the one this validator holds.
Higher(qc, than) == than # None => Less(than.view, qc.view)
Handled(v, m) == m.high # None => ~Higher(m.high, highQC[v])

VotesFor(v, w, type, b) ==
    \E m \in msgs : /\ m.type = type /\ m.src = w /\ m.dst = v
                    /\ m.view = View(v) /\ m.block = b /\ Handled(v, m)

MutGetMajorityVote(v, type, b) == \E w \in Validator : VotesFor(v, w, type, b)
\* GetMajorityVote: +2/3 sent this validator the same vote of its view
GetMajorityVote(v, type, b) == \E Q \in Quorum : \A w \in Q : VotesFor(v, w, type, b)

\* GetProposal: a leader message of this validator's view
GetProposal(v, type) == {m \in msgs : m.type = type /\ m.view = View(v)}

\* CheckProposerAndProposal, after CheckProposerMessage
Expected(v, m) == m.src = proposer[v] /\ m.block = block[v]

\* AddVote for an election vote with a lock (handleHighQCVDFAndEvidence): it
\* counts for any round of the root height, whatever this validator's phase,
\* and the vote that brings it carries no block.
AddVote(v) ==
    /\ \E m \in msgs :
          /\ m.type = "ElectionVote" /\ m.dst = v /\ m.view[1] = rootHeight[v]
          /\ ~Handled(v, m)
          /\ highQC' = [highQC EXCEPT ![v] = m.high]
    /\ block' = [block EXCEPT ![v] = None]
    /\ UNCHANGED <<phase, round, rootHeight, proposer, committed, msgs, restarts>>

-----------------------------------------------------------------------------
(* The phases.  A handler that does not interrupt the round moves on to the *)
(* next phase (SetTimerForNextPhase).  Precommit and Commit return at once  *)
(* for a replica that is not the leader, which goes on to the phase after.  *)

MoveTo(v, p) == phase' = [phase EXCEPT ![v] = p]

\* RoundInterrupt tells the others and waits for the Pacemaker.
RoundInterrupt(v) ==
    /\ MoveTo(v, "Pacemaker")
    /\ Send(ViewMsg(v))
    /\ UNCHANGED <<round, rootHeight, proposer, block, lockVars, restarts>>

\* StartElectionPhase and StartElectionVotePhase.  The candidates' messages are
\* left out: what matters of them is the leader a validator votes for, and
\* that depends on which of them it heard of.
StartElectionVotePhase(v) ==
    /\ phase[v] = "Election"
    /\ \E leader \in Candidates[round[v]] :
          Send(Vote("ElectionVote", v, leader, None, highQC[v]))
    /\ MoveTo(v, "Propose")
    /\ UNCHANGED <<round, rootHeight, proposer, block, lockVars, restarts>>

\* a new block (ProduceProposal), or the block of the highest lock
Proposed(v) == IF highQC[v] = None THEN Block ELSE {highQC[v].block}

\* Without the votes, or when no block can be produced, nothing is sent.
StartProposePhase(v) ==
    /\ phase[v] = "Propose"
    /\ MoveTo(v, "ProposeVote")
    /\ \/ /\ GetMajorityVote(v, "ElectionVote", None)
          /\ \E b \in Proposed(v) :
                /\ block' = [block EXCEPT ![v] = b]
                /\ Send(Proposal("Propose", v, b, highQC[v]))
       \/ UNCHANGED <<block, msgs>>
    /\ UNCHANGED <<round, rootHeight, proposer, lockVars, restarts>>

\* SafeNode: a locked validator leaves its lock for the same block or for a
\* lock of a higher round
SafeNode(v, m) ==
    highQC[v] # None =>
        /\ m.high # None
        /\ \/ m.high.block = highQC[v].block
           \/ m.high.view[2] > highQC[v].view[2]

\* No proposal, one that is not safe, or one that fails ValidateProposal
\* interrupts the round.
StartProposeVotePhase(v) ==
    /\ phase[v] = "ProposeVote"
    /\ \/ \E m \in GetProposal(v, "Propose") :
             /\ SafeNode(v, m)
             /\ proposer' = [proposer EXCEPT ![v] = m.src]
             /\ block' = [block EXCEPT ![v] = m.block]
             /\ Send(Vote("ProposeVote", v, m.src, m.block, None))
             /\ MoveTo(v, IF m.src = v THEN "Precommit" ELSE "PrecommitVote")
             /\ UNCHANGED <<round, rootHeight, lockVars, restarts>>
       \/ RoundInterrupt(v)

\* Precommit and Commit: the leader shows the replicas +2/3 of their votes.
\* When its block was taken away by AddVote, what it sends is not accepted.
ShowMajority(v, type, votes, next) ==
    \/ /\ GetMajorityVote(v, votes, block[v])
       /\ block[v] # None
       /\ Send(Proposal(type, v, block[v], None))
       /\ MoveTo(v, next)
       /\ UNCHANGED <<round, rootHeight, proposer, block, lockVars, restarts>>
    \/ /\ block[v] = None
       /\ \E b \in Block : GetMajorityVote(v, votes, b)
       /\ MoveTo(v, next)
       /\ UNCHANGED <<round, rootHeight, proposer, block, lockVars, msgs, restarts>>
    \/ RoundInterrupt(v)

StartPrecommitPhase(v) ==
    phase[v] = "Precommit" /\ ShowMajority(v, "Precommit", "ProposeVote", "PrecommitVote")

MutLock(v, m) == highQC' = highQC
\* the certificate of the propose votes becomes the lock
Lock(v, m) == highQC' = [highQC EXCEPT ![v] = QC(m.view, m.block)]

StartPrecommitVotePhase(v) ==
    /\ phase[v] = "PrecommitVote"
    /\ \/ \E m \in GetProposal(v, "Precommit") :
             /\ Expected(v, m)
             /\ Lock(v, m)
             /\ Send(Vote("PrecommitVote", v, m.src, m.block, None))
             /\ MoveTo(v, IF m.src = v THEN "Commit" ELSE "CommitProcess")
             /\ UNCHANGED <<round, rootHeight, proposer, block, committed, restarts>>
       \/ RoundInterrupt(v)

StartCommitPhase(v) ==
    phase[v] = "Commit" /\ ShowMajority(v, "Commit", "PrecommitVote", "CommitProcess")

MutWithoutBlock(v) == UNCHANGED <<phase, msgs>>
\* without a message from the leader the round is interrupted
WithoutBlock(v) == MoveTo(v, "Pacemaker") /\ Send(ViewMsg(v))

\* The block goes to the validator's own inbox and then to its peers; no
\* timer is set, the block that arrives resets the validator.
StartCommitProcessPhase(v) ==
    /\ phase[v] = "CommitProcess"
    /\ \/ \E m \in GetProposal(v, "Commit") :
             /\ Expected(v, m)
             /\ Send(Certificate(QC(m.view, m.block)))
             /\ MoveTo(v, "Waiting")
       \/ WithoutBlock(v)
    /\ UNCHANGED <<round, rootHeight, proposer, block, lockVars, restarts>>

\* the highest round that the validators in one of PacemakerSets have reached,
\* by the messages P; 0 when they are too few
PacemakerRounds(P) ==
    LET reached == {0} \cup {k \in 0 .. MaxRound :
                       {m.src : m \in {p \in P : p.view[2] >= k}} \in PacemakerSets}
    IN  {k \in reached : \A j \in reached : j <= k}

\* PacemakerMessages holds one message of a validator
PacemakerMessages(v) ==
    {P \in SUBSET {m \in msgs : m.type = "RoundInterrupt" /\ m.view[1] = rootHeight[v]} :
        \A m, n \in P : m.src = n.src => m = n}

MutLocksAfterRound(v) == [highQC EXCEPT ![v] = None]
\* NewRound clears the proposal of the round and not the lock.  It also reads
\* the root height again: what it would find changed is a root block whose reset
\* already waits in the channel and is taken before the next timer fires, so
\* the change is left to NewCommittee.
LocksAfterRound(v) == highQC
NewRound(v) ==
    /\ proposer' = [proposer EXCEPT ![v] = None]
    /\ block' = [block EXCEPT ![v] = None]
    /\ highQC' = LocksAfterRound(v)

Pacemaker(v) ==
    /\ phase[v] = "Pacemaker" /\ round[v] < MaxRound
    /\ NewRound(v)
    /\ \E P \in PacemakerMessages(v) : \E k \in PacemakerRounds(P) :
          round' = [round EXCEPT ![v] = IF k > @ + 1 THEN k ELSE @ + 1]
    /\ MoveTo(v, "Election")
    /\ UNCHANGED <<rootHeight, committed, msgs, restarts>>

HandlePhase(v) ==
    \/ StartElectionVotePhase(v) \/ StartProposePhase(v) \/ StartProposeVotePhase(v)
    \/ StartPrecommitPhase(v) \/ StartPrecommitVotePhase(v)
    \/ StartCommitPhase(v) \/ StartCommitProcessPhase(v)
    \/ Pacemaker(v)

-----------------------------------------------------------------------------
(* What resets a validator *)

\* NewHeight(true): a root block arrives; round 0 again, the lock is kept.
NewCommittee(v) ==
    /\ rootHeight[v] < MaxRootHeight
    /\ rootHeight' = [rootHeight EXCEPT ![v] = @ + 1]
    /\ round' = [round EXCEPT ![v] = 0]
    /\ MoveTo(v, "Election")
    /\ NewRound(v)
    /\ UNCHANGED <<committed, msgs, restarts>>

\* HandlePeerBlock commits a block with its certificate, from the validator's
\* own inbox or from a peer, and NewHeight(false) drops the lock.
HandlePeerBlock(v) ==
    /\ \E m \in msgs : /\ m.type = "Block"
                       /\ committed' = [committed EXCEPT ![v] = m.qc.block]
    /\ highQC' = [highQC EXCEPT ![v] = None]
    /\ block' = [block EXCEPT ![v] = None]
    /\ proposer' = [proposer EXCEPT ![v] = None]
    /\ MoveTo(v, "NextHeight")
    /\ UNCHANGED <<round, rootHeight, msgs, restarts>>

\* ListenForBlock when HandlePeerBlock fails (the committee cannot be loaded, the
\* block cannot be applied or stored): it returns without a reset, and copies of
\* the message are dropped from then on.
HandlePeerBlockFails(v) ==
    /\ v \in MayFail
    /\ \E m \in msgs : m.type = "Block"
    /\ blockFailed' = [blockFailed EXCEPT ![v] = TRUE]
    /\ UNCHANGED <<phase, round, rootHeight, proposer, block, lockVars, msgs, restarts>>

\* New: nothing of the consensus state is on disk.
Restart(v) ==
    /\ MapThenSumSet(LAMBDA w : restarts[w], Validator) < MaxRestarts
    /\ restarts' = [restarts EXCEPT ![v] = @ + 1]
    /\ MoveTo(v, "Election")
    /\ round' = [round EXCEPT ![v] = 0]
    /\ proposer' = [proposer EXCEPT ![v] = None]
    /\ block' = [block EXCEPT ![v] = None]
    /\ highQC' = [highQC EXCEPT ![v] = None]
    /\ UNCHANGED <<rootHeight, committed, msgs>>

Step(v) ==
    /\ committed[v] = None
    /\ \/ /\ \/ AddVote(v) \/ HandlePhase(v) \/ NewCommittee(v)
             \/ HandlePeerBlock(v) \/ Restart(v)
          /\ UNCHANGED blockFailed
       \/ HandlePeerBlockFails(v)

Next == \E v \in Validator : Step(v)

Spec == Init /\ [][Next]_vars

\* A phase timer that was set fires, and a block in the inbox is handled once,
\* with or without success.
TimerFires(v) == committed[v] = None /\ HandlePhase(v) /\ UNCHANGED blockFailed
ListenForBlock(v) ==
    /\ committed[v] = None /\ ~blockFailed[v]
    /\ (HandlePeerBlock(v) /\ UNCHANGED blockFailed) \/ HandlePeerBlockFails(v)

Fairness == \A v \in Validator : WF_vars(TimerFires(v)) /\ WF_vars(ListenForBlock(v))

FairSpec == Spec /\ Fairness

-----------------------------------------------------------------------------
(* What consensus promises *)

Message ==
    [type : {"Propose", "Precommit", "Commit"}, src : Validator, view : ViewSet,
     block : Block, high : QCSet \cup {None}]
    \cup [type : {"ElectionVote", "ProposeVote", "PrecommitVote"}, src : Validator,
          dst : Validator, view : ViewSet, block : Block \cup {None}, high : QCSet \cup {None}]
    \cup [type : {"RoundInterrupt"}, src : Validator, view : ViewSet]
    \cup [type : {"Block"}, qc : QCSet]

TypeOK ==
    /\ phase \in [Validator -> {"Election", "Propose", "ProposeVote", "Precommit",
                                "PrecommitVote", "Commit", "CommitProcess", "Waiting",
                                "Pacemaker", "NextHeight"}]
    /\ round \in [Validator -> 0 .. MaxRound]
    /\ rootHeight \in [Validator -> 0 .. MaxRootHeight]
    /\ proposer \in [Validator -> Validator \cup {None}]
    /\ block \in [Validator -> Block \cup {None}]
    /\ highQC \in [Validator -> QCSet \cup {None}]
    /\ committed \in [Validator -> Block \cup {None}]
    /\ msgs \subseteq Message
    /\ restarts \in [Validator -> Nat]
    /\ blockFailed \in [Validator -> BOOLEAN]

\* The leader of a view shows one block to be certified: no two messages that
\* lock or commit replicas in the same view are for different blocks.
OneBlockPerView ==
    \A m, n \in msgs :
        (m.type \in {"Precommit", "Commit"} /\ n.type \in {"Precommit", "Commit"}
            /\ m.view = n.view) => m.block = n.block

\* A lock that a validator holds or passes on was voted for by +2/3 in its view.
Certified(qc) ==
    \E Q \in Quorum : \A w \in Q : \E m \in msgs :
        m.type = "ProposeVote" /\ m.src = w /\ m.view = qc.view /\ m.block = qc.block
LocksAreCertified == \A v \in Validator : highQC[v] # None => Certified(highQC[v])

\* A validator that voted for a block in PRECOMMIT-VOTE holds a lock of that
\* view or of a higher one until it commits, through interrupted rounds, locks
\* taken over from others and new root heights, unless it restarted itself: the
\* lock of a voter does not depend on what the rest of the committee remembers.
SteadyVotersStayLocked ==
    \A m \in msgs :
        (m.type = "PrecommitVote" /\ committed[m.src] = None /\ restarts[m.src] = 0)
            => highQC[m.src] # None /\ ~Less(highQC[m.src].view, m.view)

\* Blocks are final: the validators of a height never commit two blocks.
Final == INSTANCE Finality WITH final <- committed
BlocksAreFinal == Final!Spec

\* after COMMIT-PROCESS no timer is set: only the block resets the validator
DeadEnd(v) == phase[v] = "Waiting" /\ blockFailed[v]

\* The only dead end is the one after COMMIT-PROCESS: a validator leaves every
\* round, by committing or by the Pacemaker, up to the bound on rounds, unless
\* it waits for the reset of a block that it failed to handle.
EveryRoundEnds ==
    \A v \in Validator, k \in 0 .. MaxRound :
        (round[v] = k /\ k < MaxRound) ~> (committed[v] # None \/ round[v] # k \/ DeadEnd(v))
=============================================================================
