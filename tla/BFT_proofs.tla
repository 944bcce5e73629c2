----------------------------- MODULE BFT_proofs -----------------------------
(***************************************************************************)
(* Agreement of NestBFT for any committee, any quorums that intersect, any *)
(* number of blocks, rounds, root heights and leaders.                     *)
(***************************************************************************)
EXTENDS BFT, Sums_proofs

-----------------------------------------------------------------------------
(* The inductive invariant. *)

Sent(type) == {m \in msgs : m.type = type}

\* +2/3 sent a vote of this type for the block in the view
VotedBy(type, x, b) ==
    \E Q \in Quorum : \A w \in Q : \E m \in msgs :
        m.type = type /\ m.src = w /\ m.view = x /\ m.block = b

Votes == {"ElectionVote", "ProposeVote", "PrecommitVote"}
Early == {"Election", "Propose", "ProposeVote"}

\* Every message and every commit has the messages before it that the phases demand.
MessagesAreFounded ==
    /\ \A m \in Sent("ProposeVote") : \E n \in Sent("Propose") :
          n.view = m.view /\ n.block = m.block
    /\ \A m \in Sent("Precommit") : VotedBy("ProposeVote", m.view, m.block)
    /\ \A m \in Sent("PrecommitVote") : \E n \in Sent("Precommit") :
          n.view = m.view /\ n.block = m.block
    /\ \A m \in Sent("Commit") : VotedBy("PrecommitVote", m.view, m.block)
    /\ \A m \in Sent("Block") : \E n \in Sent("Commit") :
          n.view = m.qc.view /\ n.block = m.qc.block
    /\ \A v \in Validator : committed[v] # None =>
          \E m \in Sent("Block") : m.qc.block = committed[v]

\* The locks that election votes carry are certified like those that are held.
CarriedLocksAreCertified ==
    \A m \in Sent("ElectionVote") : m.high # None => Certified(m.high)

\* A validator that never restarted has voted in no later view than its own,
VotesAreOfThePast ==
    \A m \in msgs : m.type \in Votes /\ restarts[m.src] = 0 => ~Less(View(m.src), m.view)

\* has not voted for a proposal of its view before the phase of that vote is over,
VotesFollowThePhases ==
    \A m \in Sent("ProposeVote") :
        restarts[m.src] = 0 /\ m.view = View(m.src) => phase[m.src] \notin Early

\* has voted for one proposal in a view,
OneVotePerView ==
    \A m, n \in Sent("ProposeVote") :
        m.src = n.src /\ m.view = n.view /\ restarts[m.src] = 0 => m.block = n.block

\* and has told the leaders of later views of its precommit votes.
LocksAreReported ==
    \A e \in Sent("ElectionVote"), n \in Sent("PrecommitVote") :
        e.src = n.src /\ restarts[e.src] = 0 /\ Less(n.view, e.view)
            => e.high # None /\ ~Less(e.high.view, n.view)

\* A quorum has left view x and voted there for no other block than b.
Settled(x, b) ==
    \E Q \in Quorum : \A w \in Q :
        /\ Less(x, View(w))
        /\ \A n \in Sent("PrecommitVote") : n.src = w /\ n.view = x => n.block = b

NoRestarts == \A v \in Validator : restarts[v] = 0

\* A proposal agrees with whatever was, or still may be, committed before its view.
ProposalsAreSettled ==
    NoRestarts => \A m \in Sent("Propose"), x \in ViewSet :
                      Less(x, m.view) => Settled(x, m.block)

IInv ==
    /\ TypeOK
    /\ MessagesAreFounded /\ LocksAreCertified /\ CarriedLocksAreCertified
    /\ VotesAreOfThePast /\ VotesFollowThePhases /\ OneVotePerView
    /\ SteadyVotersStayLocked /\ LocksAreReported
    /\ ProposalsAreSettled

-----------------------------------------------------------------------------
(* Types. *)

\* Views are ordered by root height and then by round (View.Less).
LEMMA ViewsAreOrdered ==
    ASSUME NEW x \in ViewSet, NEW y \in ViewSet, NEW z \in ViewSet
    PROVE  /\ ~Less(x, x)
           /\ Less(x, y) => ~Less(y, x)
           /\ Less(x, y) \/ Less(y, x) \/ x = y
           /\ Less(x, y) /\ ~Less(z, y) => Less(x, z)
           /\ ~Less(y, x) /\ Less(y, z) => Less(x, z)
           /\ ~Less(y, x) /\ ~Less(z, y) => ~Less(z, x)
<1>1. PICK x1 \in 0 .. MaxRootHeight, x2 \in 0 .. MaxRound : x = <<x1, x2>>
  BY DEF ViewSet
<1>2. PICK y1 \in 0 .. MaxRootHeight, y2 \in 0 .. MaxRound : y = <<y1, y2>>
  BY DEF ViewSet
<1>3. PICK z1 \in 0 .. MaxRootHeight, z2 \in 0 .. MaxRound : z = <<z1, z2>>
  BY DEF ViewSet
<1> QED
  BY <1>1, <1>2, <1>3, BoundAssumption DEF Less

\* The view of a validator is one of the views.
LEMMA ViewType ==
    ASSUME TypeOK, NEW v \in Validator
    PROVE  View(v) \in ViewSet
BY DEF TypeOK, View, ViewSet

\* What the fields of a message are, by its type.
LEMMA MessageFields ==
    ASSUME TypeOK, NEW m \in msgs
    PROVE  /\ m.type \in Votes => /\ m.src \in Validator /\ m.view \in ViewSet
                                  /\ m.high \in QCSet \cup {None}
           /\ m.type \in {"Propose", "Precommit", "Commit"} =>
                 /\ m.src \in Validator /\ m.view \in ViewSet /\ m.block \in Block
                 /\ m.high \in QCSet \cup {None}
           /\ m.type = "Block" => m.qc \in QCSet
<1>1. m \in Message
  BY DEF TypeOK
<1> QED
  BY <1>1 DEF Message, Votes

\* Certified is what a majority of propose votes shows.
LEMMA CertifiedIsVotedBy ==
    ASSUME NEW qc
    PROVE  Certified(qc) <=> VotedBy("ProposeVote", qc.view, qc.block)
BY DEF Certified, VotedBy

\* The messages that are sent are messages.
LEMMA MessageTypes ==
    ASSUME TypeOK, NEW v \in Validator
    PROVE  /\ ViewMsg(v) \in Message
           /\ \A type \in {"Propose", "Precommit", "Commit"}, b \in Block,
                 high \in QCSet \cup {None} : Proposal(type, v, b, high) \in Message
           /\ \A type \in Votes, w \in Validator, b \in Block \cup {None},
                 high \in QCSet \cup {None} : Vote(type, v, w, b, high) \in Message
           /\ \A qc \in QCSet : Certificate(qc) \in Message
           /\ \A x \in ViewSet, b \in Block : QC(x, b) \in QCSet
BY ViewType DEF Message, ViewMsg, Proposal, Vote, Certificate, QC, QCSet, Votes

\* Interrupting a round keeps the types.
LEMMA RoundInterruptType ==
    ASSUME TypeOK, NEW v \in Validator, RoundInterrupt(v), UNCHANGED blockFailed
    PROVE  TypeOK'
BY MessageTypes DEF RoundInterrupt, MoveTo, Send, lockVars, TypeOK

\* Showing the replicas a majority keeps the types.
LEMMA ShowMajorityType ==
    ASSUME TypeOK, NEW v \in Validator, NEW type \in {"Precommit", "Commit"}, NEW votes,
           NEW next \in {"PrecommitVote", "CommitProcess"},
           ShowMajority(v, type, votes, next), UNCHANGED blockFailed
    PROVE  TypeOK'
<1>1. CASE /\ block[v] # None
           /\ Send(Proposal(type, v, block[v], None))
           /\ MoveTo(v, next)
           /\ UNCHANGED <<round, rootHeight, proposer, block, lockVars, restarts>>
  <2>1. block[v] \in Block
    BY <1>1 DEF TypeOK
  <2>2. Proposal(type, v, block[v], None) \in Message
    BY <2>1, MessageTypes
  <2> QED
    BY <1>1, <2>2 DEF MoveTo, Send, lockVars, TypeOK
<1>2. CASE /\ MoveTo(v, next)
           /\ UNCHANGED <<round, rootHeight, proposer, block, lockVars, msgs, restarts>>
  BY <1>2 DEF MoveTo, lockVars, TypeOK
<1>3. CASE RoundInterrupt(v)
  BY <1>3, RoundInterruptType
<1> QED
  BY <1>1, <1>2, <1>3 DEF ShowMajority

\* The handlers of the phases keep the types.
LEMMA HandlePhaseType ==
    ASSUME TypeOK, NEW v \in Validator, HandlePhase(v), UNCHANGED blockFailed
    PROVE  TypeOK'
<1> USE DEF MoveTo, Send, lockVars
<1>1. CASE StartElectionVotePhase(v)
  <2>1. PICK leader \in Candidates[round[v]] :
            Send(Vote("ElectionVote", v, leader, None, highQC[v]))
    BY <1>1 DEF StartElectionVotePhase
  <2>2. Vote("ElectionVote", v, leader, None, highQC[v]) \in Message
    <3>1. leader \in Validator /\ highQC[v] \in QCSet \cup {None}
      BY CandidatesAssumption DEF TypeOK
    <3> QED
      BY <3>1, MessageTypes DEF Votes
  <2> QED
    BY <1>1, <2>1, <2>2 DEF StartElectionVotePhase, TypeOK
<1>2. CASE StartProposePhase(v)
  <2>1. CASE UNCHANGED <<block, msgs>>
    BY <1>2, <2>1 DEF StartProposePhase, TypeOK
  <2>2. CASE \E b \in Proposed(v) : /\ block' = [block EXCEPT ![v] = b]
                                    /\ Send(Proposal("Propose", v, b, highQC[v]))
    <3>1. PICK b \in Proposed(v) : /\ block' = [block EXCEPT ![v] = b]
                                   /\ Send(Proposal("Propose", v, b, highQC[v]))
      BY <2>2
    <3>2. b \in Block /\ highQC[v] \in QCSet \cup {None}
      BY DEF Proposed, TypeOK, QCSet
    <3>3. Proposal("Propose", v, b, highQC[v]) \in Message
      BY <3>2, MessageTypes
    <3> QED
      BY <1>2, <3>1, <3>2, <3>3 DEF StartProposePhase, TypeOK
  <2> QED
    BY <1>2, <2>1, <2>2 DEF StartProposePhase
<1>3. CASE StartProposeVotePhase(v)
  <2>1. CASE RoundInterrupt(v)
    BY <2>1, RoundInterruptType
  <2>2. CASE ~RoundInterrupt(v)
    <3>1. PICK m \in GetProposal(v, "Propose") :
             /\ proposer' = [proposer EXCEPT ![v] = m.src]
             /\ block' = [block EXCEPT ![v] = m.block]
             /\ Send(Vote("ProposeVote", v, m.src, m.block, None))
             /\ MoveTo(v, IF m.src = v THEN "Precommit" ELSE "PrecommitVote")
             /\ UNCHANGED <<round, rootHeight, lockVars, restarts>>
      BY <1>3, <2>2 DEF StartProposeVotePhase
    <3>2. m.src \in Validator /\ m.block \in Block
      BY MessageFields DEF GetProposal
    <3>3. Vote("ProposeVote", v, m.src, m.block, None) \in Message
      BY <3>2, MessageTypes DEF Votes
    <3> QED
      BY <3>1, <3>2, <3>3 DEF TypeOK
  <2> QED
    BY <2>1, <2>2
<1>4. CASE StartPrecommitPhase(v)
  BY <1>4, ShowMajorityType DEF StartPrecommitPhase
<1>5. CASE StartPrecommitVotePhase(v)
  <2>1. CASE RoundInterrupt(v)
    BY <2>1, RoundInterruptType
  <2>2. CASE ~RoundInterrupt(v)
    <3>1. PICK m \in GetProposal(v, "Precommit") :
             /\ Lock(v, m)
             /\ Send(Vote("PrecommitVote", v, m.src, m.block, None))
             /\ MoveTo(v, IF m.src = v THEN "Commit" ELSE "CommitProcess")
             /\ UNCHANGED <<round, rootHeight, proposer, block, committed, restarts>>
      BY <1>5, <2>2 DEF StartPrecommitVotePhase
    <3>2. m.src \in Validator /\ m.block \in Block /\ m.view \in ViewSet
      BY MessageFields DEF GetProposal
    <3>3. Vote("PrecommitVote", v, m.src, m.block, None) \in Message
      BY <3>2, MessageTypes DEF Votes
    <3>4. QC(m.view, m.block) \in QCSet
      BY <3>2, MessageTypes
    <3> QED
      BY <3>1, <3>3, <3>4 DEF TypeOK, Lock
  <2> QED
    BY <2>1, <2>2
<1>6. CASE StartCommitPhase(v)
  BY <1>6, ShowMajorityType DEF StartCommitPhase
<1>7. CASE StartCommitProcessPhase(v)
  <2>1. CASE WithoutBlock(v)
    BY <1>7, <2>1, MessageTypes DEF WithoutBlock, StartCommitProcessPhase, TypeOK
  <2>2. CASE ~WithoutBlock(v)
    <3>1. PICK m \in GetProposal(v, "Commit") :
             /\ Send(Certificate(QC(m.view, m.block)))
             /\ MoveTo(v, "Waiting")
      BY <1>7, <2>2 DEF StartCommitProcessPhase
    <3>2. QC(m.view, m.block) \in QCSet
      BY MessageFields, MessageTypes DEF GetProposal
    <3>3. Certificate(QC(m.view, m.block)) \in Message
      BY <3>2, MessageTypes
    <3> QED
      BY <1>7, <3>1, <3>3 DEF StartCommitProcessPhase, TypeOK
  <2> QED
    BY <2>1, <2>2
<1>8. CASE Pacemaker(v)
  <2>1. PICK P \in PacemakerMessages(v) : \E k \in PacemakerRounds(P) :
            round' = [round EXCEPT ![v] = IF k > @ + 1 THEN k ELSE @ + 1]
    BY <1>8 DEF Pacemaker
  <2>2. PICK k \in PacemakerRounds(P) :
            round' = [round EXCEPT ![v] = IF k > @ + 1 THEN k ELSE @ + 1]
    BY <2>1
  <2>3. k \in 0 .. MaxRound
    BY BoundAssumption DEF PacemakerRounds
  <2> QED
    BY <1>8, <2>2, <2>3, BoundAssumption DEF Pacemaker, NewRound, LocksAfterRound, TypeOK
<1> QED
  BY <1>1, <1>2, <1>3, <1>4, <1>5, <1>6, <1>7, <1>8 DEF HandlePhase

\* Every step keeps the types.
LEMMA StepType ==
    ASSUME TypeOK, NEW v \in Validator, Step(v)
    PROVE  TypeOK'
<1> USE DEF MoveTo
<1>1. CASE AddVote(v) /\ UNCHANGED blockFailed
  <2>1. PICK m \in msgs : /\ m.type = "ElectionVote"
                          /\ highQC' = [highQC EXCEPT ![v] = m.high]
    BY <1>1 DEF AddVote
  <2>2. m.high \in QCSet \cup {None}
    BY <2>1, MessageFields DEF Votes
  <2> QED
    BY <1>1, <2>1, <2>2 DEF AddVote, TypeOK
<1>2. CASE HandlePhase(v) /\ UNCHANGED blockFailed
  BY <1>2, HandlePhaseType
<1>3. CASE NewCommittee(v) /\ UNCHANGED blockFailed
  BY <1>3, BoundAssumption DEF NewCommittee, NewRound, LocksAfterRound, TypeOK
<1>4. CASE HandlePeerBlock(v) /\ UNCHANGED blockFailed
  <2>1. PICK m \in msgs : /\ m.type = "Block"
                          /\ committed' = [committed EXCEPT ![v] = m.qc.block]
    BY <1>4 DEF HandlePeerBlock
  <2>2. m.qc.block \in Block
    BY <2>1, MessageFields DEF QCSet
  <2> QED
    BY <1>4, <2>1, <2>2 DEF HandlePeerBlock, TypeOK
<1>5. CASE Restart(v) /\ UNCHANGED blockFailed
  BY <1>5, BoundAssumption DEF Restart, TypeOK
<1>6. CASE HandlePeerBlockFails(v)
  BY <1>6 DEF HandlePeerBlockFails, lockVars, TypeOK
<1> QED
  BY <1>1, <1>2, <1>3, <1>4, <1>5, <1>6 DEF Step

-----------------------------------------------------------------------------
(* What a step does, as far as agreement depends on it. *)

\* A message that validator v sends is about its view and has the messages before it
\* that its phase demands.
IsFounded(v, m) ==
    /\ m.type \in Votes => m.src = v /\ m.view = View(v) /\ View(v)' = View(v)
    /\ m.type = "ElectionVote" => m.high = highQC[v]
    /\ m.type = "Propose" => /\ GetMajorityVote(v, "ElectionVote", None)
                             /\ m.view = View(v) /\ m.block \in Proposed(v)
    /\ m.type = "ProposeVote" =>
          /\ phase[v] = "ProposeVote" /\ phase'[v] \notin Early
          /\ \E n \in Sent("Propose") : n.view = m.view /\ n.block = m.block
    /\ m.type = "Precommit" => VotedBy("ProposeVote", m.view, m.block)
    /\ m.type = "PrecommitVote" =>
          /\ highQC'[v] = QC(m.view, m.block)
          /\ \E n \in Sent("Precommit") : n.view = m.view /\ n.block = m.block
    /\ m.type = "Commit" => VotedBy("PrecommitVote", m.view, m.block)
    /\ m.type = "Block" => \E n \in Sent("Commit") :
                              n.view = m.qc.view /\ n.block = m.qc.block

SendsAtMostOne(v) ==
    \/ msgs' = msgs
    \/ \E m : msgs' = msgs \cup {m} /\ IsFounded(v, m)

\* The lock is kept, taken over from a vote, taken in this view, or dropped.
MovesLock(v) ==
    \/ highQC'[v] = highQC[v]
    \/ \E e \in Sent("ElectionVote") :
          e.high # None /\ Higher(e.high, highQC[v]) /\ highQC'[v] = e.high
    \/ \E n \in Sent("Precommit") :
          n.view = View(v) /\ highQC'[v] = QC(n.view, n.block)
    \/ highQC'[v] = None /\ (committed'[v] # None \/ restarts'[v] # 0)

MovesOn(v) ==
    restarts'[v] = 0 =>
        /\ restarts[v] = 0
        /\ ~Less(View(v)', View(v))
        /\ View(v)' = View(v) /\ phase[v] \notin Early => phase'[v] \notin Early

MayCommit(v) ==
    committed'[v] = committed[v] \/ \E m \in Sent("Block") : committed'[v] = m.qc.block

LeavesAlone(w) ==
    /\ View(w)' = View(w) /\ phase'[w] = phase[w] /\ highQC'[w] = highQC[w]
    /\ committed'[w] = committed[w] /\ restarts'[w] = restarts[w]

Effects(v) ==
    /\ committed[v] = None
    /\ SendsAtMostOne(v) /\ MovesLock(v) /\ MovesOn(v) /\ MayCommit(v)
    /\ \A w \in Validator \ {v} : LeavesAlone(w)

\* A majority of votes that a leader counted are votes that were sent.
LEMMA MajorityIsVotedBy ==
    ASSUME NEW v, NEW type, NEW b, GetMajorityVote(v, type, b)
    PROVE  VotedBy(type, View(v), b)
BY DEF GetMajorityVote, VotesFor, VotedBy

\* A step inside a view that touches neither lock nor commit nor restarts.
LEMMA QuietEffects ==
    ASSUME TypeOK, NEW v \in Validator, committed[v] = None,
           UNCHANGED <<round, rootHeight, committed, restarts>>,
           \A w \in Validator \ {v} : phase'[w] = phase[w] /\ highQC'[w] = highQC[w],
           phase[v] \notin Early => phase'[v] \notin Early
    PROVE  /\ View(v)' = View(v)
           /\ committed[v] = None /\ MovesOn(v) /\ MayCommit(v)
           /\ \A w \in Validator \ {v} : LeavesAlone(w)
<1>1. \A w \in Validator : View(w)' = View(w)
  BY DEF View
<1>2. ~Less(View(v), View(v))
  BY ViewType, ViewsAreOrdered
<1> QED
  BY <1>1, <1>2 DEF MovesOn, MayCommit, LeavesAlone

\* Interrupting a round sends a message that nothing is founded on.
LEMMA InterruptEffects ==
    ASSUME TypeOK, NEW v \in Validator, committed[v] = None,
           MoveTo(v, "Pacemaker"), Send(ViewMsg(v)),
           UNCHANGED <<round, rootHeight, lockVars, restarts>>
    PROVE  Effects(v)
<1>1. /\ \A w \in Validator \ {v} : phase'[w] = phase[w] /\ highQC'[w] = highQC[w]
      /\ phase'[v] = "Pacemaker"
  BY DEF MoveTo, lockVars, TypeOK
<1>2. IsFounded(v, ViewMsg(v))
  BY DEF IsFounded, ViewMsg, Votes
<1>3. SendsAtMostOne(v) /\ MovesLock(v)
  BY <1>2 DEF SendsAtMostOne, MovesLock, Send, lockVars
<1> QED
  BY <1>1, <1>3, QuietEffects DEF Effects, Early, lockVars

\* A leader that shows a majority sends what the majority voted for.
LEMMA ShowMajorityEffects ==
    ASSUME TypeOK, NEW v \in Validator, committed[v] = None, phase[v] \notin Early,
           NEW type, NEW votes, NEW next \in {"PrecommitVote", "CommitProcess"},
           \/ type = "Precommit" /\ votes = "ProposeVote"
           \/ type = "Commit" /\ votes = "PrecommitVote",
           ShowMajority(v, type, votes, next)
    PROVE  Effects(v)
<1>1. CASE /\ GetMajorityVote(v, votes, block[v])
           /\ Send(Proposal(type, v, block[v], None))
           /\ MoveTo(v, next)
           /\ UNCHANGED <<round, rootHeight, proposer, block, lockVars, restarts>>
  <2>1. /\ \A w \in Validator \ {v} : phase'[w] = phase[w] /\ highQC'[w] = highQC[w]
        /\ phase'[v] = next
    BY <1>1 DEF MoveTo, lockVars, TypeOK
  <2>2. PICK b : b = block[v]
    OBVIOUS
  <2>3. VotedBy(votes, View(v), b)
    BY <1>1, <2>2, MajorityIsVotedBy
  <2>4. IsFounded(v, Proposal(type, v, b, None))
    BY <2>3 DEF IsFounded, Proposal, Votes
  <2>5. SendsAtMostOne(v) /\ MovesLock(v)
    BY <1>1, <2>2, <2>4 DEF SendsAtMostOne, MovesLock, Send, lockVars
  <2> QED
    BY <1>1, <2>1, <2>5, QuietEffects DEF Effects, Early, lockVars
<1>2. CASE /\ MoveTo(v, next)
           /\ UNCHANGED <<round, rootHeight, proposer, block, lockVars, msgs, restarts>>
  <2>1. /\ \A w \in Validator \ {v} : phase'[w] = phase[w] /\ highQC'[w] = highQC[w]
        /\ phase'[v] = next
    BY <1>2 DEF MoveTo, lockVars, TypeOK
  <2>2. SendsAtMostOne(v) /\ MovesLock(v)
    BY <1>2 DEF SendsAtMostOne, MovesLock, lockVars
  <2> QED
    BY <1>2, <2>1, <2>2, QuietEffects DEF Effects, Early, lockVars
<1>3. CASE RoundInterrupt(v)
  BY <1>3, InterruptEffects DEF RoundInterrupt
<1> QED
  BY <1>1, <1>2, <1>3 DEF ShowMajority

\* The phases up to the vote for a proposal.
LEMMA ProposalEffects ==
    ASSUME TypeOK, NEW v \in Validator, committed[v] = None,
           \/ StartElectionVotePhase(v) \/ StartProposePhase(v) \/ StartProposeVotePhase(v)
    PROVE  Effects(v)
<1>1. CASE StartElectionVotePhase(v)
  <2>1. PICK leader : Send(Vote("ElectionVote", v, leader, None, highQC[v]))
    BY <1>1 DEF StartElectionVotePhase
  <2>2. /\ \A w \in Validator \ {v} : phase'[w] = phase[w] /\ highQC'[w] = highQC[w]
        /\ phase[v] = "Election"
        /\ UNCHANGED <<round, rootHeight, committed, highQC, restarts>>
    BY <1>1 DEF StartElectionVotePhase, MoveTo, lockVars, TypeOK
  <2>3. /\ View(v)' = View(v) /\ MovesOn(v) /\ MayCommit(v)
        /\ \A w \in Validator \ {v} : LeavesAlone(w)
    BY <2>2, QuietEffects DEF Early
  <2>4. IsFounded(v, Vote("ElectionVote", v, leader, None, highQC[v]))
    BY <2>3 DEF IsFounded, Vote
  <2>5. SendsAtMostOne(v) /\ MovesLock(v)
    BY <2>1, <2>2, <2>4 DEF SendsAtMostOne, MovesLock, Send
  <2> QED
    BY <2>3, <2>5 DEF Effects
<1>2. CASE StartProposePhase(v)
  <2>1. /\ \A w \in Validator \ {v} : phase'[w] = phase[w] /\ highQC'[w] = highQC[w]
        /\ phase[v] = "Propose"
        /\ UNCHANGED <<round, rootHeight, committed, highQC, restarts>>
    BY <1>2 DEF StartProposePhase, MoveTo, lockVars, TypeOK
  <2>2. SendsAtMostOne(v)
    <3>1. CASE UNCHANGED <<block, msgs>>
      BY <3>1 DEF SendsAtMostOne
    <3>2. CASE ~UNCHANGED <<block, msgs>>
      <4>1. GetMajorityVote(v, "ElectionVote", None)
        BY <1>2, <3>2 DEF StartProposePhase
      <4>2. PICK b \in Proposed(v) : Send(Proposal("Propose", v, b, highQC[v]))
        BY <1>2, <3>2 DEF StartProposePhase
      <4>3. IsFounded(v, Proposal("Propose", v, b, highQC[v]))
        BY <4>1 DEF IsFounded, Proposal, Votes
      <4> QED
        BY <4>2, <4>3 DEF SendsAtMostOne, Send
    <3> QED
      BY <3>1, <3>2
  <2> QED
    BY <2>1, <2>2, QuietEffects DEF Effects, MovesLock, Early
<1>3. CASE StartProposeVotePhase(v)
  <2>1. CASE RoundInterrupt(v)
    BY <2>1, InterruptEffects DEF RoundInterrupt
  <2>2. CASE ~RoundInterrupt(v)
    <3>1. PICK m \in GetProposal(v, "Propose") :
             /\ Send(Vote("ProposeVote", v, m.src, m.block, None))
             /\ MoveTo(v, IF m.src = v THEN "Precommit" ELSE "PrecommitVote")
             /\ UNCHANGED <<round, rootHeight, lockVars, restarts>>
      BY <1>3, <2>2 DEF StartProposeVotePhase
    <3>2. /\ \A w \in Validator \ {v} : phase'[w] = phase[w] /\ highQC'[w] = highQC[w]
          /\ phase[v] = "ProposeVote" /\ phase'[v] \in {"Precommit", "PrecommitVote"}
          /\ UNCHANGED <<round, rootHeight, committed, highQC, restarts>>
      BY <1>3, <3>1 DEF StartProposeVotePhase, MoveTo, lockVars, TypeOK
    <3>3. /\ View(v)' = View(v) /\ MovesOn(v) /\ MayCommit(v)
          /\ \A w \in Validator \ {v} : LeavesAlone(w)
      BY <3>2, QuietEffects DEF Early
    <3>4. m \in Sent("Propose") /\ m.view = View(v)
      BY DEF GetProposal, Sent
    <3>5. IsFounded(v, Vote("ProposeVote", v, m.src, m.block, None))
      BY <3>2, <3>3, <3>4 DEF IsFounded, Vote, Early
    <3>6. SendsAtMostOne(v) /\ MovesLock(v)
      BY <3>1, <3>2, <3>5 DEF SendsAtMostOne, MovesLock, Send
    <3> QED
      BY <3>3, <3>6 DEF Effects
  <2> QED
    BY <2>1, <2>2
<1> QED
  BY <1>1, <1>2, <1>3

\* The phases that lock and commit, and the Pacemaker.
LEMMA CommitEffects ==
    ASSUME TypeOK, NEW v \in Validator, committed[v] = None,
           \/ StartPrecommitPhase(v) \/ StartPrecommitVotePhase(v)
           \/ StartCommitPhase(v) \/ StartCommitProcessPhase(v)
    PROVE  Effects(v)
<1>1. CASE StartPrecommitPhase(v)
  BY <1>1, ShowMajorityEffects DEF StartPrecommitPhase, Early
<1>2. CASE StartPrecommitVotePhase(v)
  <2>1. CASE RoundInterrupt(v)
    BY <2>1, InterruptEffects DEF RoundInterrupt
  <2>2. CASE ~RoundInterrupt(v)
    <3>1. PICK m \in GetProposal(v, "Precommit") :
             /\ Lock(v, m)
             /\ Send(Vote("PrecommitVote", v, m.src, m.block, None))
             /\ MoveTo(v, IF m.src = v THEN "Commit" ELSE "CommitProcess")
             /\ UNCHANGED <<round, rootHeight, committed, restarts>>
      BY <1>2, <2>2 DEF StartPrecommitVotePhase
    <3>2. /\ \A w \in Validator \ {v} : phase'[w] = phase[w] /\ highQC'[w] = highQC[w]
          /\ phase'[v] \in {"Commit", "CommitProcess"}
          /\ highQC'[v] = QC(m.view, m.block)
      BY <3>1 DEF Lock, MoveTo, TypeOK
    <3>3. /\ View(v)' = View(v) /\ MovesOn(v) /\ MayCommit(v)
          /\ \A w \in Validator \ {v} : LeavesAlone(w)
      BY <3>1, <3>2, QuietEffects DEF Early
    <3>4. m \in Sent("Precommit") /\ m.view = View(v)
      BY DEF GetProposal, Sent
    <3>5. IsFounded(v, Vote("PrecommitVote", v, m.src, m.block, None))
      BY <3>2, <3>3, <3>4 DEF IsFounded, Vote
    <3>6. SendsAtMostOne(v) /\ MovesLock(v)
      BY <3>1, <3>2, <3>4, <3>5 DEF SendsAtMostOne, MovesLock, Send
    <3> QED
      BY <3>3, <3>6 DEF Effects
  <2> QED
    BY <2>1, <2>2
<1>3. CASE StartCommitPhase(v)
  BY <1>3, ShowMajorityEffects DEF StartCommitPhase, Early
<1>4. CASE StartCommitProcessPhase(v)
  <2>1. CASE WithoutBlock(v)
    BY <1>4, <2>1, InterruptEffects DEF StartCommitProcessPhase, WithoutBlock
  <2>2. CASE ~WithoutBlock(v)
    <3>1. PICK m \in GetProposal(v, "Commit") :
             /\ Send(Certificate(QC(m.view, m.block)))
             /\ MoveTo(v, "Waiting")
      BY <1>4, <2>2 DEF StartCommitProcessPhase
    <3>2. /\ \A w \in Validator \ {v} : phase'[w] = phase[w] /\ highQC'[w] = highQC[w]
          /\ phase'[v] = "Waiting"
          /\ UNCHANGED <<round, rootHeight, committed, highQC, restarts>>
      BY <1>4, <3>1 DEF StartCommitProcessPhase, MoveTo, lockVars, TypeOK
    <3>3. m \in Sent("Commit")
      BY DEF GetProposal, Sent
    <3>4. IsFounded(v, Certificate(QC(m.view, m.block)))
      BY <3>3 DEF IsFounded, Certificate, QC, Votes
    <3>5. SendsAtMostOne(v) /\ MovesLock(v)
      BY <3>1, <3>2, <3>4 DEF SendsAtMostOne, MovesLock, Send
    <3> QED
      BY <3>2, <3>5, QuietEffects DEF Effects, Early
  <2> QED
    BY <2>1, <2>2
<1> QED
  BY <1>1, <1>2, <1>3, <1>4

\* A validator that starts a new round or a new root height moves to a later view.
LEMMA RoundEffects ==
    ASSUME TypeOK, NEW v \in Validator, committed[v] = None,
           Pacemaker(v) \/ NewCommittee(v), UNCHANGED blockFailed
    PROVE  Effects(v)
<1>1. UNCHANGED <<highQC, committed, msgs, restarts>>
  BY DEF Pacemaker, NewCommittee, NewRound, LocksAfterRound
<1>2. \A w \in Validator \ {v} : View(w)' = View(w) /\ phase'[w] = phase[w]
  BY DEF Pacemaker, NewCommittee, MoveTo, View, TypeOK
<1>3. Less(View(v), View(v)')
  <2>1. CASE Pacemaker(v)
    <3>1. PICK P \in PacemakerMessages(v) : \E k \in PacemakerRounds(P) :
              round' = [round EXCEPT ![v] = IF k > @ + 1 THEN k ELSE @ + 1]
      BY <2>1 DEF Pacemaker
    <3>2. PICK k \in PacemakerRounds(P) :
              round' = [round EXCEPT ![v] = IF k > @ + 1 THEN k ELSE @ + 1]
      BY <3>1
    <3>3. k \in 0 .. MaxRound
      BY BoundAssumption DEF PacemakerRounds
    <3>4. round'[v] > round[v] /\ rootHeight'[v] = rootHeight[v]
      BY <2>1, <3>2, <3>3, BoundAssumption DEF Pacemaker, TypeOK
    <3> QED
      BY <3>4 DEF Less, View, TypeOK
  <2>2. CASE NewCommittee(v)
    <3>1. rootHeight'[v] = rootHeight[v] + 1 /\ rootHeight[v] \in Nat
      BY <2>2, BoundAssumption DEF NewCommittee, TypeOK
    <3> QED
      BY <3>1 DEF Less, View
  <2> QED
    BY <2>1, <2>2
<1>4. View(v) \in ViewSet /\ View(v)' \in ViewSet
  <2>1. TypeOK'
    BY StepType DEF Step, HandlePhase
  <2> QED
    BY <2>1, ViewType DEF View, TypeOK, ViewSet
<1>5. ~Less(View(v)', View(v)) /\ View(v)' # View(v)
  BY <1>3, <1>4, ViewsAreOrdered
<1> QED
  BY <1>1, <1>2, <1>5
     DEF Effects, SendsAtMostOne, MovesLock, MovesOn, MayCommit, LeavesAlone

\* Every step has these effects.
LEMMA StepEffects ==
    ASSUME TypeOK, NEW v \in Validator, Step(v)
    PROVE  Effects(v)
<1>0. committed[v] = None
  BY DEF Step
<1>1. CASE AddVote(v)
  <2>1. PICK m \in msgs : /\ m.type = "ElectionVote" /\ ~Handled(v, m)
                          /\ highQC' = [highQC EXCEPT ![v] = m.high]
    BY <1>1 DEF AddVote
  <2>2. /\ \A w \in Validator \ {v} : phase'[w] = phase[w] /\ highQC'[w] = highQC[w]
        /\ highQC'[v] = m.high /\ phase'[v] = phase[v]
    BY <1>1, <2>1 DEF AddVote, TypeOK
  <2>3. MovesLock(v)
    BY <2>1, <2>2 DEF MovesLock, Handled, Sent
  <2>4. SendsAtMostOne(v)
    BY <1>1 DEF AddVote, SendsAtMostOne
  <2> QED
    BY <1>0, <1>1, <2>2, <2>3, <2>4, QuietEffects DEF Effects, AddVote
<1>2. CASE HandlePhase(v) /\ UNCHANGED blockFailed
  BY <1>0, <1>2, ProposalEffects, CommitEffects, RoundEffects DEF HandlePhase
<1>3. CASE NewCommittee(v) /\ UNCHANGED blockFailed
  BY <1>0, <1>3, RoundEffects
<1>4. CASE HandlePeerBlock(v)
  <2>1. PICK m \in msgs : /\ m.type = "Block"
                          /\ committed' = [committed EXCEPT ![v] = m.qc.block]
    BY <1>4 DEF HandlePeerBlock
  <2>2. m.qc.block # None
    BY <2>1, MessageFields, NoneAssumption DEF QCSet
  <2>3. /\ committed'[v] = m.qc.block /\ highQC'[v] = None
        /\ phase'[v] = "NextHeight"
        /\ UNCHANGED <<round, rootHeight, restarts, msgs>>
        /\ \A w \in Validator \ {v} : /\ phase'[w] = phase[w] /\ highQC'[w] = highQC[w]
                                      /\ committed'[w] = committed[w]
    BY <1>4, <2>1 DEF HandlePeerBlock, MoveTo, TypeOK
  <2>4. \A w \in Validator : View(w)' = View(w)
    BY <2>3 DEF View
  <2>5. ~Less(View(v), View(v))
    BY ViewType, ViewsAreOrdered
  <2> QED
    BY <1>0, <2>1, <2>2, <2>3, <2>4, <2>5
       DEF Effects, SendsAtMostOne, MovesLock, MovesOn, MayCommit, LeavesAlone, Sent, Early
<1>5. CASE Restart(v)
  <2>1. /\ restarts'[v] # 0 /\ highQC'[v] = None /\ UNCHANGED <<committed, msgs>>
        /\ \A w \in Validator \ {v} : /\ phase'[w] = phase[w] /\ highQC'[w] = highQC[w]
                                      /\ restarts'[w] = restarts[w] /\ View(w)' = View(w)
    BY <1>5 DEF Restart, MoveTo, View, TypeOK
  <2> QED
    BY <1>0, <2>1
       DEF Effects, SendsAtMostOne, MovesLock, MovesOn, MayCommit, LeavesAlone
<1>6. CASE HandlePeerBlockFails(v)
  <2>1. UNCHANGED <<phase, round, rootHeight, highQC, committed, msgs, restarts>>
    BY <1>6 DEF HandlePeerBlockFails, lockVars
  <2>2. \A w \in Validator : View(w)' = View(w)
    BY <2>1 DEF View
  <2>3. ~Less(View(v), View(v))
    BY ViewType, ViewsAreOrdered
  <2> QED
    BY <1>0, <2>1, <2>2, <2>3
       DEF Effects, SendsAtMostOne, MovesLock, MovesOn, MayCommit, LeavesAlone
<1> QED
  BY <1>1, <1>2, <1>3, <1>4, <1>5, <1>6 DEF Step

-----------------------------------------------------------------------------
(* What follows from the effects. *)

\* Messages are never taken back, and at most one is new.
LEMMA NewMessages ==
    ASSUME NEW v, SendsAtMostOne(v)
    PROVE  /\ msgs \subseteq msgs'
           /\ \A m \in msgs' : m \in msgs \/ IsFounded(v, m)
           /\ \A m, n \in msgs' : m \in msgs \/ n \in msgs \/ m = n
<1>1. CASE msgs' = msgs
  BY <1>1
<1>2. CASE \E m : msgs' = msgs \cup {m} /\ IsFounded(v, m)
  <2>1. PICK k : msgs' = msgs \cup {k} /\ IsFounded(v, k)
    BY <1>2
  <2>2. \A m \in msgs' : m \in msgs \/ m = k
    BY <2>1
  <2> QED
    BY <2>1, <2>2
<1> QED
  BY <1>1, <1>2 DEF SendsAtMostOne

\* What +2/3 have voted for stays voted for.
LEMMA VotedByStays ==
    ASSUME msgs \subseteq msgs', NEW type, NEW x, NEW b, VotedBy(type, x, b)
    PROVE  VotedBy(type, x, b)'
BY DEF VotedBy

\* Sent messages stay sent.
LEMMA SentStays ==
    ASSUME msgs \subseteq msgs', NEW type
    PROVE  Sent(type) \subseteq Sent(type)'
BY DEF Sent

\* Messages and commits keep their foundation.
LEMMA FoundedStays ==
    ASSUME TypeOK, MessagesAreFounded, NEW v \in Validator, Effects(v)
    PROVE  MessagesAreFounded'
<1>1. /\ msgs \subseteq msgs'
      /\ \A m \in msgs' : m \in msgs \/ IsFounded(v, m)
  BY NewMessages DEF Effects
<1>2. \A type : Sent(type) \subseteq Sent(type)'
  BY <1>1, SentStays
<1>3. ASSUME NEW m \in Sent("ProposeVote")'
      PROVE  \E n \in Sent("Propose")' : n.view = m.view /\ n.block = m.block
  <2>1. \E n \in Sent("Propose") : n.view = m.view /\ n.block = m.block
    BY <1>1, <1>3 DEF Sent, IsFounded, MessagesAreFounded
  <2> QED
    BY <1>2, <2>1
<1>4. ASSUME NEW m \in Sent("Precommit")'
      PROVE  VotedBy("ProposeVote", m.view, m.block)'
  <2>1. VotedBy("ProposeVote", m.view, m.block)
    BY <1>1, <1>4 DEF Sent, IsFounded, MessagesAreFounded
  <2>2. PICK x, b : x = m.view /\ b = m.block
    OBVIOUS
  <2>3. VotedBy("ProposeVote", x, b)'
    BY <1>1, <2>1, <2>2, VotedByStays
  <2> QED
    BY <2>2, <2>3
<1>5. ASSUME NEW m \in Sent("PrecommitVote")'
      PROVE  \E n \in Sent("Precommit")' : n.view = m.view /\ n.block = m.block
  <2>1. \E n \in Sent("Precommit") : n.view = m.view /\ n.block = m.block
    BY <1>1, <1>5 DEF Sent, IsFounded, MessagesAreFounded
  <2> QED
    BY <1>2, <2>1
<1>6. ASSUME NEW m \in Sent("Commit")'
      PROVE  VotedBy("PrecommitVote", m.view, m.block)'
  <2>1. VotedBy("PrecommitVote", m.view, m.block)
    BY <1>1, <1>6 DEF Sent, IsFounded, MessagesAreFounded
  <2>2. PICK x, b : x = m.view /\ b = m.block
    OBVIOUS
  <2>3. VotedBy("PrecommitVote", x, b)'
    BY <1>1, <2>1, <2>2, VotedByStays
  <2> QED
    BY <2>2, <2>3
<1>7. ASSUME NEW m \in Sent("Block")'
      PROVE  \E n \in Sent("Commit")' : n.view = m.qc.view /\ n.block = m.qc.block
  <2>1. \E n \in Sent("Commit") : n.view = m.qc.view /\ n.block = m.qc.block
    BY <1>1, <1>7 DEF Sent, IsFounded, MessagesAreFounded
  <2> QED
    BY <1>2, <2>1
<1>8. ASSUME NEW w \in Validator, committed'[w] # None
      PROVE  \E m \in Sent("Block")' : m.qc.block = committed'[w]
  <2>1. \E m \in Sent("Block") : m.qc.block = committed'[w]
    BY <1>8 DEF Effects, MayCommit, LeavesAlone, MessagesAreFounded
  <2> QED
    BY <1>2, <2>1
<1> QED
  BY <1>3, <1>4, <1>5, <1>6, <1>7, <1>8 DEF MessagesAreFounded

\* Locks stay certified: a lock comes from a precommit message or from a vote.
LEMMA LocksStayCertified ==
    ASSUME TypeOK, MessagesAreFounded, LocksAreCertified, CarriedLocksAreCertified,
           NEW v \in Validator, Effects(v)
    PROVE  LocksAreCertified' /\ CarriedLocksAreCertified'
<1>1. /\ msgs \subseteq msgs'
      /\ \A m \in msgs' : m \in msgs \/ IsFounded(v, m)
  BY NewMessages DEF Effects
<1>2. ASSUME NEW qc, Certified(qc)
      PROVE  Certified(qc)'
  BY <1>1, <1>2 DEF Certified
<1>3. ASSUME NEW w \in Validator, highQC'[w] # None
      PROVE  Certified(highQC'[w])
  <2>1. CASE highQC'[w] = highQC[w]
    BY <1>3, <2>1 DEF LocksAreCertified
  <2>2. CASE \E e \in Sent("ElectionVote") : e.high # None /\ highQC'[w] = e.high
    BY <2>2 DEF CarriedLocksAreCertified
  <2>3. CASE \E n \in Sent("Precommit") : highQC'[w] = QC(n.view, n.block)
    <3>1. PICK n \in Sent("Precommit") : highQC'[w] = QC(n.view, n.block)
      BY <2>3
    <3>2. VotedBy("ProposeVote", n.view, n.block)
      BY DEF MessagesAreFounded
    <3>3. PICK qc : qc = highQC'[w]
      OBVIOUS
    <3>4. qc.view = n.view /\ qc.block = n.block
      BY <3>1, <3>3 DEF QC
    <3>5. Certified(qc)
      BY <3>2, <3>4, CertifiedIsVotedBy
    <3> QED
      BY <3>3, <3>5
  <2> QED
    BY <1>3, <2>1, <2>2, <2>3 DEF Effects, MovesLock, LeavesAlone
<1>4. LocksAreCertified'
  <2> SUFFICES ASSUME NEW w \in Validator, highQC'[w] # None
               PROVE  Certified(highQC[w])'
    BY DEF LocksAreCertified
  <2>1. PICK qc : qc = highQC'[w]
    OBVIOUS
  <2>2. Certified(qc)'
    BY <1>2, <1>3, <2>1
  <2> QED
    BY <2>1, <2>2
<1>5. CarriedLocksAreCertified'
  <2> SUFFICES ASSUME NEW m \in Sent("ElectionVote")', m.high # None
               PROVE  Certified(m.high)'
    BY DEF CarriedLocksAreCertified
  <2>1. Certified(m.high)
    <3>1. CASE m \in msgs
      BY <3>1 DEF CarriedLocksAreCertified, Sent
    <3>2. CASE IsFounded(v, m)
      BY <3>2 DEF IsFounded, LocksAreCertified, Sent
    <3> QED
      BY <1>1, <3>1, <3>2 DEF Sent
  <2>2. PICK qc : qc = m.high
    OBVIOUS
  <2>3. Certified(qc)'
    BY <1>2, <2>1, <2>2
  <2> QED
    BY <2>2, <2>3
<1> QED
  BY <1>4, <1>5

\* A validator that has not restarted never moves to an earlier view.
LEMMA ViewsAdvance ==
    ASSUME TypeOK, TypeOK', NEW v \in Validator, Effects(v),
           NEW w \in Validator, restarts'[w] = 0
    PROVE  /\ restarts[w] = 0
           /\ View(w) \in ViewSet /\ View(w)' \in ViewSet
           /\ ~Less(View(w)', View(w))
<1>1. View(w) \in ViewSet /\ View(w)' \in ViewSet
  BY DEF View, TypeOK, ViewSet
<1>2. ~Less(View(w), View(w))
  BY <1>1, ViewsAreOrdered
<1>3. CASE w = v
  BY <1>1, <1>3 DEF Effects, MovesOn
<1>4. CASE w # v
  BY <1>1, <1>2, <1>4 DEF Effects, LeavesAlone
<1> QED
  BY <1>3, <1>4

\* No validator that has not restarted has voted in a later view than its own.
LEMMA VotesStayOfThePast ==
    ASSUME TypeOK, TypeOK', VotesAreOfThePast, NEW v \in Validator, Effects(v)
    PROVE  VotesAreOfThePast'
<1> SUFFICES ASSUME NEW m \in msgs', m.type \in Votes, restarts'[m.src] = 0
             PROVE  ~Less(View(m.src)', m.view)
  BY DEF VotesAreOfThePast
<1>1. m \in msgs \/ IsFounded(v, m)
  BY NewMessages DEF Effects
<1>2. m.src \in Validator /\ m.view \in ViewSet
  <2>1. m \in Message
    BY DEF TypeOK
  <2> QED
    BY <2>1 DEF Message, Votes
<1>3. PICK w \in Validator : w = m.src
  BY <1>2
<1>4. /\ restarts[w] = 0 /\ View(w) \in ViewSet /\ View(w)' \in ViewSet
      /\ ~Less(View(w)', View(w))
  BY <1>3, ViewsAdvance
<1>5. ~Less(View(w), m.view)
  <2>1. CASE m \in msgs
    BY <1>3, <1>4, <2>1 DEF VotesAreOfThePast
  <2>2. CASE IsFounded(v, m)
    BY <1>2, <1>3, <1>4, <2>2, ViewsAreOrdered DEF IsFounded
  <2> QED
    BY <1>1, <2>1, <2>2
<1>6. ~Less(View(w)', m.view)
  BY <1>2, <1>4, <1>5, ViewsAreOrdered
<1> QED
  BY <1>3, <1>6

\* A validator votes for a proposal once in a view: it leaves the phase with its vote,
\* and it comes back to that phase in a later view only.
LEMMA VotesStaySingle ==
    ASSUME TypeOK, TypeOK', VotesAreOfThePast, VotesFollowThePhases, OneVotePerView,
           NEW v \in Validator, Effects(v)
    PROVE  VotesFollowThePhases' /\ OneVotePerView'
<1>1. /\ \A m \in msgs' : m \in msgs \/ IsFounded(v, m)
      /\ \A m, n \in msgs' : m \in msgs \/ n \in msgs \/ m = n
  BY NewMessages DEF Effects
<1>2. \A m \in Sent("ProposeVote")' : m.src \in Validator /\ m.view \in ViewSet
  <2>1. msgs' \subseteq Message
    BY DEF TypeOK
  <2> QED
    BY <2>1 DEF Message, Sent
<1>3. ASSUME NEW m \in Sent("ProposeVote")', restarts'[m.src] = 0, m.view = View(m.src)'
      PROVE  phase'[m.src] \notin Early
  <2>1. PICK w \in Validator : w = m.src
    BY <1>2
  <2>2. /\ restarts[w] = 0 /\ View(w) \in ViewSet /\ View(w)' \in ViewSet
        /\ ~Less(View(w)', View(w))
    BY <1>3, <2>1, ViewsAdvance
  <2>3. CASE m \in msgs
    <3>1. ~Less(View(w), m.view)
      BY <2>1, <2>2, <2>3 DEF VotesAreOfThePast, Sent, Votes
    <3>2. View(w)' = m.view
      BY <1>3, <2>1
    <3>3. View(w) = m.view
      BY <2>2, <3>1, <3>2, ViewsAreOrdered
    <3>4. phase[w] \notin Early
      BY <2>1, <2>2, <2>3, <3>3 DEF VotesFollowThePhases, Sent
    <3>5. CASE w = v
      BY <1>3, <2>1, <3>2, <3>3, <3>4, <3>5 DEF Effects, MovesOn
    <3>6. CASE w # v
      BY <2>1, <3>4, <3>6 DEF Effects, LeavesAlone
    <3> QED
      BY <3>5, <3>6
  <2>4. CASE IsFounded(v, m)
    BY <2>4 DEF IsFounded, Sent, Votes
  <2> QED
    BY <1>1, <2>3, <2>4 DEF Sent
<1>4. ASSUME NEW m \in Sent("ProposeVote")', NEW n \in Sent("ProposeVote")',
             m.src = n.src, m.view = n.view, restarts'[m.src] = 0, m \in msgs, n \notin msgs
      PROVE  FALSE
  <2>1. IsFounded(v, n)
    BY <1>1, <1>4 DEF Sent
  <2>2. n.src = v /\ n.view = View(v) /\ phase[v] = "ProposeVote"
    BY <2>1 DEF IsFounded, Sent, Votes
  <2>3. restarts[v] = 0
    BY <1>4, <2>2, ViewsAdvance
  <2>4. phase[v] \notin Early
    BY <1>4, <2>2, <2>3 DEF VotesFollowThePhases, Sent
  <2> QED
    BY <2>2, <2>4 DEF Early
<1>5. ASSUME NEW m \in Sent("ProposeVote")', NEW n \in Sent("ProposeVote")',
             m.src = n.src, m.view = n.view, restarts'[m.src] = 0
      PROVE  m.block = n.block
  <2>1. CASE m \in msgs /\ n \in msgs
    <3>1. restarts[m.src] = 0
      BY <1>2, <1>5, ViewsAdvance
    <3> QED
      BY <1>5, <2>1, <3>1 DEF OneVotePerView, Sent
  <2>2. CASE m \notin msgs /\ n \notin msgs
    BY <1>1, <2>2 DEF Sent
  <2> QED
    BY <1>4, <1>5, <2>1, <2>2
<1> QED
  BY <1>3, <1>5 DEF VotesFollowThePhases, OneVotePerView

\* A voter keeps a lock of its vote's view or a higher one: what replaces its lock is
\* higher, or is of its own view, and it has voted in no later one.
LEMMA VotersStayLocked ==
    ASSUME TypeOK, TypeOK', VotesAreOfThePast, SteadyVotersStayLocked,
           NEW v \in Validator, Effects(v)
    PROVE  SteadyVotersStayLocked'
<1> SUFFICES ASSUME NEW m \in msgs', m.type = "PrecommitVote",
                    committed'[m.src] = None, restarts'[m.src] = 0
             PROVE  highQC'[m.src] # None /\ ~Less(highQC'[m.src].view, m.view)
  BY DEF SteadyVotersStayLocked
<1>1. m \in msgs \/ IsFounded(v, m)
  BY NewMessages DEF Effects
<1>2. m.src \in Validator /\ m.view \in ViewSet
  <2>1. m \in Message
    BY DEF TypeOK
  <2> QED
    BY <2>1 DEF Message
<1>3. restarts[m.src] = 0
  BY <1>2, ViewsAdvance
<1>4. PICK w \in Validator : w = m.src
  BY <1>2
<1>5. CASE m \in msgs /\ w # v
  BY <1>3, <1>4, <1>5 DEF SteadyVotersStayLocked, Effects, LeavesAlone
<1>6. CASE m \in msgs /\ w = v
  <2>1. committed[v] = None
    BY DEF Effects
  <2>2. highQC[v] # None /\ ~Less(highQC[v].view, m.view)
    BY <1>3, <1>4, <1>6, <2>1 DEF SteadyVotersStayLocked
  <2>3. CASE highQC'[v] = highQC[v]
    BY <1>4, <1>6, <2>2, <2>3
  <2>4. CASE \E e \in Sent("ElectionVote") :
               e.high # None /\ Higher(e.high, highQC[v]) /\ highQC'[v] = e.high
    <3>1. PICK e \in Sent("ElectionVote") :
               e.high # None /\ Higher(e.high, highQC[v]) /\ highQC'[v] = e.high
      BY <2>4
    <3>2. e.high \in QCSet /\ highQC[v] \in QCSet
      BY <2>2, <3>1, MessageFields DEF Sent, Votes, TypeOK
    <3>3. Less(highQC[v].view, e.high.view)
      BY <2>2, <3>1 DEF Higher
    <3>4. highQC[v].view \in ViewSet /\ e.high.view \in ViewSet
      BY <3>2 DEF QCSet
    <3>5. Less(m.view, e.high.view)
      BY <1>2, <2>2, <3>3, <3>4, ViewsAreOrdered
    <3>6. ~Less(e.high.view, m.view)
      BY <1>2, <3>4, <3>5, ViewsAreOrdered
    <3> QED
      BY <1>4, <1>6, <3>1, <3>6
  <2>5. CASE \E n \in Sent("Precommit") :
               n.view = View(v) /\ highQC'[v] = QC(n.view, n.block)
    <3>1. PICK n \in Sent("Precommit") :
               n.view = View(v) /\ highQC'[v] = QC(n.view, n.block)
      BY <2>5
    <3>2. QC(n.view, n.block) \in QCSet /\ QC(n.view, n.block).view = View(v)
      BY <3>1, MessageFields, MessageTypes DEF Sent, QC
    <3>3. ~Less(View(v), m.view)
      BY <1>3, <1>4, <1>6 DEF VotesAreOfThePast, Votes
    <3> QED
      BY <1>4, <1>6, <3>1, <3>2, <3>3, NoneAssumption
  <2> QED
    BY <1>4, <1>6, <2>3, <2>4, <2>5 DEF Effects, MovesLock
<1>7. CASE IsFounded(v, m)
  <2>1. w = v /\ highQC'[v] = QC(m.view, m.block)
    BY <1>4, <1>7 DEF IsFounded, Votes
  <2>2. PICK n \in Sent("Precommit") : n.view = m.view /\ n.block = m.block
    BY <1>7 DEF IsFounded
  <2>3. QC(m.view, m.block) \in QCSet
    BY <2>2, MessageFields, MessageTypes DEF Sent
  <2>4. ~Less(m.view, m.view)
    BY <1>2, ViewsAreOrdered
  <2> QED
    BY <1>4, <2>1, <2>3, <2>4, NoneAssumption DEF QC
<1> QED
  BY <1>1, <1>5, <1>6, <1>7

\* An election vote reports the lock that the precommit votes before it left.
LEMMA LocksStayReported ==
    ASSUME TypeOK, TypeOK', VotesAreOfThePast, SteadyVotersStayLocked, LocksAreReported,
           NEW v \in Validator, Effects(v)
    PROVE  LocksAreReported'
<1> SUFFICES ASSUME NEW e \in Sent("ElectionVote")', NEW n \in Sent("PrecommitVote")',
                    e.src = n.src, restarts'[e.src] = 0, Less(n.view, e.view)
             PROVE  e.high # None /\ ~Less(e.high.view, n.view)
  BY DEF LocksAreReported
<1>1. /\ \A m \in msgs' : m \in msgs \/ IsFounded(v, m)
      /\ \A m, k \in msgs' : m \in msgs \/ k \in msgs \/ m = k
  BY NewMessages DEF Effects
<1>2. e.src \in Validator /\ e.view \in ViewSet /\ n.view \in ViewSet
  <2>1. e \in Message /\ n \in Message
    BY DEF TypeOK, Sent
  <2> QED
    BY <2>1 DEF Message, Sent
<1>3. restarts[e.src] = 0
  BY <1>2, ViewsAdvance
<1>4. CASE e \in msgs /\ n \in msgs
  BY <1>3, <1>4 DEF LocksAreReported, Sent
<1>5. CASE e \in msgs /\ n \notin msgs
  <2>1. n.src = v /\ n.view = View(v)
    BY <1>1, <1>5 DEF IsFounded, Sent, Votes
  <2>2. ~Less(View(v), e.view)
    BY <1>3, <1>5, <2>1 DEF VotesAreOfThePast, Sent, Votes
  <2> QED
    BY <2>1, <2>2
<1>6. CASE e \notin msgs /\ n \in msgs
  <2>1. e.src = v /\ e.high = highQC[v]
    BY <1>1, <1>6 DEF IsFounded, Sent, Votes
  <2>2. committed[v] = None
    BY DEF Effects
  <2> QED
    BY <1>3, <1>6, <2>1, <2>2 DEF SteadyVotersStayLocked, Sent
<1>7. CASE e \notin msgs /\ n \notin msgs
  BY <1>1, <1>7 DEF Sent
<1> QED
  BY <1>4, <1>5, <1>6, <1>7

-----------------------------------------------------------------------------
(* Agreement. *)

\* Without restarts +2/3 vote for one proposal in a view, as any two majorities share
\* a validator.
LEMMA OneMajorityPerView ==
    ASSUME TypeOK, OneVotePerView, NoRestarts, NEW x, NEW b, NEW c,
           VotedBy("ProposeVote", x, b), VotedBy("ProposeVote", x, c)
    PROVE  b = c
<1>1. PICK P \in Quorum : \A w \in P : \E m \in msgs :
          m.type = "ProposeVote" /\ m.src = w /\ m.view = x /\ m.block = b
  BY DEF VotedBy
<1>2. PICK Q \in Quorum : \A w \in Q : \E m \in msgs :
          m.type = "ProposeVote" /\ m.src = w /\ m.view = x /\ m.block = c
  BY DEF VotedBy
<1>3. PICK w \in Validator : w \in P /\ w \in Q
  BY QuorumAssumption
<1>4. PICK m \in msgs : m.type = "ProposeVote" /\ m.src = w /\ m.view = x /\ m.block = b
  BY <1>1, <1>3
<1>5. PICK n \in msgs : n.type = "ProposeVote" /\ n.src = w /\ n.view = x /\ n.block = c
  BY <1>2, <1>3
<1> QED
  BY <1>4, <1>5 DEF OneVotePerView, NoRestarts, Sent

\* What a leader proposes agrees with every earlier view. Either no voter of its
\* majority is locked, or its lock is the highest of theirs: then nothing was voted for
\* between the lock and this view, its block was the only one in the lock's view, and
\* below that the proposal the lock was taken for has the same block.
LEMMA ProposalIsSettled ==
    ASSUME IInv, NoRestarts, NEW v \in Validator, GetMajorityVote(v, "ElectionVote", None),
           NEW b \in Proposed(v), NEW x \in ViewSet, Less(x, View(v))
    PROVE  Settled(x, b)
<1> USE DEF IInv
<1>1. PICK Q \in Quorum : \A w \in Q : VotesFor(v, w, "ElectionVote", None)
  BY DEF GetMajorityVote
<1>2. Q \subseteq Validator
  BY QuorumAssumption
<1>3. ASSUME NEW w \in Q
      PROVE  \E e \in Sent("ElectionVote") :
                 /\ e.src = w /\ e.view = View(v) /\ Handled(v, e)
                 /\ e.high \in QCSet \cup {None}
  <2>1. PICK e \in msgs : /\ e.type = "ElectionVote" /\ e.src = w
                          /\ e.view = View(v) /\ Handled(v, e)
    BY <1>1 DEF VotesFor
  <2> QED
    BY <2>1, MessageFields DEF Sent, Votes
<1>4. ASSUME NEW w \in Q
      PROVE  Less(x, View(w))
  <2>1. PICK e \in Sent("ElectionVote") : e.src = w /\ e.view = View(v)
    BY <1>3
  <2>2. ~Less(View(w), View(v))
    BY <1>2, <2>1 DEF VotesAreOfThePast, NoRestarts, Sent, Votes
  <2>3. View(w) \in ViewSet /\ View(v) \in ViewSet
    BY <1>2, ViewType
  <2> QED
    BY <2>2, <2>3, ViewsAreOrdered
<1>5. ASSUME NEW w \in Q, NEW n \in Sent("PrecommitVote"), n.src = w, n.view = x
      PROVE  /\ highQC[v] # None
             /\ ~Less(highQC[v].view, x)
  <2>1. PICK e \in Sent("ElectionVote") :
                 /\ e.src = w /\ e.view = View(v) /\ Handled(v, e)
                 /\ e.high \in QCSet \cup {None}
    BY <1>3
  <2>2. e.high # None /\ ~Less(e.high.view, x)
    BY <1>2, <1>5, <2>1 DEF LocksAreReported, NoRestarts
  <2>3. highQC[v] # None /\ ~Less(highQC[v].view, e.high.view)
    BY <2>1, <2>2 DEF Handled, Higher
  <2>4. highQC[v] \in QCSet /\ e.high \in QCSet
    BY <2>1, <2>2, <2>3 DEF TypeOK
  <2>5. highQC[v].view \in ViewSet /\ e.high.view \in ViewSet
    BY <2>4 DEF QCSet
  <2> QED
    BY <2>2, <2>3, <2>5, ViewsAreOrdered
<1>6. CASE highQC[v] = None
  BY <1>4, <1>5, <1>6 DEF Settled
<1>7. CASE highQC[v] # None
  <2>1. PICK h \in QCSet : h = highQC[v]
    BY <1>7 DEF TypeOK
  <2>2. b = h.block /\ h.view \in ViewSet
    BY <1>7, <2>1 DEF Proposed, QCSet
  <2>3. VotedBy("ProposeVote", h.view, b)
    BY <1>7, <2>1, <2>2, CertifiedIsVotedBy DEF LocksAreCertified
  <2>4. CASE Less(x, h.view)
    <3>1. PICK P \in Quorum : \A w \in P : \E m \in msgs :
              m.type = "ProposeVote" /\ m.src = w /\ m.view = h.view /\ m.block = b
      BY <2>3 DEF VotedBy
    <3>2. PICK w : w \in P
      BY QuorumAssumption
    <3>3. PICK m \in Sent("ProposeVote") : m.view = h.view /\ m.block = b
      BY <3>1, <3>2 DEF Sent
    <3>4. PICK p \in Sent("Propose") : p.view = h.view /\ p.block = b
      BY <3>3 DEF MessagesAreFounded
    <3> QED
      BY <2>4, <3>4 DEF ProposalsAreSettled
  <2>5. CASE Less(h.view, x)
    BY <1>4, <1>5, <2>1, <2>5 DEF Settled
  <2>6. CASE x = h.view
    <3>1. ASSUME NEW n \in Sent("PrecommitVote"), n.view = x
          PROVE  n.block = b
      <4>1. PICK p \in Sent("Precommit") : p.view = n.view /\ p.block = n.block
        BY DEF MessagesAreFounded
      <4>2. VotedBy("ProposeVote", p.view, p.block)
        BY DEF MessagesAreFounded
      <4>3. PICK c : c = n.block
        OBVIOUS
      <4>4. VotedBy("ProposeVote", h.view, c)
        BY <2>6, <3>1, <4>1, <4>2, <4>3
      <4>5. b = c
        BY <2>3, <4>4, OneMajorityPerView
      <4> QED
        BY <4>3, <4>5
    <3> QED
      BY <1>4, <3>1 DEF Settled
  <2> QED
    BY <2>2, <2>4, <2>5, <2>6, ViewsAreOrdered
<1> QED
  BY <1>6, <1>7

\* A quorum that left a view does not come back to vote there.
LEMMA SettledStays ==
    ASSUME TypeOK, TypeOK', NEW v \in Validator, Effects(v), NoRestarts',
           NEW x \in ViewSet, NEW b, Settled(x, b)
    PROVE  Settled(x, b)'
<1>1. PICK Q \in Quorum : \A w \in Q :
          /\ Less(x, View(w))
          /\ \A n \in Sent("PrecommitVote") : n.src = w /\ n.view = x => n.block = b
  BY DEF Settled
<1>2. Q \subseteq Validator
  BY QuorumAssumption
<1>3. \A m \in msgs' : m \in msgs \/ IsFounded(v, m)
  BY NewMessages DEF Effects
<1>4. ASSUME NEW w \in Q
      PROVE  Less(x, View(w)')
  <2>1. /\ View(w) \in ViewSet /\ View(w)' \in ViewSet
        /\ ~Less(View(w)', View(w))
    BY <1>2, ViewsAdvance DEF NoRestarts
  <2> QED
    BY <1>1, <2>1, ViewsAreOrdered
<1>5. ASSUME NEW w \in Q, NEW n \in Sent("PrecommitVote")', n.src = w, n.view = x
      PROVE  n.block = b
  <2>1. CASE n \in msgs
    BY <1>1, <1>5, <2>1 DEF Sent
  <2>2. CASE IsFounded(v, n)
    <3>1. w = v /\ x = View(v)
      BY <1>5, <2>2 DEF IsFounded, Sent, Votes
    <3>2. ~Less(x, x)
      BY ViewsAreOrdered
    <3> QED
      BY <1>1, <3>1, <3>2
  <2> QED
    BY <1>3, <2>1, <2>2 DEF Sent
<1> QED
  BY <1>4, <1>5 DEF Settled

\* Proposals stay settled, and a new one is.
LEMMA ProposalsStaySettled ==
    ASSUME IInv, TypeOK', NEW v \in Validator, Effects(v)
    PROVE  ProposalsAreSettled'
<1> SUFFICES ASSUME NoRestarts', NEW m \in Sent("Propose")', NEW x \in ViewSet,
                    Less(x, m.view)
             PROVE  Settled(x, m.block)'
  BY DEF ProposalsAreSettled
<1>1. NoRestarts
  BY ViewsAdvance DEF NoRestarts, IInv
<1>2. m \in msgs \/ IsFounded(v, m)
  BY NewMessages DEF Effects, Sent
<1>3. Settled(x, m.block)
  <2>1. CASE m \in msgs
    BY <1>1, <2>1 DEF IInv, ProposalsAreSettled, Sent
  <2>2. CASE IsFounded(v, m)
    <3>1. /\ GetMajorityVote(v, "ElectionVote", None)
          /\ m.view = View(v) /\ m.block \in Proposed(v)
      BY <2>2 DEF IsFounded, Sent
    <3>2. PICK b \in Proposed(v) : b = m.block
      BY <3>1
    <3>3. Settled(x, b)
      BY <1>1, <3>1, ProposalIsSettled
    <3> QED
      BY <3>2, <3>3
  <2> QED
    BY <1>2, <2>1, <2>2
<1>4. PICK b : b = m.block
  OBVIOUS
<1>5. Settled(x, b)'
  BY <1>3, <1>4, SettledStays DEF IInv
<1> QED
  BY <1>4, <1>5

-----------------------------------------------------------------------------
(* Theorems. *)

\* The invariant holds initially: nothing has been sent.
LEMMA InitIInv == Init => IInv
<1> SUFFICES ASSUME Init
             PROVE  IInv
  OBVIOUS
<1>1. TypeOK
  BY BoundAssumption DEF Init, TypeOK
<1>2. \A type : Sent(type) = {}
  BY DEF Init, Sent
<1>3. /\ \A v \in Validator : highQC[v] = None /\ committed[v] = None
      /\ msgs = {}
  BY DEF Init
<1> QED
  BY <1>1, <1>2, <1>3
     DEF IInv, MessagesAreFounded, LocksAreCertified, CarriedLocksAreCertified,
         VotesAreOfThePast, VotesFollowThePhases, OneVotePerView,
         SteadyVotersStayLocked, LocksAreReported, ProposalsAreSettled

\* Every step of every validator keeps it.
LEMMA StepIInv == IInv /\ [Next]_vars => IInv'
<1> SUFFICES ASSUME IInv, [Next]_vars
             PROVE  IInv'
  OBVIOUS
<1>1. ASSUME NEW v \in Validator, Step(v)
      PROVE  IInv'
  <2>1. TypeOK' /\ Effects(v)
    BY <1>1, StepType, StepEffects DEF IInv
  <2>2. MessagesAreFounded'
    BY <2>1, FoundedStays DEF IInv
  <2>3. LocksAreCertified' /\ CarriedLocksAreCertified'
    BY <2>1, LocksStayCertified DEF IInv
  <2>4. VotesAreOfThePast'
    BY <2>1, VotesStayOfThePast DEF IInv
  <2>5. VotesFollowThePhases' /\ OneVotePerView'
    BY <2>1, VotesStaySingle DEF IInv
  <2>6. SteadyVotersStayLocked'
    BY <2>1, VotersStayLocked DEF IInv
  <2>7. LocksAreReported'
    BY <2>1, LocksStayReported DEF IInv
  <2>8. ProposalsAreSettled'
    BY <2>1, ProposalsStaySettled
  <2> QED
    BY <2>1, <2>2, <2>3, <2>4, <2>5, <2>6, <2>7, <2>8 DEF IInv
<1>2. CASE UNCHANGED vars
  BY <1>2
     DEF vars, IInv, TypeOK, MessagesAreFounded, LocksAreCertified,
         CarriedLocksAreCertified, VotesAreOfThePast, VotesFollowThePhases, OneVotePerView,
         SteadyVotersStayLocked, LocksAreReported, ProposalsAreSettled, Sent, VotedBy,
         Certified, View, Settled, NoRestarts
<1> QED
  BY <1>1, <1>2 DEF Next

\* The invariant holds of every state the committee reaches.
THEOREM Inductive == Spec => []IInv
BY InitIInv, StepIInv, PTL DEF Spec

\* What a validator holds and what it sends is well formed, through every phase and
\* every reset (bft.go).
THEOREM TypeCorrect == Spec => []TypeOK
<1>1. IInv => TypeOK
  BY DEF IInv
<1> QED
  BY <1>1, Inductive, PTL

\* Every lock has +2/3 of the propose votes of its view behind it, also one that was
\* taken over from an election vote and one kept over restarts of others (vote.go
\* handleHighQCVDFAndEvidence, bft.go StartPrecommitVotePhase).
THEOREM LocksAreAlwaysCertified == Spec => []LocksAreCertified
<1>1. IInv => LocksAreCertified
  BY DEF IInv
<1> QED
  BY <1>1, Inductive, PTL

\* A validator that voted in PRECOMMIT-VOTE and did not restart itself holds a lock at
\* least as high until it commits (bft.go NewRound, NewHeight; vote.go AddVote).
THEOREM VotersAreAlwaysLocked == Spec => []SteadyVotersStayLocked
<1>1. IInv => SteadyVotersStayLocked
  BY DEF IInv
<1> QED
  BY <1>1, Inductive, PTL

\* As long as nobody restarts, at most one block is shown for precommit or commit in a
\* view, whatever the leaders, splits and losses (bft.go StartPrecommitPhase).
THEOREM AgreementInAView == Spec => [](NoRestarts => OneBlockPerView)
<1>1. ASSUME IInv, NoRestarts
      PROVE  OneBlockPerView
  <2>1. ASSUME NEW m \in msgs, m.type \in {"Precommit", "Commit"}
        PROVE  VotedBy("ProposeVote", m.view, m.block)
    <3>1. CASE m.type = "Precommit"
      BY <1>1, <3>1 DEF IInv, MessagesAreFounded, Sent
    <3>2. CASE m.type = "Commit"
      <4>1. PICK Q \in Quorum : \A w \in Q : \E k \in msgs :
                k.type = "PrecommitVote" /\ k.src = w /\ k.view = m.view /\ k.block = m.block
        BY <1>1, <3>2 DEF IInv, MessagesAreFounded, Sent, VotedBy
      <4>2. PICK w : w \in Q
        BY QuorumAssumption
      <4>3. PICK k \in Sent("PrecommitVote") : k.view = m.view /\ k.block = m.block
        BY <4>1, <4>2 DEF Sent
      <4>4. PICK p \in Sent("Precommit") : p.view = m.view /\ p.block = m.block
        BY <1>1, <4>3 DEF IInv, MessagesAreFounded
      <4>5. VotedBy("ProposeVote", p.view, p.block)
        BY <1>1 DEF IInv, MessagesAreFounded
      <4> QED
        BY <4>4, <4>5
    <3> QED
      BY <2>1, <3>1, <3>2
  <2>2. ASSUME NEW m \in msgs, NEW n \in msgs, m.type \in {"Precommit", "Commit"},
               n.type \in {"Precommit", "Commit"}, m.view = n.view
        PROVE  m.block = n.block
    <3>1. PICK x, b, c : x = m.view /\ b = m.block /\ c = n.block
      OBVIOUS
    <3>2. VotedBy("ProposeVote", x, b) /\ VotedBy("ProposeVote", x, c)
      BY <2>1, <2>2, <3>1
    <3>3. b = c
      BY <1>1, <3>2, OneMajorityPerView DEF IInv
    <3> QED
      BY <3>1, <3>3
  <2> QED
    BY <2>2 DEF OneBlockPerView
<1> QED
  BY <1>1, Inductive, PTL

\* Of two committed blocks one is of the earlier view; the proposal behind the later one
\* agrees with a quorum of that view, which shares a voter with the committed majority.
LEMMA OneBlock ==
    ASSUME IInv, NoRestarts, NEW m \in Sent("Block"), NEW n \in Sent("Block"),
           Less(m.qc.view, n.qc.view) \/ m.qc.view = n.qc.view
    PROVE  m.qc.block = n.qc.block
<1> USE DEF IInv
<1>1. ASSUME NEW k \in Sent("Block")
      PROVE  VotedBy("PrecommitVote", k.qc.view, k.qc.block)
  <2>1. PICK c \in Sent("Commit") : c.view = k.qc.view /\ c.block = k.qc.block
    BY DEF MessagesAreFounded
  <2>2. VotedBy("PrecommitVote", c.view, c.block)
    BY DEF MessagesAreFounded
  <2> QED
    BY <2>1, <2>2
<1>2. ASSUME NEW k \in Sent("Block")
      PROVE  VotedBy("ProposeVote", k.qc.view, k.qc.block)
  <2>1. PICK Q \in Quorum : \A w \in Q : \E p \in msgs :
            /\ p.type = "PrecommitVote" /\ p.src = w
            /\ p.view = k.qc.view /\ p.block = k.qc.block
    BY <1>1 DEF VotedBy
  <2>2. PICK w : w \in Q
    BY QuorumAssumption
  <2>3. PICK p \in Sent("PrecommitVote") : p.view = k.qc.view /\ p.block = k.qc.block
    BY <2>1, <2>2 DEF Sent
  <2>4. PICK q \in Sent("Precommit") : q.view = k.qc.view /\ q.block = k.qc.block
    BY <2>3 DEF MessagesAreFounded
  <2>5. VotedBy("ProposeVote", q.view, q.block)
    BY DEF MessagesAreFounded
  <2> QED
    BY <2>4, <2>5
<1>3. PICK x, b, y, c : x = m.qc.view /\ b = m.qc.block /\ y = n.qc.view /\ c = n.qc.block
  OBVIOUS
<1>4. /\ VotedBy("PrecommitVote", x, b) /\ VotedBy("ProposeVote", x, b)
      /\ VotedBy("ProposeVote", y, c)
  BY <1>1, <1>2, <1>3
<1>5. CASE x = y
  <2>1. b = c
    BY <1>4, <1>5, OneMajorityPerView
  <2> QED
    BY <1>3, <2>1
<1>6. CASE Less(x, y)
  <2>1. x \in ViewSet
    BY <1>3, MessageFields DEF Sent, QCSet
  <2>2. PICK P \in Quorum : \A w \in P : \E k \in msgs :
            k.type = "ProposeVote" /\ k.src = w /\ k.view = y /\ k.block = c
    BY <1>4 DEF VotedBy
  <2>3. PICK u : u \in P
    BY QuorumAssumption
  <2>4. PICK k \in Sent("ProposeVote") : k.view = y /\ k.block = c
    BY <2>2, <2>3 DEF Sent
  <2>5. PICK p \in Sent("Propose") : p.view = y /\ p.block = c
    BY <2>4 DEF MessagesAreFounded
  <2>6. Settled(x, c)
    BY <1>6, <2>1, <2>5 DEF ProposalsAreSettled
  <2>7. PICK Q \in Quorum : \A w \in Q :
            \A v \in Sent("PrecommitVote") : v.src = w /\ v.view = x => v.block = c
    BY <2>6 DEF Settled
  <2>8. PICK R \in Quorum : \A w \in R : \E v \in msgs :
            v.type = "PrecommitVote" /\ v.src = w /\ v.view = x /\ v.block = b
    BY <1>4 DEF VotedBy
  <2>9. PICK w : w \in Q /\ w \in R
    BY QuorumAssumption
  <2>10. b = c
    BY <2>7, <2>8, <2>9 DEF Sent
  <2> QED
    BY <1>3, <2>10
<1> QED
  BY <1>3, <1>5, <1>6

\* As long as nobody restarts, consensus implements Finality: the validators of a height
\* commit one block, over any rounds, root heights and takeovers of locks, although
\* SafeNode compares the rounds of locks only (bft.go SafeNode, StartProposePhase).
THEOREM BlocksAreFinalAlways == Spec /\ []NoRestarts => BlocksAreFinal
<1>1. Init => Final!Init
  BY DEF Init, Final!Init
<1>2. ASSUME IInv, NoRestarts, [Next]_vars
      PROVE  [Final!Next]_committed
  <2>1. CASE UNCHANGED vars
    BY <2>1 DEF vars
  <2>2. ASSUME NEW v \in Validator, Step(v), committed' # committed
        PROVE  Final!Next
    <3>1. committed[v] = None /\ HandlePeerBlock(v)
      BY <2>2
         DEF Step, AddVote, HandlePhase, StartElectionVotePhase, StartProposePhase,
             StartProposeVotePhase, StartPrecommitPhase, StartPrecommitVotePhase,
             StartCommitPhase, StartCommitProcessPhase, ShowMajority, RoundInterrupt,
             Pacemaker, NewCommittee, Restart, HandlePeerBlockFails, lockVars
    <3>2. PICK m \in Sent("Block") : committed' = [committed EXCEPT ![v] = m.qc.block]
      BY <3>1 DEF HandlePeerBlock, Sent
    <3>3. m.qc.block \in Block /\ m.qc.view \in ViewSet
      BY <1>2, MessageFields DEF IInv, Sent, QCSet
    <3>4. ASSUME NEW w \in Validator, committed[w] # None
          PROVE  committed[w] = m.qc.block
      <4>1. PICK n \in Sent("Block") : n.qc.block = committed[w]
        BY <1>2, <3>4 DEF IInv, MessagesAreFounded
      <4>2. n.qc.view \in ViewSet
        BY <1>2, MessageFields DEF IInv, Sent, QCSet
      <4>3. \/ Less(m.qc.view, n.qc.view) \/ m.qc.view = n.qc.view
            \/ Less(n.qc.view, m.qc.view)
        BY <3>3, <4>2, ViewsAreOrdered
      <4>4. m.qc.block = n.qc.block
        BY <1>2, <4>3, OneBlock
      <4> QED
        BY <4>1, <4>4
    <3>5. Final!Commit(v, m.qc.block)
      BY <3>1, <3>2, <3>4 DEF Final!Commit
    <3> QED
      BY <3>3, <3>5 DEF Final!Next
  <2> QED
    BY <1>2, <2>1, <2>2 DEF Next
<1> QED
  BY <1>1, <1>2, Inductive, PTL DEF Spec, BlocksAreFinal, Final!Spec

-----------------------------------------------------------------------------
(* The assumption on the quorums, for those that the code computes. *)

Committee(Power) == INSTANCE VotingPower WITH Member <- Validator

LEMMA PowerIsSum ==
    ASSUME NEW Power, NEW S
    PROVE  Committee(Power)!PowerOf(S) = SumFunctionOnSet(Power, S)
BY Zenon DEF Committee!PowerOf, Committee!MapThenSumSet, Committee!MapThenFoldSet,
             SumFunctionOnSet, FoldFunctionOnSet, MapThenFoldSet

\* Two sets of validators that each reach MinimumMaj23 share more than a third of the voting
\* power, whatever the powers are, zero and the rounding of the division included
\* (lib/consensus.go NewValidatorSet): agreement survives a third that does not follow the
\* protocol, and rests on no assumption but the code's own threshold.
THEOREM MajoritiesShareAThird ==
    ASSUME IsFiniteSet(Validator), NEW Power \in [Validator -> Nat],
           NEW P \in Committee(Power)!Majorities, NEW Q \in Committee(Power)!Majorities
    PROVE  3 * Committee(Power)!PowerOf(P \cap Q) > Committee(Power)!TotalPower
<1> DEFINE Sum(S) == SumFunctionOnSet(Power, S)
<1>1. P \in SUBSET Validator /\ Q \in SUBSET Validator
  BY DEF Committee!Majorities
<1>2. /\ Sum(P) >= (2 * Sum(Validator)) \div 3 + 1
      /\ Sum(Q) >= (2 * Sum(Validator)) \div 3 + 1
  BY PowerIsSum DEF Committee!Majorities, Committee!MinimumMaj23, Committee!TotalPower
<1>3. Sum(P) + Sum(Q) = Sum(P \cup Q) + Sum(P \cap Q)
  BY <1>1, SumOverlap
<1>4. P \cup Q \in SUBSET Validator /\ P \cap Q \in SUBSET Validator
  BY <1>1
<1>5. /\ Sum(P) \in Nat /\ Sum(Q) \in Nat
      /\ Sum(P \cup Q) \in Nat /\ Sum(P \cap Q) \in Nat /\ Sum(Validator) \in Nat
      /\ Sum(P \cup Q) <= Sum(Validator)
  BY <1>1, <1>4, SumSubset, SumType
<1> HIDE DEF Sum
<1>6. 3 * Sum(P \cap Q) > Sum(Validator)
  <2>1. ASSUME NEW p \in Nat, NEW q \in Nat, NEW u \in Nat, NEW i \in Nat, NEW n \in Nat,
               p >= (2 * n) \div 3 + 1, q >= (2 * n) \div 3 + 1, p + q = u + i, u <= n
        PROVE  3 * i > n
    <3>1. 3 * ((2 * n) \div 3) + 2 >= 2 * n /\ (2 * n) \div 3 \in Nat
      OBVIOUS
    <3> QED
      BY <2>1, <3>1
  <2> QED
    BY <1>2, <1>3, <1>5, <2>1
<1> QED
  BY <1>6, PowerIsSum DEF Sum, Committee!TotalPower

\* The sets that the code takes for a majority meet QuorumAssumption, on which the agreement
\* above rests, for any voting powers of a finite committee; and a majority is always strong
\* enough to pull up a round (bft/bft.go Pacemaker).
THEOREM MajoritiesAreQuorums ==
    ASSUME IsFiniteSet(Validator), NEW Power \in [Validator -> Nat]
    PROVE  /\ Committee(Power)!Majorities \subseteq SUBSET Validator
           /\ \A P, Q \in Committee(Power)!Majorities : P \cap Q # {}
           /\ Committee(Power)!Majorities \subseteq Committee(Power)!Pulling
<1>1. Committee(Power)!Majorities \subseteq SUBSET Validator
  BY DEF Committee!Majorities
<1>2. SumFunctionOnSet(Power, Validator) \in Nat
  BY SumType
<1>3. ASSUME NEW P \in Committee(Power)!Majorities, NEW Q \in Committee(Power)!Majorities
      PROVE  P \cap Q # {}
  <2>1. 3 * SumFunctionOnSet(Power, P \cap Q) > SumFunctionOnSet(Power, Validator)
    BY MajoritiesShareAThird, PowerIsSum DEF Committee!TotalPower
  <2> QED
    BY <1>2, <2>1, SumEmpty
<1>4. ASSUME NEW P \in Committee(Power)!Majorities
      PROVE  P \in Committee(Power)!Pulling
  <2> DEFINE least == (2 * SumFunctionOnSet(Power, Validator)) \div 3 + 1
  <2>1. Committee(Power)!MinimumMaj23 = least
    BY PowerIsSum DEF Committee!MinimumMaj23, Committee!TotalPower
  <2>2. Committee(Power)!PacemakerMinimum = (least * (100 - 50)) \div 100
    BY <2>1 DEF Committee!PacemakerMinimum, Committee!Uint64ReducePercentage
  <2>3. least \in Nat
    BY <1>2
  <2> HIDE DEF least
  <2>4. (least * (100 - 50)) \div 100 <= least
    BY <2>3
  <2>5. SumFunctionOnSet(Power, P) \in Nat
    BY <1>1, SumSubset
  <2>6. Committee(Power)!PowerOf(P) \in Nat /\ Committee(Power)!PowerOf(P) >= least
    BY <2>1, <2>5, PowerIsSum DEF Committee!Majorities
  <2>7. (least * (100 - 50)) \div 100 \in Nat
    BY <2>3
  <2> QED
    BY <1>1, <2>2, <2>3, <2>4, <2>6, <2>7 DEF Committee!Pulling
<1> QED
  BY <1>1, <1>3, <1>4
=============================================================================
