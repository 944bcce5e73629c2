--------------------------- MODULE BlockSync_proofs -------------------------
(***************************************************************************)
(* The safety of a node that commits, takes part in consensus and syncs,   *)
(* for any number of heights, peers, signals, faults and any window.       *)
(***************************************************************************)
EXTENDS BlockSync, SequenceTheorems, TLAPS

-----------------------------------------------------------------------------
(* The inductive invariant. *)

\* The state machine holds nothing but the validated block whose result is cached.
AppliedIsCached == applied \subseteq {cached}

\* Consensus, its block and its lock are about the block to come.
AtChainHeight ==
    /\ view = height
    /\ high # None => high.h = height
    /\ block # None => block.h = height

Signalled == \E i \in 1 .. Len(resets) : resets[i] = "height"

\* Where consensus is behind the chain, a signal that makes it follow is on its way.
WillFollow == syncing \/ Signalled \/ AtChainHeight

\* The loop runs in a sync, processQueue from a height of a block.
LoopIsSyncs ==
    /\ IF loop = "idle" THEN target = 0 ELSE syncing
    /\ loop = "process" => cursor # 0

\* The store's version runs ahead of the blocks, by more than one where a write failed.
VersionsAreAhead ==
    /\ version >= height
    /\ \A j \in 1 .. Len(chain) : \A i \in 1 .. j : chain[i].block.h < chain[j].version

Inv ==
    /\ TypeOK /\ AppliedIsCached /\ NoStaleValidation
    /\ WillFollow /\ LoopIsSyncs /\ QueueIsTheWindow /\ VersionsAreAhead

Commit == [block : Block, state : SUBSET Block, version : Height]

USE DEF network, node, consensus, commitVars, syncVars, Height

-----------------------------------------------------------------------------
(* Lemmas. *)

\* A signal written to ResetBFT is one more in the channel, and it is there.
LEMMA SignalAppended ==
    ASSUME NEW q \in Seq({"root", "height"}), NEW r \in {"root", "height"}
    PROVE  /\ Append(q, r) \in Seq({"root", "height"}) /\ Len(Append(q, r)) = Len(q) + 1
           /\ \A i \in 1 .. Len(q) : Append(q, r)[i] = q[i]
           /\ Append(q, r)[Len(q) + 1] = r
           /\ Len(q) \in Nat
OBVIOUS

\* Reading a signal leaves the ones behind it.
LEMMA SignalRead ==
    ASSUME NEW q \in Seq({"root", "height"}), q # <<>>
    PROVE  /\ Tail(q) \in Seq({"root", "height"}) /\ Len(Tail(q)) = Len(q) - 1
           /\ Head(q) = q[1] /\ Head(q) \in {"root", "height"}
           /\ Len(q) \in Nat /\ Len(q) # 0
           /\ \A i \in 1 .. Len(q) - 1 : Tail(q)[i] = q[i + 1]
<1>1. Len(q) \in Nat /\ Len(q) # 0
  BY EmptySeq
<1> QED
  BY <1>1, HeadTailProperties

\* A commit that is written leaves the blocks before it, and is the last one.
LEMMA CommitAppended ==
    ASSUME NEW S, NEW c \in Seq(S), NEW e \in S
    PROVE  /\ Append(c, e) \in Seq(S) /\ Len(Append(c, e)) = Len(c) + 1
           /\ \A i \in 1 .. Len(c) : Append(c, e)[i] = c[i]
           /\ Append(c, e)[Len(c) + 1] = e
           /\ Len(c) \in Nat
BY AppendProperties, LenProperties

\* The certified block of a height is a block of that height.
LEMMA CertificateIsBlock ==
    ASSUME NEW h \in Height
    PROVE  Certificate(h) \in Block /\ Certificate(h).h = h
BY NamesOfBlocks DEF Certificate, Block

\* The blocks in the chain are below the block to come.
LEMMA ChainIsBelow ==
    ASSUME Inv, NEW i \in 1 .. Len(chain)
    PROVE  chain[i].block.h < height
<1>1. chain \in Seq(Commit) /\ Len(chain) \in Nat
  BY LenProperties DEF Inv, TypeOK, CommitTypeOK, Commit
<1>2. i \in 1 .. Len(chain) /\ Len(chain) \in 1 .. Len(chain) /\ i \in 1 .. Len(chain) /\ chain # <<>>
  BY <1>1, EmptySeq
<1> QED
  BY <1>1, <1>2 DEF Inv, VersionsAreAhead, TypeOK, CommitTypeOK

-----------------------------------------------------------------------------
(* Preservation, by groups of actions. *)

\* The node starts with nothing applied, nothing queued and syncing.
LEMMA InitInv == Init => Inv
<1> SUFFICES ASSUME Init PROVE Inv
  OBVIOUS
<1>1. CommitTypeOK
  <2>1. <<>> \in Seq(Commit) /\ <<>> \in Seq({"root", "height"})
    BY EmptySeq
  <2>2. 1 \in Height /\ 0 \in 0 .. MaxHeight /\ 0 \in 0 .. MaxFaults /\ 0 <= MaxResets
    BY BoundsAreNumbers
  <2>3. Len(<<>>) = 0
    OBVIOUS
  <2> QED
    BY <2>1, <2>2, <2>3 DEF Init, CommitInit, CommitTypeOK, Commit
<1>2. TypeOK
  <2>1. 0 \in 0 .. MaxHeight + 1
    BY BoundsAreNumbers
  <2>2. NoQueue \in [1 .. MaxHeight -> Request \cup {None}]
    BY DEF NoQueue
  <2> QED
    BY <1>1, <2>1, <2>2 DEF Init, TypeOK
<1>3. NoStaleValidation /\ QueueIsTheWindow /\ VersionsAreAhead
  BY DEF Init, CommitInit, NoStaleValidation, QueueIsTheWindow, NoQueue, VersionsAreAhead
<1> QED
  BY <1>2, <1>3 DEF Init, CommitInit, Inv, AppliedIsCached, WillFollow, LoopIsSyncs

\* What a step that leaves the queue, the loop, the chain and the syncing flag alone keeps.
LEMMA QueueKept ==
    ASSUME QueueIsTheWindow, LoopIsSyncs, UNCHANGED <<syncVars, chain, height, syncing>>
    PROVE  QueueIsTheWindow' /\ LoopIsSyncs'
BY DEF QueueIsTheWindow, LoopIsSyncs

\* What a step that leaves the chain and its height alone keeps; a failed write may
\* raise the version.
LEMMA ChainKept ==
    ASSUME Inv, UNCHANGED <<chain, height>>, version' \in {version, version + 1}
    PROVE  NoStaleValidation' /\ VersionsAreAhead' /\ version' \in Height
BY DEF Inv, NoStaleValidation, VersionsAreAhead, TypeOK, CommitTypeOK

\* The phases of consensus never leave the block to come unless a signal is pending.
LEMMA PhasesKeepInv ==
    ASSUME Inv, Phases, UNCHANGED syncVars
    PROVE  Inv'
<1> USE DEF Inv
<1>0. UNCHANGED <<certified, chain, version, height, resets, syncing, faults>>
  BY DEF Phases, Pause, ProduceProposal, ProposeLocked, Follow, HighVote, Validate, Lock,
         CommitProcess, Interrupt, RoundInterrupt, Pacemaker, NewRound
<1>1. QueueIsTheWindow' /\ LoopIsSyncs' /\ NoStaleValidation' /\ VersionsAreAhead'
  BY <1>0, QueueKept, ChainKept
<1>2. height \in Height /\ view \in Height /\ None \notin Block
  BY NamesOfBlocks DEF TypeOK, CommitTypeOK
<1> DEFINE PhaseKeeps ==
      /\ phase' \in {"Propose", "ProposeVote", "PrecommitVote", "CommitProcess", "Waiting", "Pacemaker"}
      /\ view' \in Height
      /\ applied' \in SUBSET Block /\ {block, cached, high}' \subseteq Block \cup {None}
      /\ AppliedIsCached'
      /\ AtChainHeight => AtChainHeight'
<1>3. PhaseKeeps
  <2> USE DEF AppliedIsCached, AtChainHeight
  <2>t. /\ phase \in {"Propose", "ProposeVote", "PrecommitVote", "CommitProcess", "Waiting", "Pacemaker"}
        /\ applied \in SUBSET Block /\ {block, cached, high} \subseteq Block \cup {None}
        /\ applied \subseteq {cached}
    BY DEF TypeOK, CommitTypeOK
  <2>1. CASE Pause
    BY <2>1, <2>t, <1>2 DEF Pause
  <2>2. CASE ProduceProposal
    <3>1. \/ block' = None
          \/ \E id \in Id : block' = [h |-> height, id |-> id]
      BY <2>2 DEF ProduceProposal
    <3>2. block' = None \/ (block' \in Block /\ block'.h = height)
      BY <3>1, <1>2 DEF Block
    <3> QED
      BY <2>2, <3>2, <2>t, <1>2 DEF ProduceProposal
  <2>3. CASE ProposeLocked
    BY <2>3, <2>t, <1>2 DEF ProposeLocked
  <2>4. CASE Follow
    BY <2>4, <2>t, <1>2 DEF Follow
  <2>5. CASE HighVote
    <3>1. high' \in Block /\ high'.h = view
      BY <2>5, <1>2 DEF HighVote, Block
    <3> QED
      BY <2>5, <3>1, <2>t, <1>2 DEF HighVote
  <2>6. ASSUME NEW id \in Id, Validate([h |-> view, id |-> id]) PROVE PhaseKeeps
    <3>1. [h |-> view, id |-> id] \in Block
      BY <1>2 DEF Block
    <3> QED
      BY <2>6, <3>1, <2>t, <1>2 DEF Validate
  <2>7. CASE Lock
    BY <2>7, <2>t, <1>2 DEF Lock
  <2>8. CASE CommitProcess
    BY <2>8, <2>t, <1>2 DEF CommitProcess
  <2>9. CASE Interrupt
    BY <2>9, <2>t, <1>2 DEF Interrupt, RoundInterrupt
  <2>10. CASE Pacemaker
    BY <2>10, <2>t, <1>2 DEF Pacemaker, NewRound
  <2> HIDE DEF PhaseKeeps
  <2> QED
    BY <2>1, <2>2, <2>3, <2>4, <2>5, <2>6, <2>7, <2>8, <2>9, <2>10 DEF Phases
<1>4. WillFollow'
  BY <1>0, <1>3 DEF WillFollow, Signalled
<1>5. TypeOK'
  BY <1>0, <1>3 DEF TypeOK, CommitTypeOK
<1> QED
  BY <1>1, <1>3, <1>4, <1>5

\* A reset puts consensus at the block to come, or leaves the signal that does.
LEMMA HandleResetKeepsInv ==
    ASSUME Inv, HandleReset, UNCHANGED syncVars
    PROVE  Inv'
<1> USE DEF Inv
<1>0. /\ UNCHANGED <<certified, chain, version, height, applied, cached, syncing, faults>>
      /\ view' = height /\ block' = None /\ phase' = "Propose"
      /\ resets # <<>> /\ resets' = Tail(resets)
      /\ high' = IF Head(resets) = "root" THEN high ELSE None
  BY DEF HandleReset, NewHeight, NewRound, Kept
<1>1. QueueIsTheWindow' /\ LoopIsSyncs' /\ NoStaleValidation' /\ VersionsAreAhead'
  BY <1>0, QueueKept, ChainKept
<1>2. /\ resets \in Seq({"root", "height"}) /\ Len(resets) <= MaxResets
      /\ height \in Height
  BY DEF TypeOK, CommitTypeOK
<1>3. /\ Tail(resets) \in Seq({"root", "height"}) /\ Len(Tail(resets)) <= MaxResets
      /\ Len(resets) \in Nat /\ Len(Tail(resets)) = Len(resets) - 1
      /\ Head(resets) = resets[1] /\ Head(resets) \in {"root", "height"}
      /\ \A i \in 1 .. Len(resets) - 1 : Tail(resets)[i] = resets[i + 1]
  BY <1>0, <1>2, SignalRead, BoundsAreNumbers
<1>4. WillFollow'
  <2>1. CASE Head(resets) = "height"
    BY <2>1, <1>0 DEF WillFollow, AtChainHeight
  <2>2. CASE Head(resets) = "root"
    <3>1. CASE syncing \/ AtChainHeight
      BY <3>1, <2>2, <1>0 DEF WillFollow, AtChainHeight
    <3>2. CASE Signalled
      <4>1. PICK i \in 1 .. Len(resets) : resets[i] = "height"
        BY <3>2 DEF Signalled
      <4>2. i # 1
        BY <4>1, <2>2, <1>3
      <4>3. PICK j : j = i - 1
        OBVIOUS
      <4>4. j \in 1 .. Len(resets) - 1 /\ j + 1 = i
        BY <4>2, <4>3, <1>3
      <4>5. Tail(resets)[j] = "height"
        BY <4>1, <4>4, <1>3
      <4>6. j \in 1 .. Len(Tail(resets))
        BY <4>4, <1>3
      <4> QED
        BY <4>5, <4>6, <1>0 DEF WillFollow, Signalled
    <3> QED
      BY <3>1, <3>2 DEF WillFollow
  <2> QED
    BY <2>1, <2>2, <1>3
<1>5. TypeOK'
  BY <1>0, <1>2, <1>3 DEF TypeOK, CommitTypeOK
<1> QED
  BY <1>0, <1>1, <1>4, <1>5 DEF AppliedIsCached

\* A signal that is written keeps what was signalled, and may be the one that is due.
LEMMA SignalWritten ==
    ASSUME TypeOK, NEW r \in {"root", "height"}, Len(resets) < MaxResets,
           resets' = Append(resets, r)
    PROVE  /\ resets' \in Seq({"root", "height"}) /\ Len(resets') <= MaxResets
           /\ Signalled => Signalled'
           /\ r = "height" => Signalled'
<1>1. resets \in Seq({"root", "height"})
  BY DEF TypeOK, CommitTypeOK
<1>2. /\ Append(resets, r) \in Seq({"root", "height"}) /\ Len(Append(resets, r)) = Len(resets) + 1
      /\ \A i \in 1 .. Len(resets) : Append(resets, r)[i] = resets[i]
      /\ Append(resets, r)[Len(resets) + 1] = r
      /\ Len(resets) \in Nat
  BY <1>1, SignalAppended
<1>3. Len(resets') <= MaxResets
  BY <1>2, BoundsAreNumbers
<1>4. Signalled => Signalled'
  BY <1>2 DEF Signalled
<1>5. r = "height" => Signalled'
  <2>1. Len(resets) + 1 \in 1 .. Len(resets')
    BY <1>2
  <2> QED
    BY <2>1, <1>2 DEF Signalled
<1> QED
  BY <1>2, <1>3, <1>4, <1>5

\* A root chain update only adds a signal.
LEMMA RootUpdateKeepsInv ==
    ASSUME Inv, UpdateRootChainInfo, UNCHANGED syncVars
    PROVE  Inv'
<1> USE DEF Inv
<1>1. PICK r \in {"root", "height"} : resets' = Append(resets, r)
  BY DEF UpdateRootChainInfo
<1>2. UNCHANGED <<certified, chain, version, height, applied, phase, view, block, cached, high, syncing, faults>>
  BY DEF UpdateRootChainInfo
<1>3. /\ resets' \in Seq({"root", "height"}) /\ Len(resets') <= MaxResets
      /\ Signalled => Signalled'
  BY <1>1, SignalWritten DEF UpdateRootChainInfo
<1>4. TypeOK'
  BY <1>2, <1>3 DEF TypeOK, CommitTypeOK
<1>5. WillFollow' /\ AppliedIsCached'
  BY <1>2, <1>3 DEF WillFollow, AppliedIsCached, AtChainHeight
<1> QED
  BY <1>2, <1>4, <1>5, QueueKept, ChainKept

\* A commit writes the block of the height to come with nothing but that block applied,
\* under a version above its height.
LEMMA CommitKeepsChain ==
    ASSUME Inv, NEW b \in Block, HandlePeerBlock(b), UNCHANGED certified
    PROVE  /\ chain' \in Seq(Commit) /\ version' \in Height /\ height' \in Height
           /\ height' = IF chain' = <<>> THEN 1 ELSE chain'[Len(chain')].version
           /\ b.h = height /\ height' > height
           /\ Len(chain') = Len(chain) + 1 /\ chain'[Len(chain) + 1].block = b
           /\ Len(chain) \in Nat /\ \A i \in 1 .. Len(chain) : chain'[i] = chain[i]
           /\ applied' = {}
           /\ NoStaleValidation' /\ VersionsAreAhead'
<1> USE DEF Inv
<1> DEFINE e == [block |-> b, state |-> ToCommit(b), version |-> version + 1]
<1>1. /\ height \in Height /\ version \in Height /\ version >= height
      /\ b.h = height /\ version' = version + 1 /\ height' = version + 1
      /\ chain' = Append(chain, e) /\ applied' = {}
      /\ chain \in Seq(Commit) /\ applied \in SUBSET Block
  BY DEF HandlePeerBlock, Continues, TypeOK, CommitTypeOK, VersionsAreAhead, Commit
<1>4. ToCommit(b) \subseteq {b}
  BY <1>1 DEF ToCommit, AppliedIsCached
<1>5. /\ e \in Commit /\ e.block = b /\ e.state \subseteq {b} /\ e.version = version + 1
  BY <1>1, <1>4 DEF Commit
<1>6. /\ chain' \in Seq(Commit) /\ Len(chain') = Len(chain) + 1
      /\ \A i \in 1 .. Len(chain) : chain'[i] = chain[i]
      /\ chain'[Len(chain) + 1] = e
      /\ Len(chain) \in Nat
  <2> HIDE DEF e
  <2> QED
    BY <1>1, <1>5, CommitAppended
<1>7. chain' # <<>>
  BY <1>6
<1> HIDE DEF e
<1>8. NoStaleValidation'
  <2> SUFFICES ASSUME NEW i \in 1 .. Len(chain')
               PROVE  chain'[i].state \subseteq {chain'[i].block}
    BY DEF NoStaleValidation
  <2>1. CASE i \in 1 .. Len(chain)
    BY <2>1, <1>6 DEF NoStaleValidation
  <2>2. CASE i = Len(chain) + 1
    BY <2>2, <1>5, <1>6
  <2> QED
    BY <2>1, <2>2, <1>6
<1>9. VersionsAreAhead'
  <2>1. version' >= height'
    BY <1>1
  <2>2. ASSUME NEW j \in 1 .. Len(chain'), NEW i \in 1 .. j
        PROVE  chain'[i].block.h < chain'[j].version
    <3>1. CASE j \in 1 .. Len(chain)
      <4>1. i \in 1 .. Len(chain)
        BY <3>1, <1>6
      <4> QED
        BY <3>1, <4>1, <1>6 DEF VersionsAreAhead
    <3>2. CASE j = Len(chain) + 1 /\ i \in 1 .. Len(chain)
      <4>1. chain[i].block.h < height
        BY <3>2, ChainIsBelow
      <4>2. chain[i] \in Commit
        BY <3>2, <1>1, ElementOfSeq
      <4> QED
        BY <3>2, <4>1, <4>2, <1>1, <1>5, <1>6 DEF Commit, Block
    <3>3. CASE j = Len(chain) + 1 /\ i = j
      BY <3>3, <1>1, <1>5, <1>6
    <3> QED
      BY <3>1, <3>2, <3>3, <1>6
  <2> QED
    BY <2>1, <2>2 DEF VersionsAreAhead
<1> QED
  BY <1>1, <1>5, <1>6, <1>7, <1>8, <1>9

\* A refused or failed commit leaves the chain as it is, and nothing applied.
LEMMA FailureKeepsNode ==
    ASSUME Inv, NEW b, CommitFails(b) \/ BlockRefused(b)
    PROVE  /\ UNCHANGED <<certified, chain, height, phase, view, block, cached, high, resets>>
           /\ applied' = {} /\ faults' \in 0 .. MaxFaults
           /\ version' \in Height /\ version' \in {version, version + 1}
           /\ NoStaleValidation' /\ VersionsAreAhead'
<1>1. /\ UNCHANGED <<certified, chain, height, phase, view, block, cached, high, resets>>
      /\ applied' = {} /\ version' \in {version, version + 1}
      /\ faults' = faults \/ (faults' = faults + 1 /\ faults < MaxFaults)
  BY DEF CommitFails, BlockRefused
<1>2. faults' \in 0 .. MaxFaults
  BY <1>1, BoundsAreNumbers DEF Inv, TypeOK, CommitTypeOK
<1> QED
  BY <1>1, <1>2, ChainKept

\* A block from the inbox is committed and signalled; falling behind stops consensus.
LEMMA CommitsKeepInv ==
    ASSUME Inv, Commits, UNCHANGED syncVars
    PROVE  Inv'
<1> USE DEF Inv
<1>1. CASE ListenForBlock
  <2>0. /\ UNCHANGED <<certified, phase, view, block, cached, high, syncing, faults>>
        /\ ~syncing /\ Len(resets) < MaxResets /\ resets' = Append(resets, "height")
        /\ HandlePeerBlock(Certificate(height))
    BY <1>1 DEF ListenForBlock
  <2>1. /\ chain' \in Seq(Commit) /\ version' \in Height /\ height' \in Height
        /\ height' = IF chain' = <<>> THEN 1 ELSE chain'[Len(chain')].version
        /\ applied' = {} /\ NoStaleValidation' /\ VersionsAreAhead'
    <3>1. Certificate(height) \in Block
      BY CertificateIsBlock DEF TypeOK, CommitTypeOK
    <3> QED
      BY <2>0, <3>1, CommitKeepsChain
  <2>2. /\ resets' \in Seq({"root", "height"}) /\ Len(resets') <= MaxResets /\ Signalled'
    BY <2>0, SignalWritten
  <2>3. TypeOK'
    BY <2>0, <2>1, <2>2 DEF TypeOK, CommitTypeOK, Commit
  <2>4. QueueIsTheWindow' /\ LoopIsSyncs'
    BY <2>0 DEF QueueIsTheWindow, LoopIsSyncs
  <2> QED
    BY <2>1, <2>2, <2>3, <2>4 DEF WillFollow, AppliedIsCached
<1>2. CASE ListenFails
  <2>1. /\ UNCHANGED <<certified, chain, height, phase, view, block, cached, high, resets, syncing>>
        /\ applied' = {} /\ faults' \in 0 .. MaxFaults
        /\ version' \in Height /\ NoStaleValidation' /\ VersionsAreAhead'
    BY <1>2, FailureKeepsNode DEF ListenFails
  <2>2. TypeOK'
    BY <2>1 DEF TypeOK, CommitTypeOK
  <2>3. WillFollow' /\ AppliedIsCached'
    BY <2>1 DEF WillFollow, AppliedIsCached, Signalled, AtChainHeight
  <2> QED
    BY <2>1, <2>2, <2>3, QueueKept
<1>3. CASE FallBehind
  <2>1. /\ UNCHANGED <<certified, chain, version, height, applied, phase, view, block, cached, high, resets, faults>>
        /\ ~syncing /\ syncing' = TRUE
    BY <1>3 DEF FallBehind
  <2>2. TypeOK'
    BY <2>1 DEF TypeOK, CommitTypeOK
  <2>3. QueueIsTheWindow' /\ LoopIsSyncs'
    BY <2>1 DEF QueueIsTheWindow, LoopIsSyncs
  <2> QED
    BY <2>1, <2>2, <2>3, ChainKept DEF WillFollow, AppliedIsCached
<1> QED
  BY <1>1, <1>2, <1>3 DEF Commits

\* The others' certificates only grow.
LEMMA CertifyKeepsInv ==
    ASSUME Inv, Certify, UNCHANGED syncVars
    PROVE  Inv'
<1> USE DEF Inv
<1>1. /\ UNCHANGED <<chain, version, height, applied, phase, view, block, cached, high, resets, syncing, faults>>
      /\ certified' \in 0 .. MaxHeight
  BY BoundsAreNumbers DEF Certify, TypeOK, CommitTypeOK
<1>2. TypeOK'
  BY <1>1 DEF TypeOK, CommitTypeOK
<1>3. WillFollow' /\ AppliedIsCached'
  BY <1>1 DEF WillFollow, AppliedIsCached, Signalled, AtChainHeight
<1> QED
  BY <1>1, <1>2, <1>3, QueueKept, ChainKept

\* What a step that only moves the sync loop keeps of the node.
LEMMA NodeKept ==
    ASSUME Inv, UNCHANGED commitVars
    PROVE  /\ CommitTypeOK' /\ AppliedIsCached' /\ NoStaleValidation' /\ WillFollow'
           /\ VersionsAreAhead'
BY DEF Inv, TypeOK, CommitTypeOK, AppliedIsCached, NoStaleValidation, WillFollow, Signalled,
       AtChainHeight, VersionsAreAhead

\* A poll starts a sync with an empty queue.
LEMMA PollKeepsInv ==
    ASSUME Inv, PollMaxHeight
    PROVE  Inv'
<1> USE DEF Inv
<1>1. PICK n \in 1 .. MaxHeight + 1 : target' = n
  BY DEF PollMaxHeight
<1>2. target' \in 0 .. MaxHeight + 1
  BY <1>1, BoundsAreNumbers
<1>3. /\ UNCHANGED <<commitVars, queue, cursor, handled>> /\ syncing
      /\ loop = "idle" /\ loop' = "select" /\ target = 0
  BY DEF PollMaxHeight, LoopIsSyncs
<1>4. QueueIsTheWindow'
  BY <1>3 DEF QueueIsTheWindow
<1> QED
  BY <1>2, <1>3, <1>4, NodeKept DEF TypeOK, LoopIsSyncs

\* A request is a request, whatever its state.
LEMMA RequestFields ==
    ASSUME NEW r \in Request
    PROVE  /\ r.peer \in Peer /\ r.at \in {"sent", "lost", "got", "wrong"} /\ r.old \in BOOLEAN
           /\ \A at \in {"lost", "got", "wrong"} : [r EXCEPT !.at = at] \in Request
           /\ [r EXCEPT !.old = TRUE] \in Request
BY DEF Request

\* A change of one request in the queue keeps the window.
LEMMA OneRequestKept ==
    ASSUME Inv, NEW h \in 1 .. MaxHeight, NEW r, queue[h] # None, r \in Request \cup {None},
           queue' = [queue EXCEPT ![h] = r], UNCHANGED <<chain, height, target, syncing>>
    PROVE  queue' \in [1 .. MaxHeight -> Request \cup {None}] /\ QueueIsTheWindow'
<1>1. queue \in [1 .. MaxHeight -> Request \cup {None}]
  BY DEF Inv, TypeOK
<1>2. \A k \in 1 .. MaxHeight : queue'[k] # None => queue[k] # None
  BY <1>1
<1>3. queue' \in [1 .. MaxHeight -> Request \cup {None}]
  BY <1>1
<1> QED
  BY <1>2, <1>3 DEF Inv, QueueIsTheWindow

\* Requests are sent for the window only.
LEMMA SendKeepsInv ==
    ASSUME Inv, SendBlockRequests
    PROVE  Inv'
<1> USE DEF Inv
<1>0. UNCHANGED <<commitVars, loop, target, cursor, handled>> /\ loop = "select"
  BY DEF SendBlockRequests, AtSelect
<1>1. PICK n \in Missing : \E f \in [{h \in Missing : h <= n} -> Peer] :
           queue' = [h \in 1 .. MaxHeight |->
                        IF h \in DOMAIN f THEN [peer |-> f[h], at |-> "sent", old |-> FALSE]
                        ELSE queue[h]]
  BY DEF SendBlockRequests
<1>2. PICK f \in [{h \in Missing : h <= n} -> Peer] :
           queue' = [h \in 1 .. MaxHeight |->
                        IF h \in DOMAIN f THEN [peer |-> f[h], at |-> "sent", old |-> FALSE]
                        ELSE queue[h]]
  BY <1>1
<1>3. queue \in [1 .. MaxHeight -> Request \cup {None}] /\ syncing
  BY <1>0 DEF TypeOK, LoopIsSyncs
<1>4. \A h \in 1 .. MaxHeight :
         /\ queue'[h] \in Request \cup {None}
         /\ h \in Missing \/ queue'[h] = queue[h]
  <2> SUFFICES ASSUME NEW h \in 1 .. MaxHeight
               PROVE  queue'[h] \in Request \cup {None} /\ (h \in Missing \/ queue'[h] = queue[h])
    OBVIOUS
  <2>1. CASE h \in DOMAIN f
    <3>1. h \in Missing /\ f[h] \in Peer
      BY <2>1
    <3> QED
      BY <2>1, <3>1, <1>2 DEF Request
  <2>2. CASE h \notin DOMAIN f
    BY <2>2, <1>2, <1>3
  <2> QED
    BY <2>1, <2>2
<1>5. queue' \in [1 .. MaxHeight -> Request \cup {None}]
  BY <1>2, <1>4
<1>6. QueueIsTheWindow'
  <2> SUFFICES ASSUME NEW h \in 1 .. MaxHeight, queue'[h] # None, h \in Missing
               PROVE  /\ syncing' /\ h < height' + QueueSize /\ h < target'
                      /\ \A i \in 1 .. Len(chain') : chain'[i].block.h # h
    BY <1>0, <1>4 DEF QueueIsTheWindow
  <2>1. h >= height /\ h < height + QueueSize /\ h < target
    BY DEF Missing
  <2>2. \A i \in 1 .. Len(chain) : chain[i].block.h # h
    BY <2>1, ChainIsBelow DEF TypeOK, CommitTypeOK
  <2> QED
    BY <2>1, <2>2, <1>0, <1>3
<1> QED
  BY <1>0, <1>5, <1>6, NodeKept DEF TypeOK, LoopIsSyncs

\* Losing, ageing and answering a request change that request only.
LEMMA RequestStepsKeepInv ==
    ASSUME Inv, NEW h \in 1 .. MaxHeight,
           Lose(h) \/ Age(h) \/ Answer(h) \/ WrongAnswer(h) \/ \E p \in Peer : Unsolicited(p, h)
    PROVE  Inv'
<1> USE DEF Inv
<1>t. queue \in [1 .. MaxHeight -> Request \cup {None}]
  BY DEF TypeOK
<1>1. CASE Lose(h)
  <2>0. /\ UNCHANGED <<certified, chain, version, height, applied, phase, view, block, cached, high, resets, syncing>>
        /\ UNCHANGED <<loop, target, cursor, handled>>
        /\ queue[h] # None /\ faults < MaxFaults /\ faults' = faults + 1
        /\ queue' = [queue EXCEPT ![h] = [queue[h] EXCEPT !.at = "lost"]]
    BY <1>1 DEF Lose
  <2>1. [queue[h] EXCEPT !.at = "lost"] \in Request
    BY <2>0, <1>t, RequestFields
  <2>2. queue' \in [1 .. MaxHeight -> Request \cup {None}] /\ QueueIsTheWindow'
    BY <2>0, <2>1, OneRequestKept
  <2>3. faults' \in 0 .. MaxFaults
    BY <2>0, BoundsAreNumbers DEF TypeOK, CommitTypeOK
  <2>4. TypeOK'
    BY <2>0, <2>2, <2>3 DEF TypeOK, CommitTypeOK
  <2>5. WillFollow' /\ AppliedIsCached' /\ LoopIsSyncs'
    BY <2>0 DEF WillFollow, AppliedIsCached, Signalled, AtChainHeight, LoopIsSyncs
  <2> QED
    BY <2>0, <2>2, <2>4, <2>5, ChainKept
<1>2. CASE Age(h)
  <2>0. /\ UNCHANGED <<commitVars, loop, target, cursor, handled>> /\ queue[h] # None
        /\ queue' = [queue EXCEPT ![h] = [queue[h] EXCEPT !.old = TRUE]]
    BY <1>2 DEF Age
  <2>1. [queue[h] EXCEPT !.old = TRUE] \in Request
    BY <2>0, <1>t, RequestFields
  <2>2. queue' \in [1 .. MaxHeight -> Request \cup {None}] /\ QueueIsTheWindow'
    BY <2>0, <2>1, OneRequestKept
  <2> QED
    BY <2>0, <2>2, NodeKept DEF TypeOK, LoopIsSyncs
<1>3. ASSUME NEW p, NEW what \in {"got", "wrong"}, Received(p, h, what)
      PROVE  Inv'
  <2>0. /\ UNCHANGED <<commitVars, target>> /\ loop = "select" /\ loop' = "process"
        /\ cursor' = height /\ handled' = FALSE
        /\ \/ queue' = queue
           \/ queue[h] # None /\ queue' = [queue EXCEPT ![h] = [queue[h] EXCEPT !.at = what]]
    <3>1. CASE queue[h] # None /\ queue[h].peer = p
      BY <1>3, <3>1 DEF Received, AtSelect
    <3>2. CASE ~(queue[h] # None /\ queue[h].peer = p)
      BY <1>3, <3>2 DEF Received, AtSelect
    <3> QED
      BY <3>1, <3>2
  <2>1. queue' \in [1 .. MaxHeight -> Request \cup {None}] /\ QueueIsTheWindow'
    <3>1. CASE queue' = queue
      BY <3>1, <2>0, <1>t DEF QueueIsTheWindow
    <3>2. CASE queue[h] # None /\ queue' = [queue EXCEPT ![h] = [queue[h] EXCEPT !.at = what]]
      <4>1. [queue[h] EXCEPT !.at = what] \in Request
        BY <3>2, <1>t, RequestFields
      <4> QED
        BY <3>2, <4>1, <2>0, OneRequestKept
    <3> QED
      BY <3>1, <3>2, <2>0
  <2>2. syncing /\ height \in Height
    BY <2>0 DEF LoopIsSyncs, TypeOK, CommitTypeOK
  <2> QED
    BY <2>0, <2>1, <2>2, NodeKept DEF TypeOK, LoopIsSyncs
<1>4. CASE Answer(h)
  BY <1>4, <1>3 DEF Answer
<1>5. CASE WrongAnswer(h)
  BY <1>5, <1>3 DEF WrongAnswer
<1>6. ASSUME NEW p \in Peer, Unsolicited(p, h) PROVE Inv'
  BY <1>6, <1>3 DEF Unsolicited
<1> QED
  BY <1>1, <1>2, <1>4, <1>5, <1>6

\* A block from the queue is committed, or fails, and its request is gone.
LEMMA ProcessKeepsInv ==
    ASSUME Inv, ProcessQueue \/ ProcessFails
    PROVE  Inv'
<1> USE DEF Inv
<1>t. /\ queue \in [1 .. MaxHeight -> Request \cup {None}] /\ target \in 0 .. MaxHeight + 1
      /\ height \in Height /\ cursor \in Nat
  BY DEF TypeOK, CommitTypeOK
<1>1. /\ loop = "process" /\ syncing /\ cursor < target /\ cursor # 0
      /\ queue' = [queue EXCEPT ![cursor] = None]
  BY DEF ProcessQueue, ProcessFails, HasNext, Delete, LoopIsSyncs
<1>2. cursor \in 1 .. MaxHeight
  BY <1>1, <1>t, BoundsAreNumbers
<1>3. /\ queue' \in [1 .. MaxHeight -> Request \cup {None}]
      /\ \A h \in 1 .. MaxHeight : queue'[h] # None => queue[h] # None /\ h # cursor
  BY <1>1, <1>2, <1>t
<1>4. CASE ProcessQueue
  <2>0. /\ UNCHANGED <<certified, phase, view, block, cached, high, resets, syncing, faults, loop, target>>
        /\ cursor' = cursor + 1 /\ handled' = TRUE
    BY <1>4 DEF ProcessQueue
  <2>1. PICK b \in InHand : HandlePeerBlock(b)
    BY <1>4 DEF ProcessQueue
  <2>2. b \in Block /\ b.h = cursor
    BY <1>1, <1>t, NamesOfBlocks DEF InHand, Block
  <2>3. /\ chain' \in Seq(Commit) /\ version' \in Height /\ height' \in Height
        /\ height' = IF chain' = <<>> THEN 1 ELSE chain'[Len(chain')].version
        /\ b.h = height /\ height' > height
        /\ Len(chain') = Len(chain) + 1 /\ chain'[Len(chain) + 1].block = b
        /\ Len(chain) \in Nat /\ \A i \in 1 .. Len(chain) : chain'[i] = chain[i]
        /\ applied' = {} /\ NoStaleValidation' /\ VersionsAreAhead'
    BY <2>0, <2>1, <2>2, CommitKeepsChain
  <2>4. TypeOK'
    BY <2>0, <2>3, <1>3, <1>t DEF TypeOK, CommitTypeOK, Commit
  <2>5. QueueIsTheWindow'
    <3> SUFFICES ASSUME NEW h \in 1 .. MaxHeight, queue'[h] # None
                 PROVE  /\ syncing' /\ h < height' + QueueSize /\ h < target'
                        /\ \A i \in 1 .. Len(chain') : chain'[i].block.h # h
      BY DEF QueueIsTheWindow
    <3>1. /\ h < height + QueueSize /\ h < target /\ h # cursor
          /\ \A i \in 1 .. Len(chain) : chain[i].block.h # h
      BY <1>3 DEF QueueIsTheWindow
    <3>2. h < height' + QueueSize
      BY <3>1, <2>3, <1>t, WindowIsOpen
    <3>3. \A i \in 1 .. Len(chain') : chain'[i].block.h # h
      BY <3>1, <2>2, <2>3
    <3> QED
      BY <3>1, <3>2, <3>3, <2>0, <1>1
  <2>6. LoopIsSyncs'
    BY <2>0, <1>1, <1>t DEF LoopIsSyncs
  <2> QED
    BY <2>0, <2>3, <2>4, <2>5, <2>6, <1>1 DEF WillFollow, AppliedIsCached
<1>5. CASE ProcessFails
  <2>0. /\ UNCHANGED <<certified, chain, height, phase, view, block, cached, high, resets, syncing, target,
                       cursor, handled>>
        /\ applied' \in {applied, {}} /\ loop' = "timeouts"
        /\ faults' \in 0 .. MaxFaults
        /\ version' \in Height /\ NoStaleValidation' /\ VersionsAreAhead'
    <3>1. UNCHANGED <<syncing, target, cursor, handled>> /\ loop' = "timeouts"
      BY <1>5 DEF ProcessFails
    <3>2. CASE \E b \in InHand : CommitFails(b) \/ BlockRefused(b)
      BY <3>1, <3>2, FailureKeepsNode
    <3>3. CASE /\ UNCHANGED <<certified, chain, version, height, phase, view, block, cached, high, resets, faults>>
               /\ applied' \in {applied, {}}
      BY <3>1, <3>3, ChainKept DEF TypeOK, CommitTypeOK
    <3> QED
      BY <3>2, <3>3, <1>5 DEF ProcessFails
  <2>1. TypeOK'
    BY <2>0, <1>3 DEF TypeOK, CommitTypeOK
  <2>2. QueueIsTheWindow'
    BY <2>0, <1>3 DEF QueueIsTheWindow
  <2> QED
    BY <2>0, <2>1, <2>2, <1>1 DEF WillFollow, AppliedIsCached, LoopIsSyncs
<1> QED
  BY <1>4, <1>5

\* The end of a turn only removes requests, and what is to be reached only grows.
LEMMA TurnKeepsInv ==
    ASSUME Inv, ApplyTimeouts
    PROVE  Inv'
<1> USE DEF Inv
<1>0. /\ UNCHANGED commitVars /\ loop' = "select" /\ cursor' = 0 /\ handled' = FALSE
      /\ queue' = Unexpired /\ loop # "idle"
      /\ target' = target \/ \E n \in target .. MaxHeight + 1 : target' = n
  BY DEF ApplyTimeouts
<1>1. /\ queue \in [1 .. MaxHeight -> Request \cup {None}] /\ target \in 0 .. MaxHeight + 1
      /\ certified \in 0 .. MaxHeight
  BY DEF TypeOK, CommitTypeOK
<1>2. target' \in 0 .. MaxHeight + 1 /\ target' >= target
  <2>1. CASE target' = target
    BY <2>1, <1>1, BoundsAreNumbers
  <2>2. ASSUME NEW n \in target .. MaxHeight + 1, target' = n PROVE <1>2
    BY <2>2, <1>1, BoundsAreNumbers
  <2> QED
    BY <2>1, <2>2, <1>0
<1>3. /\ queue' \in [1 .. MaxHeight -> Request \cup {None}]
      /\ \A h \in 1 .. MaxHeight : queue'[h] # None => queue[h] # None
  BY <1>0, <1>1 DEF Unexpired
<1>4. QueueIsTheWindow'
  <2> SUFFICES ASSUME NEW h \in 1 .. MaxHeight, queue'[h] # None
               PROVE  /\ syncing' /\ h < height' + QueueSize /\ h < target'
                      /\ \A i \in 1 .. Len(chain') : chain'[i].block.h # h
    BY DEF QueueIsTheWindow
  <2>1. /\ syncing /\ h < height + QueueSize /\ h < target
        /\ \A i \in 1 .. Len(chain) : chain[i].block.h # h
    BY <1>3 DEF QueueIsTheWindow
  <2>2. h < target'
    BY <2>1, <1>1, <1>2, BoundsAreNumbers
  <2> QED
    BY <2>1, <2>2, <1>0
<1> QED
  BY <1>0, <1>2, <1>3, <1>4, NodeKept DEF TypeOK, LoopIsSyncs

\* The end of a sync signals consensus.
LEMMA FinishKeepsInv ==
    ASSUME Inv, FinishSyncing
    PROVE  Inv'
<1> USE DEF Inv
<1>0. /\ UNCHANGED <<certified, chain, version, height, applied, phase, view, block, cached, high, faults, cursor, handled>>
      /\ Len(resets) < MaxResets /\ resets' = Append(resets, "height") /\ syncing' = FALSE
      /\ loop' = "idle" /\ target' = 0 /\ queue' = NoQueue
  BY DEF FinishSyncing
<1>1. resets' \in Seq({"root", "height"}) /\ Len(resets') <= MaxResets /\ Signalled'
  BY <1>0, SignalWritten
<1>2. queue' \in [1 .. MaxHeight -> Request \cup {None}] /\ QueueIsTheWindow'
  BY <1>0 DEF NoQueue, QueueIsTheWindow
<1>3. target' \in 0 .. MaxHeight + 1
  BY <1>0, BoundsAreNumbers
<1>4. CommitTypeOK'
  BY <1>0, <1>1 DEF TypeOK, CommitTypeOK
<1>5. TypeOK'
  BY <1>0, <1>2, <1>3, <1>4 DEF TypeOK
<1>6. NoStaleValidation' /\ VersionsAreAhead'
  BY <1>0, ChainKept
<1>7. WillFollow' /\ AppliedIsCached' /\ LoopIsSyncs'
  BY <1>0, <1>1 DEF WillFollow, AppliedIsCached, LoopIsSyncs
<1> QED
  BY <1>2, <1>5, <1>6, <1>7

\* A restart keeps a prefix of the chain and nothing else.
LEMMA RestartKeepsInv ==
    ASSUME Inv, Restart
    PROVE  Inv'
<1> USE DEF Inv
<1>0. /\ UNCHANGED certified /\ faults < MaxFaults /\ faults' = faults + 1
      /\ applied' = {} /\ resets' = <<>> /\ syncing' = TRUE /\ height' = version'
      /\ phase' = "Waiting" /\ view' = height' /\ block' = None /\ cached' = None /\ high' = None
      /\ loop' = "idle" /\ target' = 0 /\ queue' = NoQueue /\ cursor' = 0 /\ handled' = FALSE
  BY DEF Restart, Restarts
<1>1. PICK n \in 0 .. Len(chain) : /\ chain' = SubSeq(chain, 1, n)
                                  /\ version' = IF n = 0 THEN 1 ELSE chain[n].version
  BY DEF Restart, Restarts
<1>2. chain \in Seq(Commit)
  BY DEF TypeOK, CommitTypeOK, Commit
<1>3. Len(chain) \in Nat /\ n \in Nat /\ n <= Len(chain)
  BY <1>2, LenProperties
<1>4. /\ chain' \in Seq(Commit) /\ Len(chain') = n
      /\ \A i \in 1 .. n : chain'[i] = chain[i] /\ chain[i] \in Commit
  <2>1. \A i \in 1 .. n : chain[i] \in Commit
    BY <1>2, <1>3, ElementOfSeq
  <2>2. /\ SubSeq(chain, 1, n) \in Seq(Commit)
        /\ Len(SubSeq(chain, 1, n)) = IF 1 <= n THEN n - 1 + 1 ELSE 0
        /\ \A i \in 1 .. n - 1 + 1 : SubSeq(chain, 1, n)[i] = chain[1 + i - 1]
    BY <2>1, <1>3, SubSeqProperties
  <2>3. Len(SubSeq(chain, 1, n)) = n /\ n - 1 + 1 = n /\ \A i \in 1 .. n : 1 + i - 1 = i
    BY <2>2, <1>3
  <2>4. \A i \in 1 .. n : SubSeq(chain, 1, n)[i] = chain[i]
    BY <2>2, <2>3
  <2> QED
    BY <2>1, <2>2, <2>3, <2>4, <1>1
<1>5. /\ version' \in Height /\ height' \in Height
      /\ height' = IF chain' = <<>> THEN 1 ELSE chain'[Len(chain')].version
  <2>1. CASE n = 0
    BY <2>1, <1>0, <1>1, <1>4, EmptySeq
  <2>2. CASE n # 0
    <3>1. n \in 1 .. n /\ chain' # <<>>
      BY <2>2, <1>3, <1>4
    <3>2. chain'[n] = chain[n] /\ chain[n] \in Commit
      BY <3>1, <1>4
    <3> QED
      BY <2>2, <3>1, <3>2, <1>0, <1>1, <1>4 DEF Commit
  <2> QED
    BY <2>1, <2>2
<1>6. faults' \in 0 .. MaxFaults
  BY <1>0, BoundsAreNumbers DEF TypeOK, CommitTypeOK
<1>7. queue' \in [1 .. MaxHeight -> Request \cup {None}] /\ QueueIsTheWindow'
  BY <1>0 DEF NoQueue, QueueIsTheWindow
<1>8. NoStaleValidation' /\ VersionsAreAhead'
  <2>1. NoStaleValidation'
    BY <1>3, <1>4 DEF NoStaleValidation
  <2>2. ASSUME NEW j \in 1 .. n, NEW i \in 1 .. j
        PROVE  chain'[i].block.h < chain'[j].version
    BY <1>3, <1>4 DEF VersionsAreAhead
  <2> QED
    BY <2>1, <2>2, <1>0, <1>4, <1>5 DEF VersionsAreAhead
<1>9. resets' \in Seq({"root", "height"}) /\ Len(resets') <= MaxResets
  BY <1>0, BoundsAreNumbers
<1>10. CommitTypeOK'
  BY <1>0, <1>4, <1>5, <1>6, <1>9 DEF TypeOK, CommitTypeOK, Commit
<1>11. target' \in 0 .. MaxHeight + 1
  BY <1>0, BoundsAreNumbers
<1>12. TypeOK'
  BY <1>0, <1>7, <1>10, <1>11 DEF TypeOK
<1>13. WillFollow' /\ AppliedIsCached' /\ LoopIsSyncs'
  BY <1>0 DEF WillFollow, AppliedIsCached, LoopIsSyncs
<1> QED
  BY <1>7, <1>8, <1>12, <1>13

-----------------------------------------------------------------------------
(* Theorems. *)

\* Every step of the node keeps the invariant.
LEMMA StepKeepsInv == Inv /\ [Next]_vars => Inv'
<1> SUFFICES ASSUME Inv, [Next]_vars PROVE Inv'
  OBVIOUS
<1>1. CASE CommitNext /\ UNCHANGED syncVars
  BY <1>1, CertifyKeepsInv, PhasesKeepInv, HandleResetKeepsInv, RootUpdateKeepsInv,
     CommitsKeepInv DEF CommitNext
<1>2. CASE Sync
  BY <1>2, PollKeepsInv, SendKeepsInv, RequestStepsKeepInv, ProcessKeepsInv, TurnKeepsInv,
     FinishKeepsInv DEF Sync
<1>3. CASE Restart
  BY <1>3, RestartKeepsInv
<1>4. CASE UNCHANGED vars
  <2>1. UNCHANGED <<commitVars, syncVars>>
    BY <1>4 DEF vars
  <2>2. /\ CommitTypeOK' /\ AppliedIsCached' /\ NoStaleValidation' /\ WillFollow'
        /\ VersionsAreAhead'
    BY <2>1, NodeKept
  <2>3. QueueIsTheWindow' /\ LoopIsSyncs'
    BY <2>1, QueueKept DEF Inv
  <2> QED
    BY <2>1, <2>2, <2>3 DEF Inv, TypeOK
<1> QED
  BY <1>1, <1>2, <1>3, <1>4 DEF Next

\* The invariant holds of every state the node reaches.
THEOREM Inductive == Spec => []Inv
BY InitInv, StepKeepsInv, PTL DEF Spec

\* The node's variables keep their types: in particular the height is the version under
\* which the last block was written (block.go CommitCertificate, state.go Initialize).
THEOREM TypeCorrect == Spec => []TypeOK
<1>1. Inv => TypeOK
  BY DEF Inv
<1> QED
  BY <1>1, Inductive, PTL

\* No commit carries the changes of another proposal than the committed block, whatever
\* was validated, interrupted, reset or restarted before (block.go CommitCertificate).
THEOREM CommitsAreNotMixed == Spec => []NoStaleValidation
<1>1. Inv => NoStaleValidation
  BY DEF Inv
<1> QED
  BY <1>1, Inductive, PTL

\* With no signal pending, consensus and its lock are at the height to come (bft.go
\* NewHeight, NewRound): the signals of commits, syncs and root blocks may queue up in
\* any order and phases may run between them.
THEOREM ConsensusFollows == Spec => []ConsensusFollowsTheChain
<1>1. Inv => ConsensusFollowsTheChain
  <2> SUFFICES ASSUME Inv, resets = <<>>, ~syncing
               PROVE  view = height /\ (high # None => high.h = height)
    BY DEF ConsensusFollowsTheChain
  <2>1. ~Signalled
    BY DEF Signalled
  <2> QED
    BY <2>1 DEF Inv, WillFollow, AtChainHeight
<1> QED
  BY <1>1, Inductive, PTL

\* No request of the sync loop is for a committed height or beyond the window, for every
\* size of the window and every order of answers, made-up blocks, timeouts, failures and
\* skipped heights (consensus.go Sync).
THEOREM WindowIsKept == Spec => []QueueIsTheWindow
<1>1. Inv => QueueIsTheWindow
  BY DEF Inv
<1> QED
  BY <1>1, Inductive, PTL
=============================================================================
