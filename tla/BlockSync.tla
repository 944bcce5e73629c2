------------------------------ MODULE BlockSync -----------------------------
(***************************************************************************)
(* The node of BlockCommit with its sync loop (controller/consensus.go):   *)
(* a window of block requests to random peers, answers in any order, late, *)
(* lost or of the wrong peer, requests that time out, blocks that are      *)
(* committed in order.  Of the loop's select only an inbound block leads   *)
(* to the queue being processed and to timeouts being applied.  Nobody's   *)
(* signature is checked here: a peer may answer with a block of its own,   *)
(* or tell of heights that the chain has not reached.                      *)
(***************************************************************************)
EXTENDS BlockCommit

CONSTANTS Peer, QueueSize       \* blockSyncQueueSize
ASSUME WindowIsOpen == QueueSize \in Nat \ {0}

VARIABLES
    loop,       \* where Sync() is
    target,     \* maxHeight
    queue,      \* the request for each height, or None
    cursor,     \* processQueue: the height of the block to be handled next
    handled     \* processQueue committed a block in this turn

syncVars == <<loop, target, queue, cursor, handled>>
vars == <<commitVars, syncVars>>

Request == [peer : Peer, at : {"sent", "lost", "got", "wrong"}, old : BOOLEAN]
NoQueue == [h \in 1 .. MaxHeight |-> None]

Init ==
    /\ CommitInit
    /\ loop = "idle" /\ target = 0 /\ queue = NoQueue /\ cursor = 0 /\ handled = FALSE

\* the heights of answering peers are polled, and taken at their word
PollMaxHeight ==
    /\ syncing /\ loop = "idle"
    /\ \E n \in 1 .. MaxHeight + 1 : target' = n
    /\ loop' = "select"
    /\ UNCHANGED <<commitVars, queue, cursor, handled>>

syncingDone == height >= target
AtSelect == loop = "select" /\ ~syncingDone

Missing == {h \in 1 .. MaxHeight : h >= height /\ h < height + QueueSize /\ h < target /\ queue[h] = None}

\* requests for missing heights, lowest first, until all peers are at their limit
SendBlockRequests ==
    /\ AtSelect
    /\ \E n \in Missing :
         \E f \in [{h \in Missing : h <= n} -> Peer] :
           queue' = [h \in 1 .. MaxHeight |->
                        IF h \in DOMAIN f THEN [peer |-> f[h], at |-> "sent", old |-> FALSE]
                        ELSE queue[h]]
    /\ UNCHANGED <<commitVars, loop, target, cursor, handled>>

\* the peer does not have the block, left, or the message is lost
Lose(h) ==
    /\ queue[h] # None /\ queue[h].at = "sent" /\ faults < MaxFaults
    /\ queue' = [queue EXCEPT ![h].at = "lost"]
    /\ faults' = faults + 1
    /\ UNCHANGED <<network, node, consensus, resets, syncing, loop, target, cursor, handled>>

\* five seconds pass
Age(h) ==
    /\ queue[h] # None /\ ~queue[h].old
    /\ queue' = [queue EXCEPT ![h].old = TRUE]
    /\ UNCHANGED <<commitVars, loop, target, cursor, handled>>

\* verifyResponse: a block of height h from peer p
Received(p, h, what) ==
    /\ AtSelect
    /\ queue' = IF queue[h] # None /\ queue[h].peer = p THEN [queue EXCEPT ![h].at = what] ELSE queue
    /\ loop' = "process" /\ cursor' = height /\ handled' = FALSE
    /\ UNCHANGED <<commitVars, target>>

Answer(h) ==
    /\ queue[h] # None /\ queue[h].at = "sent" /\ h <= certified
    /\ Received(queue[h].peer, h, "got")

\* a block that a peer gossips, or an answer that comes after its timeout
Unsolicited(p, h) == h <= certified /\ Received(p, h, "got")

\* a block that a peer made up
WrongAnswer(h) == queue[h] # None /\ Received(queue[h].peer, h, "wrong")

HasNext == cursor < target /\ queue[cursor] # None /\ queue[cursor].at \in {"got", "wrong"}

\* the block in the queue
InHand == {[h |-> cursor, id |-> id] : id \in IF queue[cursor].at = "got" THEN {Final} ELSE Id \ {Final}}

\* the request for a height leaves the queue before its block is handled
MutDelete(h) == queue
Delete(h) == [queue EXCEPT ![h] = None]

\* processQueue commits the next block
ProcessQueue ==
    /\ loop = "process" /\ HasNext
    /\ \E b \in InHand : HandlePeerBlock(b)
    /\ queue' = Delete(cursor)
    /\ cursor' = cursor + 1 /\ handled' = TRUE
    /\ UNCHANGED <<network, consensus, resets, syncing, faults, loop, target>>

\* or fails to, and gives up for this turn: the commit fails, or the block is not the one
\* to come, does not continue the chain or, if it was made up, does not apply
ProcessFails ==
    /\ loop = "process" /\ HasNext
    /\ \/ \E b \in InHand : CommitFails(b) \/ BlockRefused(b)
       \/ cursor # height /\ UNCHANGED <<network, node, consensus, resets, faults>>
       \/ /\ queue[cursor].at = "wrong" /\ cursor = height /\ applied' \in {applied, {}}
          /\ UNCHANGED <<network, chain, version, height, consensus, resets, faults>>
    /\ queue' = Delete(cursor)
    /\ loop' = "timeouts"
    /\ UNCHANGED <<syncing, target, cursor, handled>>

\* applyTimeouts
MutUnexpired == [h \in 1 .. MaxHeight |-> queue[h]]
Unexpired == [h \in 1 .. MaxHeight |->
                 IF queue[h] # None /\ queue[h].old THEN None ELSE queue[h]]

\* the turn ends: peers of committed blocks may have told of greater heights, which they
\* are trusted to have reached
ApplyTimeouts ==
    /\ loop = "timeouts" \/ (loop = "process" /\ ~HasNext)
    /\ \/ target' = target
       \/ handled /\ \E n \in target .. MaxHeight + 1 : target' = n
    /\ queue' = Unexpired
    /\ loop' = "select" /\ cursor' = 0 /\ handled' = FALSE
    /\ UNCHANGED commitVars

FinishSyncing ==
    /\ loop = "select" /\ syncingDone /\ Len(resets) < MaxResets
    /\ resets' = Append(resets, "height")
    /\ syncing' = FALSE
    /\ loop' = "idle" /\ target' = 0 /\ queue' = NoQueue /\ UNCHANGED <<cursor, handled>>
    /\ UNCHANGED <<network, node, consensus, faults>>

Restart ==
    /\ Restarts
    /\ loop' = "idle" /\ target' = 0 /\ queue' = NoQueue /\ cursor' = 0 /\ handled' = FALSE

Sync ==
    \/ PollMaxHeight \/ SendBlockRequests
    \/ \E h \in 1 .. MaxHeight :
         \/ Lose(h) \/ Age(h) \/ Answer(h) \/ WrongAnswer(h)
         \/ \E p \in Peer : Unsolicited(p, h)
    \/ ProcessQueue \/ ProcessFails \/ ApplyTimeouts \/ FinishSyncing
Next == (CommitNext /\ UNCHANGED syncVars) \/ Sync \/ Restart
Spec == Init /\ [][Next]_vars

\* Sync() goes on, select serves every channel that keeps being ready, time passes and
\* the signals are read; the committee goes on certifying and gossiping blocks, and among
\* the peers picked at random for the height to come there is, time and again, one that
\* answers with the certified block.
Fairness ==
    /\ WF_vars(PollMaxHeight \/ ProcessQueue \/ ProcessFails \/ ApplyTimeouts)
    /\ WF_vars(Certify /\ UNCHANGED syncVars)
    /\ WF_vars(HandleReset /\ UNCHANGED syncVars)
    /\ SF_vars(FinishSyncing) /\ SF_vars(SendBlockRequests)
    /\ SF_vars(\E h \in 1 .. MaxHeight, p \in Peer : Unsolicited(p, h))
    /\ \A h \in 1 .. MaxHeight : WF_vars(Age(h))
    /\ SF_vars(\E h \in 1 .. MaxHeight : h = height /\ Answer(h))
FairSpec == Spec /\ Fairness

(***************************************************************************)
(* Properties.                                                             *)
(***************************************************************************)
TypeOK ==
    /\ CommitTypeOK
    /\ loop \in {"idle", "select", "process", "timeouts"}
    /\ target \in 0 .. MaxHeight + 1
    /\ queue \in [1 .. MaxHeight -> Request \cup {None}]
    /\ cursor \in Nat /\ handled \in BOOLEAN

\* The queue is the window above the chain: no request is left behind for a committed
\* height, none is ahead of the window or of what was polled, whatever peers answer and
\* whichever commits fail, a height that a failed write makes the node skip included.
QueueIsTheWindow ==
    \A h \in 1 .. MaxHeight :
        queue[h] # None => /\ syncing /\ h < height + QueueSize /\ h < target
                           /\ \A i \in 1 .. Len(chain) : chain[i].block.h # h

\* The chain left the committee's: a peer's block was committed that nobody certified, or
\* the commit after a failed write took the height on by more than one.
Misled ==
    \/ \E i \in 1 .. Len(chain) : chain[i].block.id # Final
    \/ height # Len(chain) + 1

\* A sync ends, unless it follows a peer that makes up blocks or skips a height: losses,
\* other failures, refused answers and heights that the chain has yet to reach only
\* delay it.
SyncCompletes == syncing ~> ~syncing \/ Misled
=============================================================================
