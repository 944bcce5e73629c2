------------------------------ MODULE Mempool -------------------------------
(***************************************************************************)
(* The pool of unconfirmed transactions (lib/mempool.go) and the three     *)
(* goroutines that share it under its lock L (controller/tx.go, block.go): *)
(* the listener adds batches received from peers or from the RPC server,   *)
(* the checker applies the whole pool to a copy of the state now and then, *)
(* evicts what fails and caches a block proposal, and a commit removes the *)
(* transactions of its block and checks the pool again at the new height.  *)
(*                                                                         *)
(* A step that holds L for long keeps it across steps, in `holder'.  An    *)
(* operator named Mut... is a defective form of the definition that        *)
(* follows it.                                                             *)
(***************************************************************************)
EXTENDS Integers, SequencesExt

CONSTANTS
    Tx,                  \* transactions, valid or not
    Malformed,           \* those that are too large, or that CheckBasic refuses
    Fee,                 \* Tx -> the fee it is stored with
    Size,                \* Tx -> its length in bytes
    Batch,               \* the lists of transactions that may be received
    MaxTotalBytes, MaxTransactionCount, DropPercentage, \* MempoolConfig
    ChecksFail,          \* whether a check may fail by itself (store, plugin)
    MaxBatches,          \* bound on the batches received
    MaxHeight            \* bound on the blocks committed

ASSUME TxAssumption ==
    /\ Fee \in [Tx -> Nat] /\ Size \in [Tx -> Nat \ {0}]
    /\ Malformed \subseteq Tx /\ Batch \subseteq Seq(Tx)
ASSUME ConfigAssumption ==
    /\ MaxTotalBytes \in Nat /\ MaxTransactionCount \in Nat \ {0}
    /\ DropPercentage \in 1 .. 100
    /\ ChecksFail \in BOOLEAN /\ {MaxBatches, MaxHeight} \subseteq Nat

VARIABLES
    pool,      \* MempoolTxs.s; its map m holds the same transactions
    txsBytes,  \* FeeMempool.txsBytes
    holder,    \* who holds L: "none", "add", "check" or "commit"
    cancelled, \* whether the context of the running check is cancelled
    proposal,  \* cachedProposal: its height and transactions
    committing, \* whether a commit is under way, from its call of stop() on
    block,     \* the transactions of its block
    chain,     \* the transactions of committed blocks
    height,    \* the number of committed blocks
    handled    \* the number of batches received

vars == <<pool, txsBytes, holder, cancelled, proposal, committing, block, chain,
          height, handled>>
chainVars == <<committing, block, chain, height>>

Pooled == ToSet(pool)
Bytes(S) == SumFunctionOnSet(Size, S)

\* Controller.Start checks the empty pool before it starts the goroutines.
Init ==
    /\ pool = << >> /\ txsBytes = 0
    /\ holder = "none" /\ cancelled = FALSE
    /\ proposal = [height |-> 0, txs |-> {}]
    /\ committing = FALSE /\ block = {} /\ chain = {} /\ height = 0
    /\ handled = 0

-----------------------------------------------------------------------------
(* FeeMempool *)

\* the positions of a batch that are read before an error ends the reading
Read(batch) == {i \in DOMAIN batch : \A j \in 1 .. i : batch[j] \notin Malformed}

\* those that count: what the pool holds is skipped, what the batch repeats is not
Counted(batch) == {i \in Read(batch) : batch[i] \notin Pooled}
CountedBytes(batch) ==
    SumFunctionOnSet([i \in DOMAIN batch |-> Size[batch[i]]], Counted(batch))

MutByFee(S) == SetToSeqs(S)
\* sort.Slice by fee, highest first; equal fees come in any order
ByFee(S) ==
    {s \in SetToSeqs(S) : \A i, j \in DOMAIN s : i < j => Fee[s[i]] >= Fee[s[j]]}

\* MempoolTxs.insert, which drops repetitions
Inserted(batch) == ByFee(Pooled \cup ToSet(batch))

\* AddTransactions up to the loop that evicts; an error leaves it at once
HandleTransactions(batch) ==
    /\ holder = "none" /\ handled < MaxBatches
    /\ handled' = handled + 1
    /\ txsBytes' = txsBytes + CountedBytes(batch)
    /\ \/ /\ Read(batch) # DOMAIN batch
          /\ UNCHANGED <<pool, holder>>
       \/ /\ Read(batch) = DOMAIN batch
          /\ pool' \in Inserted(batch)
          /\ holder' = "add"
    /\ UNCHANGED <<cancelled, proposal, chainVars>>

Overfull == Len(pool) >= MaxTransactionCount \/ txsBytes > MaxTotalBytes

\* how many of the pool one round of eviction drops, from the bottom
numDrop ==
    LET n == (Len(pool) * DropPercentage) \div 100 + 1
    IN  IF n >= Len(pool) THEN Len(pool) ELSE n

\* one round of the loop of AddTransactions
Evict ==
    /\ holder = "add" /\ Overfull
    /\ pool' = SubSeq(pool, 1, Len(pool) - numDrop)
    /\ txsBytes' = txsBytes - Bytes(Pooled \ ToSet(pool'))
    /\ UNCHANGED <<holder, cancelled, proposal, chainVars, handled>>

AddReturns ==
    /\ holder = "add" /\ ~Overfull
    /\ holder' = "none"
    /\ UNCHANGED <<pool, txsBytes, cancelled, proposal, chainVars, handled>>

MutDeletedBytes(S) == Bytes(S)
\* the bytes that a deletion takes off: those of what it found
DeletedBytes(S) == Bytes(S \cap Pooled)

\* the pool without S: the others keep their order
Kept(S) ==
    {q \in SetToSeqs(Pooled \ S) : \A i, j \in DOMAIN q : i < j =>
        \E k, l \in DOMAIN pool : k < l /\ q[i] = pool[k] /\ q[j] = pool[l]}

DeleteTransaction(S) ==
    /\ pool' \in Kept(S)
    /\ txsBytes' = txsBytes - DeletedBytes(S)

-----------------------------------------------------------------------------
(* Checking the pool *)

\* The checker resets the copy of the state and starts a check of its own.
CheckMempool ==
    /\ holder = "none"
    /\ holder' = "check" /\ cancelled' = FALSE
    /\ UNCHANGED <<pool, txsBytes, proposal, chainVars, handled>>

\* The pool is applied to the copy of the state.  Transactions of the chain
\* fail (CheckReplay), others may; the first n of the pool fit a block.  A check that
\* stops with an error changes nothing.
FinishCheck ==
    /\ holder \in {"check", "commit"}
    /\ \/ /\ cancelled \/ ChecksFail
          /\ UNCHANGED <<pool, txsBytes, proposal>>
       \/ \E failed \in SUBSET Pooled :
             /\ Pooled \cap chain \subseteq failed
             /\ \E n \in 0 .. Len(pool) :
                   proposal' = [height |-> height, txs |-> {pool[i] : i \in 1 .. n} \ failed]
             /\ DeleteTransaction(failed)
    /\ holder' = "none"
    /\ committing' = (committing /\ holder = "check")
    /\ UNCHANGED <<cancelled, block, chain, height, handled>>

-----------------------------------------------------------------------------
(* CommitCertificate *)

\* stop() cancels the check that is running, if any, before L is taken.
CommitCertificate(S) ==
    /\ ~committing /\ height < MaxHeight
    /\ committing' = TRUE /\ block' = S
    /\ cancelled' = TRUE
    /\ UNCHANGED <<pool, txsBytes, holder, proposal, chain, height, handled>>

\* The block is refused, or its transactions leave the pool and the store does
\* not take it: the commit returns an error and its height is tried again.
CommitFails ==
    /\ committing /\ holder = "none"
    /\ \/ UNCHANGED <<pool, txsBytes>>
       \/ DeleteTransaction(block)
    /\ committing' = FALSE
    /\ UNCHANGED <<holder, cancelled, proposal, block, chain, height, handled>>

MutNewContext == cancelled
\* every check has a context of its own
NewContext == FALSE

\* The block is stored; the state and its copy move on and the pool is checked.
Commit ==
    /\ committing /\ holder = "none"
    /\ DeleteTransaction(block)
    /\ chain' = chain \cup block
    /\ height' = height + 1
    /\ holder' = "commit" /\ cancelled' = NewContext
    /\ UNCHANGED <<proposal, committing, block, handled>>

Next ==
    \/ \E batch \in Batch : HandleTransactions(batch)
    \/ Evict \/ AddReturns
    \/ CheckMempool \/ FinishCheck
    \/ \E S \in SUBSET (Tx \ (Malformed \cup chain)) : CommitCertificate(S)
    \/ CommitFails \/ Commit

Spec == Init /\ [][Next]_vars

-----------------------------------------------------------------------------
(* What the pool promises *)

\* The byte counter never falls below what the pool really holds, whatever
\* blocks, failures and evictions take out of it: the limit on bytes is real.
NeverUndercounted == Bytes(Pooled) <= txsBytes

\* Whenever a leader may ask for a block (no commit is under way), the cached
\* proposal was made at this height and holds nothing that is on the chain.
ProposalIsOfThisHeight ==
    (~committing /\ ~ChecksFail)
        => proposal.height = height /\ proposal.txs \cap chain = {}

\* Eviction never drops a transaction that pays more than one it keeps.
HighestFeesStay ==
    [][Evict => \A t \in Pooled \ ToSet(pool'), u \in ToSet(pool') : Fee[t] <= Fee[u]]_vars
=============================================================================
