--------------------------- MODULE Mempool_proofs ---------------------------
(***************************************************************************)
(* The cached proposal is fresh, the byte counter covers the pool and      *)
(* eviction takes the lowest fees, for any transactions, limits and        *)
(* batches.                                                                *)
(***************************************************************************)
EXTENDS Mempool, Sums_proofs

\* Until the commit that made it old has the lock the proposal is of this height, and the
\* check of that commit is not cancelled by a commit before it.
Fresh ==
    /\ holder = "commit" => committing /\ ~cancelled
    /\ (~ChecksFail /\ holder # "commit")
          => proposal.height = height /\ proposal.txs \cap chain = {}

\* Whenever no commit is under way, the proposal a leader takes from the cache was made at
\* this height and holds no transaction of the chain, in whatever order checks, cancelled
\* checks, failed commits and commits came (controller/tx.go CheckMempool, block.go
\* CommitCertificate).
THEOREM ProposalIsAlwaysFresh == Spec => []ProposalIsOfThisHeight
<1>1. Init => Fresh
  BY DEF Init, Fresh
<1>2. Fresh /\ [Next]_vars => Fresh'
  <2> SUFFICES ASSUME Fresh, [Next]_vars
               PROVE  Fresh'
    OBVIOUS
  <2>1. ASSUME NEW batch \in Batch, HandleTransactions(batch)
        PROVE  Fresh'
    BY <2>1 DEF HandleTransactions, chainVars, Fresh
  <2>2. CASE Evict \/ AddReturns
    BY <2>2 DEF Evict, AddReturns, chainVars, Fresh
  <2>3. CASE CheckMempool
    BY <2>3 DEF CheckMempool, chainVars, Fresh
  <2>4. CASE FinishCheck
    <3>1. holder' = "none" /\ UNCHANGED <<chain, height>>
      BY <2>4 DEF FinishCheck
    <3>2. CASE (cancelled \/ ChecksFail) /\ UNCHANGED proposal
      BY <3>1, <3>2 DEF Fresh
    <3>3. CASE \E failed \in SUBSET Pooled :
                  /\ Pooled \cap chain \subseteq failed
                  /\ \E n \in 0 .. Len(pool) :
                        proposal' = [height |-> height,
                                     txs |-> {pool[i] : i \in 1 .. n} \ failed]
      <4>1. PICK failed \in SUBSET Pooled, n \in 0 .. Len(pool) :
               /\ Pooled \cap chain \subseteq failed
               /\ proposal' = [height |-> height, txs |-> {pool[i] : i \in 1 .. n} \ failed]
        BY <3>3
      <4>2. {pool[i] : i \in 1 .. n} \subseteq Pooled
        BY DEF Pooled, ToSet
      <4>3. proposal'.height = height /\ proposal'.txs \cap chain = {}
        BY <4>1, <4>2
      <4> QED
        BY <3>1, <4>3 DEF Fresh
    <3> QED
      BY <2>4, <3>2, <3>3 DEF FinishCheck
  <2>5. ASSUME NEW S, CommitCertificate(S)
        PROVE  Fresh'
    BY <2>5 DEF CommitCertificate, Fresh
  <2>6. CASE CommitFails
    BY <2>6 DEF CommitFails, Fresh
  <2>7. CASE Commit
    BY <2>7 DEF Commit, NewContext, Fresh
  <2>8. CASE UNCHANGED vars
    BY <2>8 DEF vars, Fresh
  <2> QED
    BY <2>1, <2>2, <2>3, <2>4, <2>5, <2>6, <2>7, <2>8 DEF Next
<1>3. Fresh => ProposalIsOfThisHeight
  BY DEF Fresh, ProposalIsOfThisHeight
<1> QED
  BY <1>1, <1>2, <1>3, PTL DEF Spec

-----------------------------------------------------------------------------
(* The pool and its byte counter *)

\* The pool holds every transaction once, the highest fees first.
Sorted(q) ==
    /\ q \in Seq(Tx) /\ IsInjective(q)
    /\ \A i, j \in DOMAIN q : i < j => Fee[q[i]] >= Fee[q[j]]

PInv == Sorted(pool) /\ txsBytes \in Int /\ NeverUndercounted

LEMMA BytesType ==
    ASSUME NEW S \in SUBSET Tx, IsFiniteSet(S)
    PROVE  Bytes(S) \in Nat
<1>1. \A t \in S : Size[t] \in Nat
  BY TxAssumption
<1> QED
  BY <1>1, SumType DEF Bytes

\* The bytes of a pool are those that stay and those that go.
LEMMA BytesSplit ==
    ASSUME NEW S \in SUBSET Tx, IsFiniteSet(S), NEW T \in SUBSET S
    PROVE  Bytes(T) \in Nat /\ Bytes(S \ T) \in Nat /\ Bytes(S) = Bytes(T) + Bytes(S \ T)
<1>1. \A t \in S : Size[t] \in Nat
  BY TxAssumption
<1>2. IsFiniteSet(T) /\ IsFiniteSet(S \ T)
  BY FS_Subset
<1>3. SumFunctionOnSet(Size, S) = SumFunctionOnSet(Size, T) + SumFunctionOnSet(Size, S \ T)
  BY <1>1, SumSubset
<1> QED
  BY <1>2, <1>3, BytesType DEF Bytes

LEMMA ToSetFinite ==
    ASSUME NEW T, NEW q \in Seq(T)
    PROVE  IsFiniteSet(ToSet(q)) /\ ToSet(q) \in SUBSET T
<1>1. q \in Surjection(1 .. Len(q), ToSet(q))
  BY DEF Surjection, ToSet
<1>2. IsFiniteSet(1 .. Len(q))
  BY FS_Interval
<1> QED
  BY <1>1, <1>2, FS_Surjection DEF ToSet

\* A sequence of SetToSeqs(S) has every element of S in it.
LEMMA SetToSeqsReach ==
    ASSUME NEW S, IsFiniteSet(S), NEW q \in SetToSeqs(S)
    PROVE  q \in Seq(S) /\ IsInjective(q) /\ ToSet(q) = S
<1> DEFINE n == Cardinality(S)
<1>1. n \in Nat
  BY FS_CardinalityType
<1>2. q \in [1 .. n -> S] /\ \A i, j \in 1 .. n : i # j => q[i] # q[j]
  BY DEF SetToSeqs
<1>3. IsFiniteSet(1 .. n) /\ Cardinality(1 .. n) = Cardinality(S)
  BY <1>1, FS_Interval
<1> HIDE DEF n
<1>4. q \in Injection(1 .. n, S)
  BY <1>2 DEF Injection, IsInjective
<1>5. q \in Surjection(1 .. n, S)
  BY <1>3, <1>4, FS_Injection
<1>6. q \in Seq(S)
  BY <1>1, <1>2
<1> QED
  BY <1>4, <1>5, <1>6 DEF Injection, Surjection, ToSet

LEMMA PooledFinite ==
    ASSUME Sorted(pool)
    PROVE  IsFiniteSet(Pooled) /\ Pooled \in SUBSET Tx
BY ToSetFinite DEF Sorted, Pooled

\* A deletion takes S out of the pool and keeps the order of the rest.
LEMMA DeleteKeeps ==
    ASSUME PInv, NEW S, DeleteTransaction(S)
    PROVE  PInv'
<1> DEFINE A == Pooled
           B == Pooled \ S
<1>1. IsFiniteSet(A) /\ A \in SUBSET Tx /\ B \in SUBSET A /\ IsFiniteSet(B)
  BY PooledFinite, FS_Subset DEF PInv
<1>2. /\ pool' \in SetToSeqs(B)
      /\ \A i, j \in DOMAIN pool' : i < j =>
            \E k, l \in DOMAIN pool : k < l /\ pool'[i] = pool[k] /\ pool'[j] = pool[l]
  BY DEF DeleteTransaction, Kept
<1>3. pool' \in Seq(B) /\ IsInjective(pool') /\ ToSet(pool') = B
  BY <1>1, <1>2, SetToSeqsReach
<1>4. pool' \in Seq(Tx)
  BY <1>1, <1>3
<1>5. ASSUME NEW i \in DOMAIN pool', NEW j \in DOMAIN pool', i < j
      PROVE  Fee[pool'[i]] >= Fee[pool'[j]]
  <2>1. PICK k \in DOMAIN pool, l \in DOMAIN pool :
           k < l /\ pool'[i] = pool[k] /\ pool'[j] = pool[l]
    BY <1>2, <1>5
  <2> QED
    BY <2>1 DEF PInv, Sorted
<1>6. Sorted(pool)'
  BY <1>3, <1>4, <1>5 DEF Sorted
<1>7. /\ txsBytes' = txsBytes - Bytes(S \cap A)
      /\ A \ B = S \cap A
  BY DEF DeleteTransaction, DeletedBytes
<1>8. Bytes(B) \in Nat /\ Bytes(A \ B) \in Nat /\ Bytes(A) = Bytes(B) + Bytes(A \ B)
  BY <1>1, BytesSplit
<1>9. Bytes(A) <= txsBytes /\ txsBytes \in Int
  BY DEF PInv, NeverUndercounted
<1>10. Pooled' = B
  BY <1>3 DEF Pooled
<1>11. txsBytes' \in Int /\ Bytes(B) <= txsBytes'
  <2> HIDE DEF A, B
  <2> QED
    BY <1>7, <1>8, <1>9
<1>12. NeverUndercounted'
  <2> HIDE DEF B
  <2> QED
    BY <1>10, <1>11 DEF NeverUndercounted, Bytes
<1> QED
  BY <1>6, <1>11, <1>12 DEF PInv

\* What is counted of a batch is no less than what the pool gains by it.
LEMMA BatchIsCounted ==
    ASSUME PInv, NEW batch \in Batch
    PROVE  /\ CountedBytes(batch) \in Nat
           /\ Read(batch) = DOMAIN batch =>
                Bytes(Pooled \cup ToSet(batch)) <= Bytes(Pooled) + CountedBytes(batch)
<1> DEFINE I == Counted(batch)
           g == [i \in DOMAIN batch |-> Size[batch[i]]]
           A == Pooled
           B == ToSet(batch)
           N == B \ A
<1>1. batch \in Seq(Tx)
  BY TxAssumption
<1>2. IsFiniteSet(DOMAIN batch) /\ I \in SUBSET DOMAIN batch
  BY <1>1, FS_Interval DEF Counted, Read
<1>3. IsFiniteSet(I)
  BY <1>2, FS_Subset
<1>4. \A i \in DOMAIN batch : g[i] = Size[batch[i]] /\ g[i] \in Nat
  BY <1>1, TxAssumption
<1>5. SumFunctionOnSet(g, I) \in Nat
  <2> HIDE DEF g, I
  <2> QED
    BY <1>2, <1>3, <1>4, SumType
<1>6. CountedBytes(batch) = SumFunctionOnSet(g, I)
  BY DEF CountedBytes
<1>7. /\ IsFiniteSet(A) /\ A \in SUBSET Tx
      /\ IsFiniteSet(B) /\ B \in SUBSET Tx
  BY <1>1, PooledFinite, ToSetFinite DEF PInv
<1>8. ASSUME Read(batch) = DOMAIN batch
      PROVE  Bytes(A \cup B) <= Bytes(A) + CountedBytes(batch)
  <2>1. /\ IsFiniteSet(A \cup B) /\ A \cup B \in SUBSET Tx
        /\ A \in SUBSET (A \cup B) /\ N = (A \cup B) \ A
        /\ IsFiniteSet(N) /\ N \in SUBSET Tx
    BY <1>7, FS_Union, FS_Subset
  <2>2. Bytes(A) \in Nat /\ Bytes(N) \in Nat /\ Bytes(A \cup B) = Bytes(A) + Bytes(N)
    BY <2>1, BytesSplit
  <2>3. \A x \in N : \E i \in I : batch[i] = x
    BY <1>8 DEF ToSet, Counted
  <2>4. \A i \in I : g[i] \in Nat /\ (batch[i] \in N => g[i] = Size[batch[i]])
    BY <1>2, <1>4
  <2>5. \A x \in N : Size[x] \in Nat
    BY <2>1, TxAssumption
  <2> HIDE DEF I, g, N
  <2>6. SumFunctionOnSet(Size, N) <= SumFunctionOnSet(g, I)
    BY <1>3, <2>1, <2>3, <2>4, <2>5, SumImage
  <2>7. Bytes(N) <= CountedBytes(batch)
    BY <1>6, <2>6 DEF Bytes
  <2> HIDE DEF A, B
  <2> QED
    BY <1>5, <1>6, <2>2, <2>7
<1> QED
  BY <1>5, <1>6, <1>8

\* A round of eviction keeps the front of the pool.
LEMMA EvictKeeps ==
    ASSUME PInv, Evict
    PROVE  /\ PInv'
           /\ \A t \in Pooled \ ToSet(pool'), u \in ToSet(pool') : Fee[t] <= Fee[u]
<1> DEFINE n == Len(pool) - numDrop
<1>1. pool \in Seq(Tx) /\ Len(pool) \in Nat
  BY DEF PInv, Sorted
<1>2. numDrop \in 0 .. Len(pool)
  <2>1. (Len(pool) * DropPercentage) \div 100 \in Nat
    BY <1>1, ConfigAssumption
  <2> QED
    BY <1>1, <2>1 DEF numDrop
<1>3. n \in 0 .. Len(pool)
  BY <1>1, <1>2
<1>4. /\ pool' = SubSeq(pool, 1, n)
      /\ txsBytes' = txsBytes - Bytes(Pooled \ ToSet(pool'))
  BY DEF Evict
<1> HIDE DEF n
<1>5. /\ pool' \in Seq(Tx) /\ DOMAIN pool' = 1 .. n
      /\ \A i \in 1 .. n : pool'[i] = pool[i]
  BY <1>1, <1>3, <1>4
<1>6. Sorted(pool)'
  BY <1>1, <1>3, <1>5 DEF PInv, Sorted, IsInjective
<1> DEFINE A == Pooled
           B == ToSet(pool')
<1>7. IsFiniteSet(A) /\ A \in SUBSET Tx /\ B \in SUBSET A
  <2>1. B \in SUBSET A
    BY <1>1, <1>3, <1>5 DEF Pooled, ToSet
  <2> QED
    BY <2>1, PooledFinite DEF PInv
<1>8. Bytes(B) \in Nat /\ Bytes(A \ B) \in Nat /\ Bytes(A) = Bytes(B) + Bytes(A \ B)
  BY <1>7, BytesSplit
<1>9. Bytes(A) <= txsBytes /\ txsBytes \in Int
  BY DEF PInv, NeverUndercounted
<1>10. txsBytes' \in Int /\ Bytes(B) <= txsBytes'
  <2> HIDE DEF A, B
  <2> QED
    BY <1>4, <1>8, <1>9 DEF A, B
<1>11. NeverUndercounted'
  BY <1>10 DEF NeverUndercounted, Bytes, Pooled
<1>12. ASSUME NEW t \in Pooled \ ToSet(pool'), NEW u \in ToSet(pool')
       PROVE  Fee[t] <= Fee[u]
  <2>1. PICK i \in 1 .. n : u = pool[i]
    BY <1>5 DEF ToSet
  <2>2. PICK j \in 1 .. Len(pool) : t = pool[j]
    BY <1>1 DEF Pooled, ToSet
  <2>3. j \notin 1 .. n
    BY <1>5, <2>2 DEF ToSet
  <2>4. i < j
    BY <1>1, <1>3, <2>1, <2>2, <2>3
  <2>5. Fee[pool[i]] >= Fee[pool[j]]
    BY <1>1, <1>3, <2>1, <2>2, <2>4 DEF PInv, Sorted
  <2>6. Fee[pool[i]] \in Nat /\ Fee[pool[j]] \in Nat
    BY <1>1, <1>3, <2>1, <2>2, TxAssumption
  <2> QED
    BY <2>1, <2>2, <2>5, <2>6
<1> QED
  BY <1>6, <1>10, <1>11, <1>12 DEF PInv

LEMMA BatchKeeps ==
    ASSUME PInv, NEW batch \in Batch, HandleTransactions(batch)
    PROVE  PInv'
<1>1. txsBytes' = txsBytes + CountedBytes(batch)
  BY DEF HandleTransactions
<1>2. /\ IsFiniteSet(Pooled) /\ Pooled \in SUBSET Tx /\ txsBytes \in Int
      /\ Bytes(Pooled) <= txsBytes /\ Bytes(Pooled) \in Nat /\ CountedBytes(batch) \in Nat
  BY PooledFinite, BytesType, BatchIsCounted DEF PInv, NeverUndercounted
<1>3. CASE UNCHANGED pool
  <2>1. Bytes(Pooled) <= txsBytes'
    BY <1>1, <1>2
  <2>2. NeverUndercounted' /\ Sorted(pool)'
    BY <1>3, <2>1 DEF NeverUndercounted, Pooled, PInv
  <2> QED
    BY <1>1, <1>2, <2>2 DEF PInv
<1>4. CASE Read(batch) = DOMAIN batch /\ pool' \in Inserted(batch)
  <2> DEFINE A == Pooled \cup ToSet(batch)
  <2>1. batch \in Seq(Tx)
    BY TxAssumption
  <2>2. IsFiniteSet(A) /\ A \in SUBSET Tx
    BY <1>2, <2>1, ToSetFinite, FS_Union
  <2>3. /\ pool' \in SetToSeqs(A)
        /\ \A i, j \in DOMAIN pool' : i < j => Fee[pool'[i]] >= Fee[pool'[j]]
    BY <1>4 DEF Inserted, ByFee
  <2> HIDE DEF A
  <2>4. pool' \in Seq(A) /\ IsInjective(pool') /\ ToSet(pool') = A
    BY <2>2, <2>3, SetToSeqsReach
  <2>5. pool' \in Seq(Tx)
    BY <2>2, <2>4
  <2>6. Sorted(pool)'
    BY <2>3, <2>4, <2>5 DEF Sorted
  <2>7. Bytes(A) \in Nat /\ Bytes(A) <= Bytes(Pooled) + CountedBytes(batch)
    BY <1>4, <2>2, BatchIsCounted, BytesType DEF A
  <2>8. txsBytes' \in Int /\ Bytes(A) <= txsBytes'
    BY <1>1, <1>2, <2>7
  <2>9. NeverUndercounted'
    BY <2>4, <2>8 DEF NeverUndercounted, Bytes, Pooled
  <2> QED
    BY <2>6, <2>8, <2>9 DEF PInv
<1> QED
  BY <1>3, <1>4 DEF HandleTransactions

LEMMA PoolStep == PInv /\ [Next]_vars => PInv'
<1> SUFFICES ASSUME PInv, [Next]_vars
             PROVE  PInv'
  OBVIOUS
<1>1. CASE UNCHANGED <<pool, txsBytes>>
  BY <1>1 DEF PInv, NeverUndercounted, Pooled
<1>2. ASSUME NEW S, DeleteTransaction(S)
      PROVE  PInv'
  BY <1>2, DeleteKeeps
<1>3. ASSUME NEW batch \in Batch, HandleTransactions(batch)
      PROVE  PInv'
  BY <1>3, BatchKeeps
<1>4. CASE Evict
  BY <1>4, EvictKeeps
<1>5. CASE FinishCheck
  BY <1>1, <1>2, <1>5 DEF FinishCheck
<1>6. CASE CommitFails \/ Commit
  BY <1>1, <1>2, <1>6 DEF CommitFails, Commit
<1>7. CASE AddReturns \/ CheckMempool
  BY <1>1, <1>7 DEF AddReturns, CheckMempool
<1>8. ASSUME NEW S, CommitCertificate(S)
      PROVE  PInv'
  BY <1>1, <1>8 DEF CommitCertificate
<1>9. CASE UNCHANGED vars
  BY <1>1, <1>9 DEF vars
<1> QED
  BY <1>3, <1>4, <1>5, <1>6, <1>7, <1>8, <1>9 DEF Next

LEMMA PoolInv == Spec => []PInv
<1>1. Init => PInv
  <2> SUFFICES ASSUME Init PROVE PInv
    OBVIOUS
  <2>1. pool = << >> /\ txsBytes = 0
    BY DEF Init
  <2>2. Pooled = {}
    BY <2>1 DEF Pooled, ToSet
  <2>3. Bytes(Pooled) = 0
    BY <2>2, SumEmpty DEF Bytes
  <2>4. Sorted(pool)
    BY <2>1 DEF Sorted, IsInjective
  <2> QED
    BY <2>1, <2>3, <2>4 DEF PInv, NeverUndercounted
<1> QED
  BY <1>1, PoolStep, PTL DEF Spec

\* The byte counter never falls below the bytes that the pool holds, for any sizes, batches
\* with any repetitions or malformed entries, and any interleaving of eviction, failed checks
\* and commits with the batches (lib/mempool.go AddTransactions, delete, drop).
THEOREM PoolIsNeverUndercounted == Spec => []NeverUndercounted
<1>1. PInv => NeverUndercounted
  BY DEF PInv
<1> QED
  BY <1>1, PoolInv, PTL

\* No round of eviction drops a transaction that pays more than one that stays, because
\* every operation on the pool keeps it sorted (lib/mempool.go insert, delete, drop).
THEOREM HighestFeesAlwaysStay == Spec => HighestFeesStay
<1>1. PInv /\ [Next]_vars
        => [Evict => \A t \in Pooled \ ToSet(pool'), u \in ToSet(pool') : Fee[t] <= Fee[u]]_vars
  BY EvictKeeps
<1> QED
  BY <1>1, PoolInv, PTL DEF Spec, HighestFeesStay
=============================================================================
