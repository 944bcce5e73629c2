-------------------------------- MODULE Store -------------------------------
(***************************************************************************)
(* The store under the state machine (store/store.go, store/txn.go,        *)
(* store/versioned_store.go): write caches stacked on one another, a       *)
(* commit that flushes the lowest into one database batch, the latest      *)
(* state (LSS) kept beside the state of every version (HSS), the state     *)
(* tree (SMT) and the commit ids; crashes that lose unsynced commits,      *)
(* rollback, and read-only stores opened while a commit is on its way.     *)
(*                                                                         *)
(* The caller is ApplyBlock (fsm/state.go) and CommitCertificate           *)
(* (controller/block.go), which hold the controller's lock; read-only      *)
(* stores are opened without it (cmd/rpc/server.go).                       *)
(***************************************************************************)
EXTENDS Naturals

CONSTANTS Key,          \* state keys
          Value,        \* what a key may hold
          None,         \* no entry
          Dead,         \* a deletion
          MaxVersion,   \* bound: commits
          MaxDepth      \* bound: write caches on one another

ASSUME EntriesDiffer == None \notin Value /\ Dead \notin Value /\ None # Dead
ASSUME BoundsAreNumbers == MaxVersion \in Nat /\ MaxDepth \in Nat \ {0}

VARIABLES
    db,        \* the database
    durable,   \* the databases a crash may leave: the synced one and later ones
    version,   \* Store.version
    height,    \* StateMachine.height, set when the state machine is made anew
    depth,     \* number of write caches: 1 is the store's, the rest are NewTxn()
    ops,       \* ops[i] is Txn.ops of cache i
    sc,        \* the operations the cached state tree has taken in, None: no cached tree
    step,      \* where the caller is
    view       \* a read-only store

vars == <<db, durable, version, height, depth, ops, sc, step, view>>

Version == 1 .. MaxVersion
Entry == Value \cup {Dead, None}
Ops == [Key -> Entry]
Map == [Key -> Value \cup {None}]
NoOps == [k \in Key |-> None]
Image == [lss : Map, hss : [Key -> [Version -> Entry]], smt : [Key -> [Version -> Entry]],
          ids : [Version -> Map \cup {None}], last : 0 .. MaxVersion]
View == [at : {"closed", "opened", "latest", "read"}, q : 0 .. MaxVersion,
         from : 0 .. MaxVersion, state : Map]
Closed == [at |-> "closed", q |-> 0, from |-> 0, state |-> NoOps]

(***************************************************************************)
(* Reading.                                                                *)
(***************************************************************************)
Newest(S) == CHOOSE n \in S : \A m \in S : m <= n
Held(x) == IF x = Dead THEN None ELSE x

\* the newest of the first n entries, or what lies under them
Latest(e, n, under) ==
    LET S == {i \in 1 .. n : e[i] # None}
    IN  IF S = {} THEN under ELSE Held(e[Newest(S)])

\* the state and the tree's leaves at a version
At(img, v) == [k \in Key |-> Latest(img.hss[k], v, None)]
Leaves(img) == [k \in Key |-> Latest(img.smt[k], MaxVersion, None)]

\* what cache d of some caches shows over a latest state
Shown(caches, under, d) == [k \in Key |-> Latest([i \in 1 .. d |-> caches[i][k]], d, under[k])]
Get(d) == Shown(ops, db.lss, d)

\* one cache written over another
MutOver(top, under) == [k \in Key |-> IF top[k] \notin {None, Dead} THEN top[k] ELSE under[k]]
Over(top, under) == [k \in Key |-> IF top[k] # None THEN top[k] ELSE under[k]]

(***************************************************************************)
(* Writing: ApplyBlock.                                                    *)
(***************************************************************************)
EmptyDB == [lss |-> NoOps, hss |-> [k \in Key |-> [v \in Version |-> None]],
            smt |-> [k \in Key |-> [v \in Version |-> None]],
            ids |-> [v \in Version |-> None], last |-> 0]

Init ==
    /\ db = EmptyDB /\ durable = {EmptyDB}
    /\ version = 0 /\ height = 0
    /\ depth = 1 /\ ops = [i \in 1 .. 1 |-> NoOps] /\ sc = None
    /\ step = "clean" /\ view = Closed

\* BeginBlock, a transaction or EndBlock writes to the topmost cache
Write(k, x) ==
    /\ step \in {"clean", "applying"}
    /\ step' = "applying"
    /\ ops' = [ops EXCEPT ![depth] = [@ EXCEPT ![k] = x]]
    /\ UNCHANGED <<db, durable, version, height, depth, sc, view>>

\* TxnWrap: before a transaction, and once before the first that exceeds the block
TxnWrap ==
    /\ step = "applying" /\ depth < MaxDepth
    /\ depth' = depth + 1
    /\ ops' = [i \in 1 .. depth + 1 |-> IF i <= depth THEN ops[i] ELSE NoOps]
    /\ UNCHANGED <<db, durable, version, height, sc, step, view>>

\* a transaction succeeded: its cache goes into the one below
Flush ==
    /\ step = "applying" /\ depth > 1
    /\ depth' = depth - 1
    /\ ops' = [i \in 1 .. depth - 1 |->
                   IF i < depth - 1 THEN ops[i] ELSE Over(ops[depth], ops[i])]
    /\ UNCHANGED <<db, durable, version, height, sc, step, view>>

\* a transaction failed, or the ones beyond the block's size are given up
SetStore ==
    /\ step = "applying"
    /\ \E d \in 1 .. depth - 1 : depth' = d /\ ops' = [i \in 1 .. d |-> ops[i]]
    /\ UNCHANGED <<db, durable, version, height, sc, step, view>>

\* the state root for the block header, which caches the tree
Root ==
    /\ step = "applying" /\ depth = 1
    /\ sc' = IF sc = None THEN ops[1] ELSE sc
    /\ step' = "applied"
    /\ UNCHANGED <<db, durable, version, height, depth, ops, view>>

MutDropped == ops' = [i \in 1 .. 1 |-> NoOps] /\ depth' = 1 /\ UNCHANGED sc
Dropped == ops' = [i \in 1 .. 1 |-> NoOps] /\ depth' = 1 /\ sc' = None

\* the state machine is reset: a proposal failed, the round was interrupted
Reset ==
    /\ step \in {"applying", "applied"}
    /\ Dropped
    /\ step' = "clean"
    /\ UNCHANGED <<db, durable, version, height, view>>

(***************************************************************************)
(* Commit.  The version is raised before the batch is applied; both happen *)
(* under locks that read-only stores do not take.                          *)
(***************************************************************************)
CommitStarts ==
    /\ step = "applied" /\ version < MaxVersion
    /\ version' = version + 1
    /\ step' = "committing"
    /\ UNCHANGED <<db, durable, height, depth, ops, sc, view>>

\* deletions leave no entry in the latest state: purgeLssTombstones
Patched(lss, o) == [k \in Key |-> IF o[k] # None THEN Held(o[k]) ELSE lss[k]]
\* entries written at one version
Stamped(h, o, v) == [k \in Key |-> IF o[k] # None THEN [h[k] EXCEPT ![v] = o[k]] ELSE h[k]]

\* the batch of a commit
Committed ==
    [lss  |-> Patched(db.lss, ops[1]),
     hss  |-> Stamped(db.hss, ops[1], version),
     smt  |-> Stamped(db.smt, sc, version),
     ids  |-> [db.ids EXCEPT ![version] = Patched(Leaves(db), sc)],
     last |-> version]

\* db.Apply, without a sync, and the reset that follows it
CommitApplies ==
    /\ step = "committing"
    /\ db' = Committed
    /\ durable' = durable \cup {Committed}
    /\ Dropped
    /\ step' = "written"
    /\ UNCHANGED <<version, height, view>>

\* the write failed; CommitCertificate returns and resets the state machine
CommitFails ==
    /\ step = "committing"
    /\ Dropped
    /\ step' = "clean"
    /\ UNCHANGED <<db, durable, version, height, view>>

\* fsm.New: the state machine of the next height
CommitReturns ==
    /\ step = "written"
    /\ height' = version
    /\ step' = "clean"
    /\ UNCHANGED <<db, durable, version, depth, ops, sc, view>>

(***************************************************************************)
(* Crash, and rollback of a stopped node.                                  *)
(***************************************************************************)
\* what was applied up to some commit reaches the disk
Synced ==
    /\ \E n \in 0 .. MaxVersion :
           /\ \E img \in durable : img.last < n
           /\ \E img \in durable : img.last = n
           /\ durable' = {img \in durable : img.last >= n}
    /\ UNCHANGED <<db, version, height, depth, ops, sc, step, view>>

\* getLatestCommitID: the version of an opened store is that of the last commit
Reopened(img) ==
    /\ db' = img /\ durable' = {img}
    /\ version' = img.last /\ height' = img.last
    /\ Dropped
    /\ step' = "clean" /\ view' = Closed

Crash == \E img \in durable : Reopened(img)

\* entries of later versions go; keys they were about are restored from the history
MutAffected(h, t) == {k \in Key : \E v \in Version : v > t + 1 /\ h[k][v] # None}
Affected(h, t) == {k \in Key : \E v \in Version : v > t /\ v <= db.last /\ h[k][v] # None}
Pruned(h, t) ==
    [k \in Key |-> [v \in Version |-> IF v > t /\ v <= db.last THEN None ELSE h[k][v]]]
RolledBack(t) ==
    [lss  |-> [k \in Key |-> IF k \in Affected(db.hss, t) THEN At(db, t)[k] ELSE db.lss[k]],
     hss  |-> Pruned(db.hss, t),
     smt  |-> Pruned(db.smt, t),
     ids  |-> [v \in Version |-> IF v > t /\ v <= db.last THEN None ELSE db.ids[v]],
     last |-> t]

Rollback(t) ==
    /\ step = "clean" /\ version = db.last /\ view.at = "closed"
    /\ t >= 1 /\ t < db.last
    /\ db.ids[t] # None
    /\ Reopened(RolledBack(t))

(***************************************************************************)
(* Read-only stores: TimeMachine and NewReadOnly, by a server's goroutine. *)
(***************************************************************************)
\* the history's snapshot is taken first
NewReadOnly(q) ==
    /\ view.at = "closed" /\ q \in 1 .. height
    /\ view' = [at |-> "opened", q |-> q, from |-> db.last, state |-> At(db, q)]
    /\ UNCHANGED <<db, durable, version, height, depth, ops, sc, step>>

MutIsLatest == view.q <= version
IsLatest == view.q = version

\* then the version is compared
CompareVersion ==
    /\ view.at = "opened"
    /\ view' = [view EXCEPT !.at = IF IsLatest THEN "latest" ELSE "read", !.from = db.last]
    /\ UNCHANGED <<db, durable, version, height, depth, ops, sc, step>>

\* and the latest state's snapshot taken if it is that version
ReadLatest ==
    /\ view.at = "latest"
    /\ view' = [view EXCEPT !.at = "read", !.state = db.lss]
    /\ UNCHANGED <<db, durable, version, height, depth, ops, sc, step>>

Discard ==
    /\ view.at = "read"
    /\ view' = Closed
    /\ UNCHANGED <<db, durable, version, height, depth, ops, sc, step>>

Caller ==
    \/ \E k \in Key, x \in Value \cup {Dead} : Write(k, x)
    \/ TxnWrap \/ Flush \/ SetStore \/ Root \/ Reset
    \/ CommitStarts \/ CommitApplies \/ CommitFails \/ CommitReturns
Server == (\E q \in Version : NewReadOnly(q)) \/ CompareVersion \/ ReadLatest \/ Discard
Next == Caller \/ Server \/ Synced \/ Crash \/ (\E t \in Version : Rollback(t))
Spec == Init /\ [][Next]_vars

(***************************************************************************)
(* Properties.                                                             *)
(***************************************************************************)
\* Every database is an image, every cache a set of operations.
TypeOK ==
    /\ db \in Image /\ durable \subseteq Image /\ db \in durable
    /\ version \in 0 .. MaxVersion /\ height \in 0 .. version
    /\ depth \in 1 .. MaxDepth /\ ops \in [1 .. depth -> Ops] /\ sc \in Ops \cup {None}
    /\ step \in {"clean", "applying", "applied", "committing", "written"}
    /\ view \in View

\* The latest state is the history's last page: the LSS, which commits patch and
\* rollbacks repair key by key, equals what the HSS shows at the last version, in
\* the database and in whatever a crash may leave of it.
LatestIsHistory == \A img \in durable : img.lss = At(img, img.last)

\* The root recorded for a version (setCommitID) is the root of the state that a
\* reader of that version is shown: the cached tree is never one of another state.
RootsAreOfTheirVersion ==
    \A v \in Version : db.ids[v] # None => db.ids[v] = At(db, v)

\* A read-only store shows the state of its version, or, if it was the latest and
\* a commit overtook it between the comparison and the snapshot, a later committed one.
ViewsAreCommitted ==
    view.at = "read" =>
        \/ view.state = At(db, view.q)
        \/ /\ view.q >= view.from
           /\ \E v \in view.q .. db.last : view.state = At(db, v)

\* The store is a map with drafts and a history: flushing and committing change
\* nothing that is read, dropping restores what was read before, no commit, crash or
\* rollback rewrites a version that remains.
Abstract == INSTANCE VersionedMap WITH
    draft <- [i \in 1 .. depth |-> Get(i)],
    last <- db.last,
    history <- [v \in 0 .. db.last |-> At(db, v)]
ImplementsVersionedMap == Abstract!Spec
=============================================================================
