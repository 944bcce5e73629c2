---------------------------- MODULE Store_proofs ----------------------------
(***************************************************************************)
(* The store's invariants and its refinement of VersionedMap, for any      *)
(* keys, values and bounds.  First what reading a stack of entries gives,  *)
(* then what a commit and a rollback make of a sound database, then the    *)
(* inductive invariant, and last the refinement.                           *)
(***************************************************************************)
EXTENDS Store, TLAPS, WellFoundedInduction

\* a bounded set of numbers has a greatest one
LEMMA GreatestExists ==
    ASSUME NEW n \in Nat, NEW S \in SUBSET (1 .. n), S # {}
    PROVE  \E x \in S : \A y \in S : y <= x
<1> DEFINE T == {n - i : i \in S}
<1>0. \A i \in S : i \in Nat /\ n - i \in Nat
  <2> SUFFICES ASSUME NEW i \in S PROVE i \in Nat /\ n - i \in Nat
    OBVIOUS
  <2>1. i \in 1 .. n
    OBVIOUS
  <2> QED
    BY <2>1
<1>1. T \subseteq Nat /\ T # {}
  BY <1>0
<1>2. PICK t \in T : \A y \in T : ~(<<y, t>> \in OpToRel(<, Nat))
  BY <1>1, NatLessThanWellFounded, WFMin
<1>3. \A y \in T : ~(y < t)
  BY <1>1, <1>2 DEF OpToRel
<1>4. PICK x \in S : t = n - x
  OBVIOUS
<1>5. \A y \in S : y <= x
  <2> SUFFICES ASSUME NEW y \in S PROVE y <= x
    OBVIOUS
  <2>1. n - y \in T
    OBVIOUS
  <2>2. ~(n - y < n - x)
    BY <2>1, <1>3, <1>4
  <2> QED
    BY <2>2, <1>0
<1> QED
  BY <1>5

\* Newest picks it
LEMMA NewestIsIn ==
    ASSUME NEW n \in Nat, NEW S \in SUBSET (1 .. n), S # {}
    PROVE  Newest(S) \in S /\ \A y \in S : y <= Newest(S)
BY GreatestExists DEF Newest

\* and no other number is greatest
LEMMA NewestIs ==
    ASSUME NEW n \in Nat, NEW S \in SUBSET (1 .. n), NEW x \in S, \A y \in S : y <= x
    PROVE  Newest(S) = x
<1>1. Newest(S) \in S /\ \A y \in S : y <= Newest(S)
  BY NewestIsIn
<1>2. \A i \in 1 .. n : i \in Nat
  OBVIOUS
<1>3. Newest(S) \in Nat /\ x \in Nat
  BY <1>1, <1>2
<1>4. x <= Newest(S) /\ Newest(S) <= x
  BY <1>1
<1> QED
  BY <1>3, <1>4

(***************************************************************************)
(* Reading entries.                                                        *)
(***************************************************************************)
\* only the first n entries are read
LEMMA LatestSame ==
    ASSUME NEW n \in Nat, NEW e, NEW f, NEW u, \A i \in 1 .. n : e[i] = f[i]
    PROVE  Latest(e, n, u) = Latest(f, n, u)
<1> DEFINE S == {i \in 1 .. n : e[i] # None}
<1>1. S = {i \in 1 .. n : f[i] # None}
  OBVIOUS
<1>2. CASE S = {}
  BY <1>1, <1>2 DEF Latest
<1>3. CASE S # {}
  <2>1. Newest(S) \in 1 .. n
    <3>1. S \in SUBSET (1 .. n)
      OBVIOUS
    <3>2. Newest(S) \in S
      BY <1>3, <3>1, NewestIsIn
    <3> QED
      BY <3>2
  <2>2. e[Newest(S)] = f[Newest(S)]
    BY <2>1
  <2> QED
    BY <1>1, <1>3, <2>2 DEF Latest
<1> QED
  BY <1>2, <1>3

\* an entry at the top is the one read, a deletion as an absent key
LEMMA LatestTop ==
    ASSUME NEW n \in Nat \ {0}, NEW e, NEW u, e[n] # None
    PROVE  Latest(e, n, u) = Held(e[n])
<1> DEFINE S == {i \in 1 .. n : e[i] # None}
<1>1. S \in SUBSET (1 .. n) /\ n \in S /\ \A y \in S : y <= n
  OBVIOUS
<1>2. Newest(S) = n
  BY <1>1, NewestIs
<1> QED
  BY <1>1, <1>2 DEF Latest

\* absent entries are read through
LEMMA LatestSkip ==
    ASSUME NEW n \in Nat, NEW m \in Nat, m <= n, NEW e, NEW u,
           \A i \in 1 .. n : i > m => e[i] = None
    PROVE  Latest(e, n, u) = Latest(e, m, u)
<1>1. {i \in 1 .. n : e[i] # None} = {i \in 1 .. m : e[i] # None}
  OBVIOUS
<1> QED
  BY <1>1 DEF Latest

\* reading entries gives a value or nothing
LEMMA LatestType ==
    ASSUME NEW n \in Nat, NEW e, NEW u \in Value \cup {None},
           \A i \in 1 .. n : e[i] \in Entry
    PROVE  Latest(e, n, u) \in Value \cup {None}
<1> DEFINE S == {i \in 1 .. n : e[i] # None}
<1>1. CASE S = {}
  BY <1>1 DEF Latest
<1>2. CASE S # {}
  <2>1. S \in SUBSET (1 .. n)
    OBVIOUS
  <2>2. Newest(S) \in 1 .. n
    BY <1>2, <2>1, NewestIsIn
  <2>3. Held(e[Newest(S)]) \in Value \cup {None}
    BY <2>2 DEF Held, Entry
  <2> QED
    BY <1>2, <2>3 DEF Latest
<1> QED
  BY <1>1, <1>2

\* the state of a version is a map
LEMMA AtType ==
    ASSUME NEW img \in Image, NEW v \in 0 .. MaxVersion
    PROVE  At(img, v) \in Map
<1> SUFFICES ASSUME NEW k \in Key
             PROVE  Latest(img.hss[k], v, None) \in Value \cup {None}
  BY DEF At, Map
<1>1. \A i \in 1 .. v : img.hss[k][i] \in Entry
  BY BoundsAreNumbers DEF Image, Version
<1> QED
  BY <1>1, LatestType

(***************************************************************************)
(* A database that the program can have written: nothing is stamped with a *)
(* version to come, the tree is of the same entries as the history, the    *)
(* latest state is the history's last page and the roots are those of      *)
(* their versions.                                                         *)
(***************************************************************************)
Sound(img) ==
    /\ img \in Image
    /\ img.smt = img.hss
    /\ \A k \in Key, v \in Version : v > img.last => img.hss[k][v] = None
    /\ \A v \in Version : v > img.last => img.ids[v] = None
    /\ img.lss = At(img, img.last)
    /\ \A v \in Version : img.ids[v] # None => img.ids[v] = At(img, v)

\* an empty database is sound, and its state empty
LEMMA EmptySound == Sound(EmptyDB) /\ At(EmptyDB, 0) = NoOps
<1>1. EmptyDB \in Image
  BY BoundsAreNumbers DEF EmptyDB, Image, NoOps, Map, Entry
<1>2. At(EmptyDB, 0) = NoOps
  BY DEF At, Latest, NoOps
<1>3. EmptyDB.lss = NoOps /\ EmptyDB.last = 0 /\ EmptyDB.smt = EmptyDB.hss
  BY DEF EmptyDB
<1>4. \A k \in Key, v \in Version : EmptyDB.hss[k][v] = None
  BY DEF EmptyDB
<1>5. \A v \in Version : EmptyDB.ids[v] = None
  BY DEF EmptyDB
<1> QED
  BY <1>1, <1>2, <1>3, <1>4, <1>5 DEF Sound

\* beyond the last version the history stays as it is there
LEMMA AtBeyond ==
    ASSUME NEW img, Sound(img), NEW v \in img.last .. MaxVersion
    PROVE  At(img, v) = At(img, img.last)
<1>1. img.last \in Nat /\ v \in Nat /\ img.last <= v
  BY BoundsAreNumbers DEF Sound, Image
<1> SUFFICES ASSUME NEW k \in Key
             PROVE  Latest(img.hss[k], v, None) = Latest(img.hss[k], img.last, None)
  BY DEF At
<1>2. \A i \in 1 .. v : i > img.last => img.hss[k][i] = None
  BY <1>1, BoundsAreNumbers DEF Sound, Version
<1> QED
  BY <1>1, <1>2, LatestSkip

\* the state tree of a sound database has the leaves of its latest state
LEMMA LeavesAreLatest ==
    ASSUME NEW img, Sound(img)
    PROVE  Leaves(img) = img.lss
<1>1. Leaves(img) = At(img, MaxVersion)
  BY DEF Leaves, At, Sound
<1>2. MaxVersion \in img.last .. MaxVersion
  BY BoundsAreNumbers DEF Sound, Image
<1> QED
  BY <1>1, <1>2, AtBeyond DEF Sound

(***************************************************************************)
(* What a commit and a rollback make of a sound database.                  *)
(***************************************************************************)
CommitOf(img, o, v) ==
    [lss  |-> Patched(img.lss, o),
     hss  |-> Stamped(img.hss, o, v),
     smt  |-> Stamped(img.smt, o, v),
     ids  |-> [img.ids EXCEPT ![v] = Patched(Leaves(img), o)],
     last |-> v]

\* a commit keeps a database sound and adds one version, that of the patched state
LEMMA CommitIsSound ==
    ASSUME NEW img, Sound(img), NEW o \in Ops, NEW v \in Version, v > img.last
    PROVE  /\ Sound(CommitOf(img, o, v))
           /\ \A u \in 0 .. v - 1 : At(CommitOf(img, o, v), u) = At(img, u)
           /\ At(CommitOf(img, o, v), v) = Patched(img.lss, o)
<1> DEFINE new == CommitOf(img, o, v)
<1>t. /\ img \in Image /\ img.last \in Nat /\ v \in Nat \ {0} /\ v <= MaxVersion
      /\ img.hss \in [Key -> [Version -> Entry]] /\ img.lss \in Map
      /\ img.ids \in [Version -> Map \cup {None}]
  BY BoundsAreNumbers DEF Sound, Image, Version
<1>l. Leaves(img) = img.lss
  BY LeavesAreLatest
<1>n. /\ new.lss = Patched(img.lss, o) /\ new.hss = Stamped(img.hss, o, v)
      /\ new.smt = Stamped(img.hss, o, v) /\ new.last = v
      /\ new.ids = [img.ids EXCEPT ![v] = Patched(img.lss, o)]
  BY <1>l DEF CommitOf, Sound
<1>p. Patched(img.lss, o) \in Map
  BY <1>t DEF Patched, Map, Held, Ops, Entry
<1>h. Stamped(img.hss, o, v) \in [Key -> [Version -> Entry]]
  BY <1>t DEF Stamped, Ops
<1>1. new \in Image
  BY <1>n, <1>p, <1>h, <1>t DEF Image, CommitOf, Sound
<1>2. \A k \in Key, u \in Version : u # v => new.hss[k][u] = img.hss[k][u]
  BY <1>n, <1>t DEF Stamped
<1>3. \A k \in Key : new.hss[k][v] = IF o[k] # None THEN o[k] ELSE img.hss[k][v]
  <2> SUFFICES ASSUME NEW k \in Key
               PROVE  new.hss[k][v] = IF o[k] # None THEN o[k] ELSE img.hss[k][v]
    OBVIOUS
  <2>1. new.hss[k] = IF o[k] # None THEN [img.hss[k] EXCEPT ![v] = o[k]] ELSE img.hss[k]
    BY <1>n DEF Stamped
  <2>2. img.hss[k] \in [Version -> Entry]
    BY <1>t
  <2>3. [img.hss[k] EXCEPT ![v] = o[k]][v] = o[k]
    BY <2>2
  <2> HIDE DEF new
  <2> QED
    BY <2>1, <2>3
<1>4. \A k \in Key : img.hss[k][v] = None
  BY DEF Sound
<1>5. ASSUME NEW u \in 0 .. v - 1 PROVE At(new, u) = At(img, u)
  <2> SUFFICES ASSUME NEW k \in Key
               PROVE  Latest(new.hss[k], u, None) = Latest(img.hss[k], u, None)
    BY DEF At
  <2>1. u \in Nat /\ \A i \in 1 .. u : i \in Version /\ i # v
    BY <1>t, <1>5, BoundsAreNumbers DEF Version
  <2>2. \A i \in 1 .. u : new.hss[k][i] = img.hss[k][i]
    BY <2>1, <1>2
  <2> QED
    BY <2>1, <2>2, LatestSame
<1>6. At(new, v) = Patched(img.lss, o)
  <2> SUFFICES ASSUME NEW k \in Key
               PROVE  Latest(new.hss[k], v, None) = Patched(img.lss, o)[k]
    BY DEF At, Patched
  <2>1. CASE o[k] # None
    <3>1. new.hss[k][v] = o[k]
      BY <1>3, <2>1
    <3>2. Latest(new.hss[k], v, None) = Held(o[k])
      BY <3>1, <2>1, <1>t, LatestTop
    <3> QED
      BY <3>2, <2>1 DEF Patched
  <2>2. CASE o[k] = None
    <3>1. \A i \in 1 .. v : i > img.last => new.hss[k][i] = None
      <4> SUFFICES ASSUME NEW i \in 1 .. v, i > img.last PROVE new.hss[k][i] = None
        OBVIOUS
      <4>1. i \in Version
        BY <1>t, BoundsAreNumbers DEF Version
      <4>2. img.hss[k][i] = None
        BY <4>1 DEF Sound
      <4> QED
        BY <4>1, <4>2, <1>2, <1>3, <2>2
    <3>2. Latest(new.hss[k], v, None) = Latest(new.hss[k], img.last, None)
      BY <3>1, <1>t, LatestSkip
    <3>3. At(new, img.last) = At(img, img.last)
      BY <1>5, <1>t
    <3>4. Latest(new.hss[k], img.last, None) = img.lss[k]
      BY <3>3 DEF At, Sound
    <3> QED
      BY <3>2, <3>4, <2>2 DEF Patched
  <2> QED
    BY <2>1, <2>2
<1>7. \A k \in Key, u \in Version : u > new.last => new.hss[k][u] = None
  <2> SUFFICES ASSUME NEW k \in Key, NEW u \in Version, u > v PROVE new.hss[k][u] = None
    BY <1>n
  <2>1. u > img.last /\ u # v
    BY <1>t, BoundsAreNumbers DEF Version
  <2> QED
    BY <2>1, <1>2 DEF Sound
<1>8. \A u \in Version : u > new.last => new.ids[u] = None
  <2> SUFFICES ASSUME NEW u \in Version, u > v PROVE new.ids[u] = None
    BY <1>n
  <2>1. u > img.last /\ u # v
    BY <1>t, BoundsAreNumbers DEF Version
  <2> QED
    BY <2>1, <1>n, <1>t DEF Sound
<1>9. \A u \in Version : new.ids[u] # None => new.ids[u] = At(new, u)
  <2> SUFFICES ASSUME NEW u \in Version, new.ids[u] # None PROVE new.ids[u] = At(new, u)
    OBVIOUS
  <2>1. CASE u = v
    BY <2>1, <1>n, <1>t, <1>6
  <2>2. CASE u > v
    BY <2>2, <1>8, <1>n
  <2>3. CASE u < v
    <3>1. u \in 0 .. v - 1
      BY <2>3, <1>t, BoundsAreNumbers DEF Version
    <3>2. At(new, u) = At(img, u)
      BY <3>1, <1>5
    <3>3. new.ids[u] = img.ids[u]
      BY <2>3, <1>n, <1>t
    <3> QED
      BY <3>2, <3>3 DEF Sound
  <2> QED
    BY <2>1, <2>2, <2>3, <1>t, BoundsAreNumbers DEF Version
<1>10. Sound(new)
  BY <1>1, <1>6, <1>7, <1>8, <1>9, <1>n DEF Sound
<1> QED
  BY <1>5, <1>6, <1>10

\* a rollback keeps it sound, and every version up to its target as it was
LEMMA RollbackIsSound ==
    ASSUME Sound(db), NEW t \in Version, t < db.last
    PROVE  /\ Sound(RolledBack(t))
           /\ RolledBack(t).last = t
           /\ \A u \in 0 .. t : At(RolledBack(t), u) = At(db, u)
<1> DEFINE new == RolledBack(t)
<1>t. /\ db \in Image /\ db.last \in Nat /\ db.last <= MaxVersion /\ t \in Nat
      /\ db.hss \in [Key -> [Version -> Entry]] /\ db.lss \in Map
      /\ db.ids \in [Version -> Map \cup {None}]
  BY BoundsAreNumbers DEF Sound, Image, Version
<1>n. /\ new.hss = Pruned(db.hss, t) /\ new.smt = Pruned(db.hss, t) /\ new.last = t
      /\ new.lss = [k \in Key |-> IF k \in Affected(db.hss, t) THEN At(db, t)[k] ELSE db.lss[k]]
      /\ new.ids = [v \in Version |-> IF v > t /\ v <= db.last THEN None ELSE db.ids[v]]
  BY DEF RolledBack, Sound
<1>v. \A v \in Version : v \in Nat
  BY BoundsAreNumbers DEF Version
<1>a. At(db, t) \in Map
  BY <1>t, AtType DEF Version
<1>h. Pruned(db.hss, t) \in [Key -> [Version -> Entry]]
  BY <1>t DEF Pruned, Entry
<1>1. new \in Image
  <2>1. new.lss \in Map
    BY <1>n, <1>a, <1>t DEF Map
  <2>2. new.ids \in [Version -> Map \cup {None}]
    BY <1>n, <1>t
  <2>3. t \in 0 .. MaxVersion
    BY BoundsAreNumbers DEF Version
  <2>4. new = [lss |-> new.lss, hss |-> new.hss, smt |-> new.smt, ids |-> new.ids, last |-> t]
    BY DEF RolledBack
  <2>5. new.hss \in [Key -> [Version -> Entry]] /\ new.smt \in [Key -> [Version -> Entry]]
    BY <1>n, <1>h
  <2> HIDE DEF new
  <2> QED
    BY <2>1, <2>2, <2>3, <2>4, <2>5 DEF Image
<1>2. \A k \in Key, v \in Version : v > t => new.hss[k][v] = None
  <2> SUFFICES ASSUME NEW k \in Key, NEW v \in Version, v > t PROVE new.hss[k][v] = None
    OBVIOUS
  <2>1. v > db.last => db.hss[k][v] = None
    BY DEF Sound
  <2> QED
    BY <2>1, <1>n, <1>t, <1>v DEF Pruned
<1>3. \A v \in Version : v > t => new.ids[v] = None
  <2> SUFFICES ASSUME NEW v \in Version, v > t PROVE new.ids[v] = None
    OBVIOUS
  <2>1. new.ids[v] = IF v > t /\ v <= db.last THEN None ELSE db.ids[v]
    BY <1>n
  <2>2. v > db.last => db.ids[v] = None
    BY DEF Sound
  <2>3. v <= db.last \/ v > db.last
    BY <1>t, <1>v
  <2> HIDE DEF new
  <2> QED
    BY <2>1, <2>2, <2>3
<1>4. ASSUME NEW u \in 0 .. t PROVE At(new, u) = At(db, u)
  <2> SUFFICES ASSUME NEW k \in Key
               PROVE  Latest(new.hss[k], u, None) = Latest(db.hss[k], u, None)
    BY DEF At
  <2>1. u \in Nat /\ \A i \in 1 .. u : i \in Version /\ ~(i > t)
    BY <1>t, <1>4, BoundsAreNumbers DEF Version
  <2>2. \A i \in 1 .. u : new.hss[k][i] = db.hss[k][i]
    BY <2>1, <1>n DEF Pruned
  <2> QED
    BY <2>1, <2>2, LatestSame
<1>5. new.lss = At(new, t)
  <2>1. At(new, t) = At(db, t)
    BY <1>4, <1>t
  <2>2. ASSUME NEW k \in Key, k \notin Affected(db.hss, t) PROVE db.lss[k] = At(db, t)[k]
    <3>1. \A i \in 1 .. db.last : i > t => db.hss[k][i] = None
      <4> SUFFICES ASSUME NEW i \in 1 .. db.last, i > t PROVE db.hss[k][i] = None
        OBVIOUS
      <4>1. i \in Version /\ i <= db.last
        BY <1>t, BoundsAreNumbers DEF Version
      <4> QED
        BY <4>1, <2>2 DEF Affected
    <3>2. Latest(db.hss[k], db.last, None) = Latest(db.hss[k], t, None)
      BY <3>1, <1>t, LatestSkip
    <3> QED
      BY <3>2 DEF At, Sound
  <2>3. \A k \in Key : new.lss[k] = At(db, t)[k]
    BY <2>2, <1>n
  <2>4. new.lss \in [Key -> Value \cup {None}] /\ At(db, t) \in [Key -> Value \cup {None}]
    BY <1>1, <1>a DEF Image, Map
  <2> QED
    BY <2>1, <2>3, <2>4
<1>6. \A u \in Version : new.ids[u] # None => new.ids[u] = At(new, u)
  <2> SUFFICES ASSUME NEW u \in Version, new.ids[u] # None PROVE new.ids[u] = At(new, u)
    OBVIOUS
  <2>1. ~(u > t)
    BY <1>3
  <2>2. u \in 0 .. t
    BY <2>1, <1>v, <1>t
  <2>3. At(new, u) = At(db, u)
    BY <2>2, <1>4
  <2>4. new.ids[u] = db.ids[u]
    BY <2>1, <1>n
  <2> QED
    BY <2>3, <2>4 DEF Sound
<1>7. Sound(new)
  BY <1>1, <1>2, <1>3, <1>5, <1>6, <1>n DEF Sound
<1> QED
  BY <1>4, <1>7, <1>n

(***************************************************************************)
(* What write caches show.                                                 *)
(***************************************************************************)
\* what cache d shows depends on the first d caches only
LEMMA ShownSame ==
    ASSUME NEW d \in Nat, NEW o, NEW p, NEW lss, \A i \in 1 .. d : o[i] = p[i]
    PROVE  Shown(o, lss, d) = Shown(p, lss, d)
<1> SUFFICES ASSUME NEW k \in Key
             PROVE  Latest([i \in 1 .. d |-> o[i][k]], d, lss[k])
                    = Latest([i \in 1 .. d |-> p[i][k]], d, lss[k])
  BY DEF Shown
<1>1. \A i \in 1 .. d : [j \in 1 .. d |-> o[j][k]][i] = [j \in 1 .. d |-> p[j][k]][i]
  OBVIOUS
<1> QED
  BY <1>1, LatestSame

\* the topmost cache shadows what is under it, deletions included
LEMMA ShownTop ==
    ASSUME NEW d \in Nat \ {0}, NEW o, NEW lss, NEW k \in Key
    PROVE  Shown(o, lss, d)[k] = IF o[d][k] # None THEN Held(o[d][k])
                                 ELSE IF d = 1 THEN lss[k] ELSE Shown(o, lss, d - 1)[k]
<1> DEFINE e == [i \in 1 .. d |-> o[i][k]]
           f == [i \in 1 .. d - 1 |-> o[i][k]]
<1>1. Shown(o, lss, d)[k] = Latest(e, d, lss[k])
  BY DEF Shown
<1>2. e[d] = o[d][k]
  OBVIOUS
<1>3. CASE o[d][k] # None
  <2>1. Latest(e, d, lss[k]) = Held(e[d])
    BY <1>2, <1>3, LatestTop
  <2> QED
    BY <1>1, <1>2, <1>3, <2>1
<1>4. CASE o[d][k] = None
  <2>1. d - 1 \in Nat /\ d - 1 <= d /\ \A i \in 1 .. d : i > d - 1 => e[i] = None
    BY <1>2, <1>4
  <2>2. Latest(e, d, lss[k]) = Latest(e, d - 1, lss[k])
    BY <2>1, LatestSkip
  <2>3. CASE d = 1
    BY <1>1, <1>4, <2>2, <2>3 DEF Latest
  <2>4. CASE d # 1
    <3>1. \A i \in 1 .. d - 1 : e[i] = f[i]
      OBVIOUS
    <3>2. Latest(e, d - 1, lss[k]) = Latest(f, d - 1, lss[k])
      BY <3>1, <2>1, LatestSame
    <3>3. Shown(o, lss, d - 1)[k] = Latest(f, d - 1, lss[k])
      BY DEF Shown
    <3> QED
      BY <1>1, <1>4, <2>2, <2>4, <3>2, <3>3
  <2> QED
    BY <2>3, <2>4
<1> QED
  BY <1>3, <1>4

\* an empty cache shows the latest state
LEMMA ShownNothing ==
    ASSUME NEW o, NEW lss \in Map, o[1] = NoOps
    PROVE  Shown(o, lss, 1) = lss
<1>1. ASSUME NEW k \in Key PROVE Shown(o, lss, 1)[k] = lss[k]
  <2>1. o[1][k] = None
    BY DEF NoOps
  <2>2. Shown(o, lss, 1)[k] = IF o[1][k] # None THEN Held(o[1][k])
                              ELSE IF 1 = 1 THEN lss[k] ELSE Shown(o, lss, 1 - 1)[k]
    <3>1. 1 \in Nat \ {0}
      OBVIOUS
    <3> QED
      BY <3>1, ShownTop
  <2> QED
    BY <2>1, <2>2
<1>2. Shown(o, lss, 1) = [k \in Key |-> Shown(o, lss, 1)[k]]
  BY DEF Shown
<1> QED
  BY <1>1, <1>2 DEF Map

\* the store's own cache shows the latest state as a commit would patch it
LEMMA ShownOne ==
    ASSUME NEW o, NEW lss
    PROVE  Shown(o, lss, 1) = Patched(lss, o[1])
<1>1. \A k \in Key : Shown(o, lss, 1)[k] = Patched(lss, o[1])[k]
  BY ShownTop DEF Patched
<1> QED
  BY <1>1 DEF Shown, Patched

(***************************************************************************)
(* The inductive invariant.  The images that a crash may leave are sound   *)
(* and are earlier states of the database; the cached tree has taken in    *)
(* exactly what is about to be committed; the version is ahead of the      *)
(* database only where a commit is on its way or has failed; a read-only   *)
(* store that has not looked at the latest state yet shows its version.    *)
(***************************************************************************)
DurableInv ==
    \A img \in durable :
        /\ Sound(img)
        /\ img.last <= db.last
        /\ \A v \in 0 .. img.last : At(img, v) = At(db, v)

CallerInv ==
    /\ db.last <= version /\ height <= db.last
    /\ step = "committing" => db.last < version
    /\ step = "written" => version = db.last
    /\ step \in {"clean", "written"} => depth = 1 /\ ops[1] = NoOps
    /\ step \in {"applied", "committing"} => depth = 1 /\ sc = ops[1]
    /\ step \in {"clean", "applying", "written"} => sc = None

ViewInv ==
    /\ view.at # "closed" => view.q \in 1 .. db.last
    /\ view.at \in {"opened", "latest"} => view.state = At(db, view.q)
    /\ view.at = "latest" => view.from = view.q
    /\ ViewsAreCommitted

Inv == TypeOK /\ DurableInv /\ CallerInv /\ ViewInv

\* the database is one of the images that a crash may leave
LEMMA DBSound ==
    ASSUME Inv
    PROVE  Sound(db) /\ db \in Image /\ db.last \in Nat /\ db.last <= MaxVersion
BY BoundsAreNumbers DEF Inv, TypeOK, DurableInv, Image

\* no operations at all are operations, and an empty map
LEMMA NoOpsIsOps == NoOps \in Ops /\ NoOps \in Map
BY DEF NoOps, Ops, Map, Entry

\* a new store satisfies the invariant
LEMMA InitInv == ASSUME Init PROVE Inv
<1>1. Sound(EmptyDB) /\ EmptyDB.last = 0 /\ EmptyDB \in Image
  BY EmptySound DEF EmptyDB, Sound
<1>2. TypeOK
  BY <1>1, NoOpsIsOps, BoundsAreNumbers DEF Init, TypeOK, View, Closed
<1>3. DurableInv
  BY <1>1 DEF Init, DurableInv
<1>4. CallerInv
  BY <1>1 DEF Init, CallerInv
<1>5. ViewInv
  BY DEF Init, ViewInv, ViewsAreCommitted, Closed
<1> QED
  BY <1>2, <1>3, <1>4, <1>5 DEF Inv

\* caches and the cached tree after they were dropped
LEMMA DroppedType ==
    ASSUME Dropped
    PROVE  /\ depth' = 1 /\ ops' \in [1 .. 1 -> Ops] /\ ops'[1] = NoOps /\ sc' = None
           /\ depth' \in 1 .. MaxDepth /\ ops' \in [1 .. depth' -> Ops]
BY NoOpsIsOps, BoundsAreNumbers DEF Dropped

\* nothing that the invariant says of images and views is disturbed by a step that
\* leaves the database, what is durable and the view alone
LEMMA SameDatabase ==
    ASSUME Inv, UNCHANGED <<db, durable, view>>
    PROVE  DurableInv' /\ ViewInv' /\ db' \in Image /\ durable' \subseteq Image /\ db' \in durable'
           /\ view' \in View
<1>1. \A v : At(db, v)' = At(db, v)
  BY DEF At
<1>2. DurableInv'
  BY <1>1 DEF Inv, DurableInv, Sound, At
<1>3. ViewInv'
  BY DEF Inv, ViewInv, ViewsAreCommitted, At
<1> QED
  BY <1>2, <1>3 DEF Inv, TypeOK

\* an image that is reopened, by a crash or a rollback
LEMMA ReopenedInv ==
    ASSUME NEW img, Sound(img), Reopened(img)
    PROVE  Inv'
<1>1. img \in Image /\ img.last \in 0 .. MaxVersion
  BY DEF Sound, Image
<1>2. Closed \in View
  BY NoOpsIsOps, BoundsAreNumbers DEF Closed, View
<1>3. TypeOK'
  BY <1>1, <1>2, DroppedType DEF TypeOK, Reopened
<1>4. DurableInv'
  <2>1. db' = img /\ durable' = {img} /\ img.last <= img.last
    BY <1>1, BoundsAreNumbers DEF Reopened
  <2>2. \A v : At(db, v)' = At(img, v)
    BY <2>1 DEF At
  <2> QED
    BY <2>1, <2>2 DEF DurableInv, Sound, At
<1>5. CallerInv'
  BY <1>1, DroppedType, BoundsAreNumbers DEF CallerInv, Reopened
<1>6. ViewInv'
  BY DEF ViewInv, ViewsAreCommitted, Closed, Reopened
<1> QED
  BY <1>3, <1>4, <1>5, <1>6 DEF Inv

\* a commit's batch is CommitOf what the caller wrote
LEMMA CommitStep ==
    ASSUME Inv, step = "committing"
    PROVE  /\ Committed = CommitOf(db, ops[1], version)
           /\ ops[1] \in Ops /\ version \in Version /\ version > db.last
           /\ Sound(Committed) /\ Committed.last = version
           /\ \A u \in 0 .. db.last : At(Committed, u) = At(db, u)
           /\ \A u \in 0 .. version - 1 : At(Committed, u) = At(db, u)
           /\ At(Committed, version) = Shown(ops, db.lss, 1)
<1>1. sc = ops[1] /\ depth = 1 /\ db.last < version
  BY DEF Inv, CallerInv
<1>2. Committed = CommitOf(db, ops[1], version)
  BY <1>1 DEF Committed, CommitOf
<1>3. ops[1] \in Ops
  BY <1>1 DEF Inv, TypeOK
<1>4. Sound(db) /\ db.last \in Nat
  BY DBSound
<1>5. version \in Version /\ version > db.last
  BY <1>1, <1>4, BoundsAreNumbers DEF Version, Inv, TypeOK
<1>6. /\ Sound(CommitOf(db, ops[1], version))
      /\ \A u \in 0 .. version - 1 : At(CommitOf(db, ops[1], version), u) = At(db, u)
      /\ At(CommitOf(db, ops[1], version), version) = Patched(db.lss, ops[1])
  BY <1>3, <1>4, <1>5, CommitIsSound
<1>7. Committed.last = version
  BY <1>2 DEF CommitOf
<1>8. \A u \in 0 .. db.last : u \in 0 .. version - 1
  BY <1>4, <1>5, BoundsAreNumbers DEF Version
<1>9. Patched(db.lss, ops[1]) = Shown(ops, db.lss, 1)
  BY ShownOne
<1> QED
  BY <1>2, <1>3, <1>5, <1>6, <1>7, <1>8, <1>9

\* what readers may see of a database is preserved when its history only grows
LEMMA HistoryGrows ==
    ASSUME Inv, view' = view, NEW new, db' = new, new.last \in Nat, db.last <= new.last,
           \A u \in 0 .. db.last : At(new, u) = At(db, u)
    PROVE  ViewInv'
<1>1. \A u : At(db, u)' = At(new, u)
  BY DEF At
<1>2. db.last \in Nat
  BY DBSound
<1>3. view.at # "closed" => view.q \in 1 .. new.last /\ view.q \in 0 .. db.last
  BY <1>2 DEF Inv, ViewInv
<1>4. (view.at # "closed" => view.q \in 1 .. db.last)'
  BY <1>3
<1>5. view.at \in {"opened", "latest"} => view.state = At(new, view.q)
  BY <1>3 DEF Inv, ViewInv
<1>6. view.at = "read" =>
        \/ view.state = At(new, view.q)
        \/ view.q >= view.from /\ \E v \in view.q .. new.last : view.state = At(new, v)
  <2> SUFFICES ASSUME view.at = "read"
               PROVE  \/ view.state = At(new, view.q)
                      \/ /\ view.q >= view.from
                         /\ \E v \in view.q .. new.last : view.state = At(new, v)
    OBVIOUS
  <2>1. CASE view.state = At(db, view.q)
    BY <2>1, <1>3
  <2>2. CASE view.q >= view.from /\ \E v \in view.q .. db.last : view.state = At(db, v)
    <3>1. PICK v \in view.q .. db.last : view.state = At(db, v)
      BY <2>2
    <3>2. v \in 0 .. db.last /\ v \in view.q .. new.last
      BY <1>2, <1>3
    <3> QED
      BY <2>2, <3>1, <3>2
  <2> QED
    BY <2>1, <2>2 DEF Inv, ViewInv, ViewsAreCommitted
<1>7. ViewsAreCommitted'
  BY <1>1, <1>6 DEF ViewsAreCommitted
<1>8. (view.at = "latest" => view.from = view.q)'
  BY DEF Inv, ViewInv
<1> QED
  BY <1>1, <1>4, <1>5, <1>7, <1>8 DEF ViewInv

\* one lemma per step from here on: a write
LEMMA WriteInv ==
    ASSUME Inv, NEW k \in Key, NEW x \in Value \cup {Dead}, Write(k, x)
    PROVE  Inv'
<1>1. UNCHANGED <<db, durable, view>>
  BY DEF Write
<1>2. ops' \in [1 .. depth' -> Ops]
  BY DEF Write, Inv, TypeOK, Ops, Entry
<1>3. TypeOK'
  BY <1>1, <1>2, SameDatabase DEF Write, Inv, TypeOK
<1>4. CallerInv'
  BY DEF Write, Inv, CallerInv
<1> QED
  BY <1>1, <1>3, <1>4, SameDatabase DEF Inv

\* wrapping, flushing and giving up caches
LEMMA CachesInv ==
    ASSUME Inv, TxnWrap \/ Flush \/ SetStore
    PROVE  Inv'
<1>1. UNCHANGED <<db, durable, view>>
  BY DEF TxnWrap, Flush, SetStore
<1>2. depth \in Nat \ {0} /\ depth <= MaxDepth /\ ops \in [1 .. depth -> Ops] /\ MaxDepth \in Nat
  BY BoundsAreNumbers DEF Inv, TypeOK
<1>3. depth' \in 1 .. MaxDepth /\ ops' \in [1 .. depth' -> Ops]
  <2>1. CASE TxnWrap
    BY <2>1, <1>2, NoOpsIsOps DEF TxnWrap
  <2>2. CASE Flush
    <3>1. \A i \in 1 .. depth - 1 : Over(ops[depth], ops[i]) \in Ops
      BY <1>2 DEF Over, Ops
    <3> QED
      BY <2>2, <3>1, <1>2 DEF Flush
  <2>3. CASE SetStore
    BY <2>3, <1>2 DEF SetStore
  <2> QED
    BY <2>1, <2>2, <2>3
<1>4. UNCHANGED <<version, height, sc, step>> /\ step = "applying"
  BY DEF TxnWrap, Flush, SetStore
<1>5. TypeOK'
  BY <1>1, <1>3, <1>4, SameDatabase DEF Inv, TypeOK
<1>6. CallerInv'
  BY <1>1, <1>4 DEF Inv, CallerInv
<1> QED
  BY <1>1, <1>5, <1>6, SameDatabase DEF Inv

\* the caller's other steps that leave the database alone
LEMMA CallerStepInv ==
    ASSUME Inv, Root \/ Reset \/ CommitStarts \/ CommitFails \/ CommitReturns
    PROVE  Inv'
<1>1. UNCHANGED <<db, durable, view>>
  BY DEF Root, Reset, CommitStarts, CommitFails, CommitReturns
<1>2. depth \in Nat \ {0} /\ version \in Nat /\ height \in Nat /\ db.last \in Nat /\ MaxVersion \in Nat
  BY DBSound, BoundsAreNumbers DEF Inv, TypeOK
<1>3. TypeOK' /\ CallerInv'
  <2>1. CASE Root
    BY <2>1, <1>1, <1>2, SameDatabase DEF Root, Inv, TypeOK, CallerInv
  <2>2. CASE Reset
    BY <2>2, <1>1, <1>2, SameDatabase, DroppedType DEF Reset, Inv, TypeOK, CallerInv
  <2>3. CASE CommitStarts
    BY <2>3, <1>1, <1>2, SameDatabase DEF CommitStarts, Inv, TypeOK, CallerInv
  <2>4. CASE CommitFails
    BY <2>4, <1>1, <1>2, SameDatabase, DroppedType DEF CommitFails, Inv, TypeOK, CallerInv
  <2>5. CASE CommitReturns
    BY <2>5, <1>1, <1>2, SameDatabase DEF CommitReturns, Inv, TypeOK, CallerInv
  <2> QED
    BY <2>1, <2>2, <2>3, <2>4, <2>5
<1> QED
  BY <1>1, <1>3, SameDatabase DEF Inv

\* the batch of a commit: the cached tree is of the operations that are written
LEMMA CommitAppliesInv ==
    ASSUME Inv, CommitApplies
    PROVE  Inv'
<1>1. /\ Sound(Committed) /\ Committed.last = version /\ version > db.last
      /\ \A u \in 0 .. db.last : At(Committed, u) = At(db, u)
  BY CommitStep DEF CommitApplies
<1>2. /\ db' = Committed /\ durable' = durable \cup {Committed} /\ step' = "written"
      /\ UNCHANGED <<version, height, view>>
  BY DEF CommitApplies
<1>3. /\ version \in Nat /\ height \in Nat /\ db.last \in Nat /\ MaxVersion \in Nat
      /\ version <= MaxVersion /\ height <= version /\ height <= db.last
  BY DBSound, BoundsAreNumbers DEF Inv, TypeOK, CallerInv
<1> HIDE DEF Committed
<1>4. Committed \in Image
  BY <1>1 DEF Sound
<1>5. TypeOK'
  BY <1>2, <1>4, DroppedType DEF CommitApplies, Inv, TypeOK
<1>6. \A u : At(db, u)' = At(Committed, u)
  BY <1>2 DEF At
<1>7. DurableInv'
  <2> SUFFICES ASSUME NEW img \in durable'
               PROVE  /\ Sound(img)
                      /\ img.last <= Committed.last
                      /\ \A v \in 0 .. img.last : At(img, v) = At(Committed, v)
    BY <1>2, <1>6 DEF DurableInv, Sound, At
  <2>1. CASE img = Committed
    BY <2>1, <1>1, <1>3
  <2>2. CASE img \in durable
    <3>1. /\ Sound(img) /\ img.last <= db.last
          /\ \A v \in 0 .. img.last : At(img, v) = At(db, v)
      BY <2>2 DEF Inv, DurableInv
    <3>2. img.last \in Nat
      BY <3>1, BoundsAreNumbers DEF Sound, Image
    <3>3. \A v \in 0 .. img.last : v \in 0 .. db.last
      BY <3>1, <3>2, <1>3
    <3>4. img.last <= Committed.last
      BY <3>1, <3>2, <1>1, <1>3
    <3> QED
      BY <3>1, <3>3, <3>4, <1>1
  <2> QED
    BY <2>1, <2>2, <1>2
<1>8. CallerInv'
  BY <1>1, <1>2, <1>3, DroppedType DEF CommitApplies, CallerInv
<1>9. ViewInv'
  <2>1. Committed.last \in Nat /\ db.last <= Committed.last
    BY <1>1, <1>3
  <2> QED
    BY <2>1, <1>1, <1>2, HistoryGrows
<1> QED
  BY <1>5, <1>7, <1>8, <1>9 DEF Inv

\* a sync forgets only images older than the synced one
LEMMA SyncedInv ==
    ASSUME Inv, Synced
    PROVE  Inv'
<1>1. PICK n \in 0 .. MaxVersion :
        /\ \E img \in durable : img.last = n
        /\ durable' = {img \in durable : img.last >= n}
  BY DEF Synced
<1>2. UNCHANGED <<db, version, height, depth, ops, sc, step, view>>
  BY DEF Synced
<1>3. db.last >= n
  <2>1. PICK img \in durable : img.last = n
    BY <1>1
  <2> QED
    BY <2>1, DBSound, BoundsAreNumbers DEF Inv, DurableInv
<1>4. db \in durable'
  BY <1>1, <1>3 DEF Inv, TypeOK
<1>5. TypeOK'
  BY <1>1, <1>2, <1>4 DEF Inv, TypeOK
<1>6. DurableInv'
  BY <1>1, <1>2 DEF Inv, DurableInv, Sound, At
<1>7. CallerInv'
  BY <1>2 DEF Inv, CallerInv
<1>8. ViewInv'
  BY <1>2 DEF Inv, ViewInv, ViewsAreCommitted, At
<1> QED
  BY <1>5, <1>6, <1>7, <1>8 DEF Inv

\* a read-only store being opened, which looks at two things in two steps
LEMMA ServerInv ==
    ASSUME Inv, Server
    PROVE  Inv'
<1>1. UNCHANGED <<db, durable, version, height, depth, ops, sc, step>>
  BY DEF Server, NewReadOnly, CompareVersion, ReadLatest, Discard
<1>2. /\ Sound(db) /\ db \in Image /\ db.last \in Nat /\ db.last <= MaxVersion /\ MaxVersion \in Nat
      /\ version \in Nat /\ height \in Nat /\ height <= db.last /\ db.last <= version
      /\ db.lss \in Map /\ db.lss = At(db, db.last)
  BY DBSound, BoundsAreNumbers DEF Inv, TypeOK, CallerInv, Sound, Image
<1>3. \A u : At(db, u)' = At(db, u)
  BY <1>1 DEF At
<1>4. view' \in View /\ ViewInv'
  <2>1. ASSUME NEW q \in Version, NewReadOnly(q) PROVE view' \in View /\ ViewInv'
    <3>1. q \in 1 .. db.last /\ q \in 0 .. MaxVersion
      BY <2>1, <1>2 DEF NewReadOnly
    <3>2. At(db, q) \in Map
      BY <3>1, <1>2, AtType
    <3>3. view' = [at |-> "opened", q |-> q, from |-> db.last, state |-> At(db, q)]
      BY <2>1 DEF NewReadOnly
    <3> QED
      BY <3>1, <3>2, <3>3, <1>1, <1>2, <1>3 DEF View, ViewInv, ViewsAreCommitted
  <2>2. CASE CompareVersion
    <3>1. /\ view \in View /\ view.at = "opened" /\ view.q \in 1 .. db.last
          /\ view.state = At(db, view.q)
      BY <2>2 DEF CompareVersion, Inv, TypeOK, ViewInv
    <3>2. view' = [view EXCEPT !.at = IF IsLatest THEN "latest" ELSE "read", !.from = db.last]
      BY <2>2 DEF CompareVersion
    <3>3. /\ view'.at = (IF IsLatest THEN "latest" ELSE "read") /\ view'.from = db.last
          /\ view'.q = view.q /\ view'.state = view.state /\ view' \in View
      <4>1. PICK a \in {"latest", "read"} : a = IF IsLatest THEN "latest" ELSE "read"
        OBVIOUS
      <4>2. view' = [view EXCEPT !.at = a, !.from = db.last]
        BY <3>2, <4>1
      <4>3. db.last \in 0 .. MaxVersion
        BY <1>2
      <4>4. /\ view'.at = a /\ view'.from = db.last /\ view'.q = view.q
            /\ view'.state = view.state /\ view' \in View
        BY <4>2, <4>3, <3>1 DEF View
      <4> QED
        BY <4>1, <4>4
    <3>4. IsLatest => db.last = view.q
      BY <3>1, <1>2 DEF IsLatest
    <3> QED
      BY <3>1, <3>3, <3>4, <1>1, <1>3 DEF ViewInv, ViewsAreCommitted
  <2>3. CASE ReadLatest
    <3>1. /\ view \in View /\ view.at = "latest" /\ view.q \in 1 .. db.last
          /\ view.from = view.q
      BY <2>3 DEF ReadLatest, Inv, TypeOK, ViewInv
    <3>2. view' = [view EXCEPT !.at = "read", !.state = db.lss]
      BY <2>3 DEF ReadLatest
    <3>3. /\ view'.at = "read" /\ view'.from = view.q
          /\ view'.q = view.q /\ view'.state = db.lss /\ view' \in View
      BY <3>1, <3>2, <1>2 DEF View
    <3>4. view.q \in Nat /\ db.last \in view.q .. db.last
      BY <3>1, <1>2
    <3> QED
      BY <3>1, <3>3, <3>4, <1>1, <1>2, <1>3 DEF ViewInv, ViewsAreCommitted
  <2>4. CASE Discard
    BY <2>4, NoOpsIsOps, <1>2 DEF Discard, Closed, View, ViewInv, ViewsAreCommitted
  <2> QED
    BY <2>1, <2>2, <2>3, <2>4 DEF Server
<1>5. TypeOK'
  BY <1>1, <1>4 DEF Inv, TypeOK
<1>6. DurableInv'
  BY <1>1 DEF Inv, DurableInv, Sound, At
<1>7. CallerInv'
  BY <1>1 DEF Inv, CallerInv
<1> QED
  BY <1>4, <1>5, <1>6, <1>7 DEF Inv

\* The inductive invariant holds of every behaviour of the store.
THEOREM Inductive == Spec => []Inv
<1>1. Init => Inv
  BY InitInv
<1>2. Inv /\ [Next]_vars => Inv'
  <2> SUFFICES ASSUME Inv, [Next]_vars PROVE Inv'
    OBVIOUS
  <2>1. CASE \E k \in Key, x \in Value \cup {Dead} : Write(k, x)
    BY <2>1, WriteInv
  <2>2. CASE TxnWrap \/ Flush \/ SetStore
    BY <2>2, CachesInv
  <2>3. CASE Root \/ Reset \/ CommitStarts \/ CommitFails \/ CommitReturns
    BY <2>3, CallerStepInv
  <2>4. CASE CommitApplies
    BY <2>4, CommitAppliesInv
  <2>5. CASE Synced
    BY <2>5, SyncedInv
  <2>6. CASE Server
    BY <2>6, ServerInv
  <2>7. CASE Crash
    <3>1. PICK img \in durable : Reopened(img)
      BY <2>7 DEF Crash
    <3>2. Sound(img)
      BY DEF Inv, DurableInv
    <3> QED
      BY <3>1, <3>2, ReopenedInv
  <2>8. ASSUME NEW t \in Version, Rollback(t) PROVE Inv'
    <3>1. t < db.last /\ Reopened(RolledBack(t))
      BY <2>8 DEF Rollback
    <3>2. Sound(RolledBack(t))
      BY <3>1, DBSound, RollbackIsSound
    <3> QED
      BY <3>1, <3>2, ReopenedInv
  <2>9. CASE UNCHANGED vars
    <3>1. UNCHANGED <<db, durable, view>> /\ UNCHANGED <<version, height, depth, ops, sc, step>>
      BY <2>9 DEF vars
    <3>2. TypeOK' /\ CallerInv'
      BY <3>1 DEF Inv, TypeOK, CallerInv
    <3> QED
      BY <3>1, <3>2, SameDatabase DEF Inv
  <2> QED
    BY <2>1, <2>2, <2>3, <2>4, <2>5, <2>6, <2>7, <2>8, <2>9 DEF Next, Caller
<1> QED
  BY <1>1, <1>2, PTL DEF Spec

\* TypeOK, for any keys, values and bounds.
THEOREM TypeCorrect == Spec => []TypeOK
BY Inductive, PTL DEF Inv

\* The latest state and the history agree, in the database and in what a crash
\* may leave of it, however commits, crashes and rollbacks follow one another.
THEOREM LatestStateIsHistory == Spec => []LatestIsHistory
<1>1. Inv => LatestIsHistory
  BY DEF Inv, DurableInv, Sound, LatestIsHistory
<1> QED
  BY <1>1, Inductive, PTL

\* The recorded root of a version is the root of its state.
THEOREM RootsAreRight == Spec => []RootsAreOfTheirVersion
<1>1. Inv => RootsAreOfTheirVersion
  BY DBSound DEF Sound, RootsAreOfTheirVersion
<1> QED
  BY <1>1, Inductive, PTL

\* A read-only store shows a committed state.
THEOREM ViewsShowCommits == Spec => []ViewsAreCommitted
BY Inductive, PTL DEF Inv, ViewInv

(***************************************************************************)
(* Refinement: every step of the store is a step of VersionedMap.          *)
(***************************************************************************)
\* a step that leaves the database and the caches alone is no step of the map
LEMMA MapStutters ==
    ASSUME Inv, UNCHANGED <<db, depth, ops>>
    PROVE  UNCHANGED Abstract!vars
BY DEF Abstract!vars, Get, Shown, At

\* the committed map of a fresh cache
LEMMA Fresh ==
    ASSUME NEW img, Sound(img), NEW o, o[1] = NoOps
    PROVE  Shown(o, img.lss, 1) = At(img, img.last)
BY ShownNothing DEF Sound, Image

\* the map forgets what was not committed and, perhaps, some versions
LEMMA MapRewinds ==
    ASSUME Inv, NEW img, Sound(img), db' = img, Dropped, img.last <= db.last,
           \A v \in 0 .. img.last : At(img, v) = At(db, v)
    PROVE  Abstract!Rewind
<1>1. db.last \in Nat /\ img.last \in Nat
  BY DBSound, BoundsAreNumbers DEF Sound, Image
<1>2. depth' = 1 /\ ops'[1] = NoOps
  BY DroppedType
<1>3. \A u : At(db, u)' = At(img, u)
  BY DEF At
<1>4. Get(1)' = At(img, img.last)
  <2>1. Get(1)' = Shown(ops', img.lss, 1)
    BY DEF Get, Shown
  <2> QED
    BY <2>1, <1>2, Fresh
<1>5. [i \in 1 .. depth |-> Get(i)]' = [i \in 1 .. 1 |-> At(img, img.last)]
  <2>1. \A i \in 1 .. 1 : i = 1
    OBVIOUS
  <2>2. [i \in 1 .. depth |-> Get(i)]' = [i \in 1 .. 1 |-> Get(i)']
    BY <1>2
  <2> QED
    BY <2>1, <2>2, <1>4
<1>6. [v \in 0 .. db.last |-> At(db, v)]' = [v \in 0 .. img.last |-> At(img, v)]
  BY <1>3
<1>7. [v \in 0 .. img.last |-> At(img, v)]
        = [v \in 0 .. img.last |-> [u \in 0 .. db.last |-> At(db, u)][v]]
  BY <1>1
<1>8. img.last \in 0 .. db.last
  BY <1>1
<1>9. [v \in 0 .. img.last |-> At(img, v)][img.last] = At(img, img.last)
  BY <1>1
<1> QED
  BY <1>2, <1>5, <1>6, <1>7, <1>8, <1>9 DEF Abstract!Rewind

\* what cache d shows depends on the caches up to d only, and on their types
LEMMA CacheTypes ==
    ASSUME Inv
    PROVE  /\ depth \in Nat \ {0} /\ depth <= MaxDepth /\ MaxDepth \in Nat
           /\ ops \in [1 .. depth -> [Key -> Entry]] /\ db.lss \in Map
           /\ \A i \in 1 .. depth : i \in Nat
BY DBSound, BoundsAreNumbers DEF Inv, TypeOK, Ops, Sound, Image

\* a write to the topmost cache is a write to the topmost draft
LEMMA MapWrites ==
    ASSUME Inv, NEW k \in Key, NEW x \in Value \cup {Dead}, Write(k, x)
    PROVE  Abstract!Write
<1>t. /\ depth \in Nat \ {0} /\ ops \in [1 .. depth -> [Key -> Entry]]
      /\ \A i \in 1 .. depth : i \in Nat
  BY CacheTypes
<1>1. /\ ops' = [ops EXCEPT ![depth] = [@ EXCEPT ![k] = x]]
      /\ db' = db /\ depth' = depth /\ x # None
  BY EntriesDiffer DEF Write
<1>2. ASSUME NEW i \in 1 .. depth, i # depth PROVE Get(i)' = Get(i)
  <2>1. \A j \in 1 .. i : ops'[j] = ops[j]
    BY <1>t, <1>1, <1>2
  <2>2. Shown(ops', db.lss, i) = Shown(ops, db.lss, i)
    BY <2>1, <1>t, ShownSame
  <2> QED
    BY <2>2, <1>1 DEF Get, Shown
<1>3. Get(depth)' = [Get(depth) EXCEPT ![k] = Held(x)]
  <2>1. ASSUME NEW j \in Key
        PROVE  Shown(ops', db.lss, depth)[j] = [Get(depth) EXCEPT ![k] = Held(x)][j]
    <3>1. Shown(ops', db.lss, depth)[j]
             = IF ops'[depth][j] # None THEN Held(ops'[depth][j])
               ELSE IF depth = 1 THEN db.lss[j] ELSE Shown(ops', db.lss, depth - 1)[j]
      BY <1>t, ShownTop
    <3>2. Shown(ops, db.lss, depth)[j]
             = IF ops[depth][j] # None THEN Held(ops[depth][j])
               ELSE IF depth = 1 THEN db.lss[j] ELSE Shown(ops, db.lss, depth - 1)[j]
      BY <1>t, ShownTop
    <3>3. depth # 1 => Shown(ops', db.lss, depth - 1) = Shown(ops, db.lss, depth - 1)
      <4> SUFFICES ASSUME depth # 1
                   PROVE  Shown(ops', db.lss, depth - 1) = Shown(ops, db.lss, depth - 1)
        OBVIOUS
      <4>1. depth - 1 \in Nat /\ \A i \in 1 .. depth - 1 : ops'[i] = ops[i]
        BY <1>t, <1>1
      <4> QED
        BY <4>1, ShownSame
    <3>4. ops'[depth] = [ops[depth] EXCEPT ![k] = x] /\ ops[depth] \in [Key -> Entry]
      BY <1>t, <1>1
    <3>5. CASE j = k
      <4>1. ops'[depth][j] = x
        BY <3>4, <3>5
      <4>2. Shown(ops', db.lss, depth)[j] = Held(x)
        BY <3>1, <4>1, <1>1
      <4> QED
        BY <3>5, <4>2 DEF Get, Shown
    <3>6. CASE j # k
      <4>1. ops'[depth][j] = ops[depth][j]
        BY <3>4, <3>6
      <4>2. Shown(ops', db.lss, depth)[j] = Shown(ops, db.lss, depth)[j]
        BY <3>1, <3>2, <3>3, <4>1
      <4> QED
        BY <3>6, <4>2 DEF Get, Shown
    <3> QED
      BY <3>5, <3>6
  <2>2. Get(depth)' = [j \in Key |-> Shown(ops', db.lss, depth)[j]]
    BY <1>1 DEF Get, Shown
  <2>3. [Get(depth) EXCEPT ![k] = Held(x)] = [j \in Key |-> [Get(depth) EXCEPT ![k] = Held(x)][j]]
    BY DEF Get, Shown
  <2> QED
    BY <2>1, <2>2, <2>3
<1>4. Held(x) \in Value \cup {None}
  BY DEF Held
<1> DEFINE draft == [i \in 1 .. depth |-> Get(i)]
<1>5. draft' = [i \in 1 .. depth |-> Get(i)']
  BY <1>1
<1>6. [draft EXCEPT ![depth] = [@ EXCEPT ![k] = Held(x)]]
        = [i \in 1 .. depth |-> IF i = depth THEN [Get(depth) EXCEPT ![k] = Held(x)] ELSE Get(i)]
  BY <1>t
<1>7. draft' = [draft EXCEPT ![depth] = [@ EXCEPT ![k] = Held(x)]]
  <2>1. \A i \in 1 .. depth :
          Get(i)' = IF i = depth THEN [Get(depth) EXCEPT ![k] = Held(x)] ELSE Get(i)
    BY <1>1, <1>2, <1>3 DEF Get, Shown
  <2>2. [i \in 1 .. depth |-> Get(i)']
        = [i \in 1 .. depth |-> IF i = depth THEN [Get(depth) EXCEPT ![k] = Held(x)] ELSE Get(i)]
    BY <2>1
  <2> HIDE DEF draft
  <2> QED
    BY <2>2, <1>5, <1>6
<1>8. UNCHANGED <<depth, db.last, [v \in 0 .. db.last |-> At(db, v)]>>
  BY <1>1 DEF At
<1> QED
  BY <1>4, <1>7, <1>8 DEF Abstract!Write

\* an empty cache shows what the one below it shows
LEMMA MapBegins ==
    ASSUME Inv, TxnWrap
    PROVE  Abstract!Begin
<1>t. depth \in Nat \ {0} /\ \A i \in 1 .. depth : i \in Nat
  BY CacheTypes
<1>1. /\ depth' = depth + 1 /\ db' = db
      /\ ops' = [i \in 1 .. depth + 1 |-> IF i <= depth THEN ops[i] ELSE NoOps]
  BY DEF TxnWrap
<1>2. ASSUME NEW i \in 1 .. depth PROVE Shown(ops', db.lss, i) = Shown(ops, db.lss, i)
  <2>1. \A j \in 1 .. i : ops'[j] = ops[j]
    BY <1>t, <1>1
  <2> QED
    BY <2>1, <1>t, ShownSame
<1>3. Shown(ops', db.lss, depth + 1) = Shown(ops, db.lss, depth)
  <2>1. ASSUME NEW j \in Key
        PROVE  Shown(ops', db.lss, depth + 1)[j] = Shown(ops, db.lss, depth)[j]
    <3>1. ops'[depth + 1][j] = None
      BY <1>t, <1>1 DEF NoOps
    <3>2. Shown(ops', db.lss, depth + 1)[j]
             = IF ops'[depth + 1][j] # None THEN Held(ops'[depth + 1][j])
               ELSE IF depth + 1 = 1 THEN db.lss[j] ELSE Shown(ops', db.lss, (depth + 1) - 1)[j]
      <4>1. depth + 1 \in Nat \ {0}
        BY <1>t
      <4> QED
        BY <4>1, ShownTop
    <3>3. (depth + 1) - 1 = depth /\ depth + 1 # 1 /\ depth \in 1 .. depth
      BY <1>t
    <3> QED
      BY <3>1, <3>2, <3>3, <1>2
  <2> QED
    BY <2>1 DEF Shown
<1>4. \A i : Get(i)' = Shown(ops', db.lss, i)
  BY <1>1 DEF Get, Shown
<1> DEFINE draft == [i \in 1 .. depth |-> Get(i)]
<1>5. draft' = [i \in 1 .. depth + 1 |-> Shown(ops', db.lss, i)]
  BY <1>1, <1>4
<1>6. \A i \in 1 .. depth + 1 : (i <= depth /\ i \in 1 .. depth) \/ (i = depth + 1 /\ ~(i <= depth))
  BY <1>t
<1>7. draft' = [i \in 1 .. depth + 1 |-> IF i <= depth THEN draft[i] ELSE draft[depth]]
  <2>1. depth \in 1 .. depth
    BY <1>t
  <2>2. \A i \in 1 .. depth + 1 :
           Shown(ops', db.lss, i) = IF i <= depth THEN draft[i] ELSE draft[depth]
    BY <2>1, <1>2, <1>3, <1>6 DEF Get
  <2> QED
    BY <2>2, <1>5
<1>8. UNCHANGED <<db.last, [v \in 0 .. db.last |-> At(db, v)]>>
  BY <1>1 DEF At
<1> QED
  BY <1>1, <1>7, <1>8 DEF Abstract!Begin

\* a flushed cache is shown by the one it went into
LEMMA MapKeeps ==
    ASSUME Inv, Flush
    PROVE  Abstract!Keep
<1>t. depth \in Nat \ {0} /\ \A i \in 1 .. depth : i \in Nat
  BY CacheTypes
<1>1. /\ depth > 1 /\ depth' = depth - 1 /\ db' = db
      /\ ops' = [i \in 1 .. depth - 1 |->
                    IF i < depth - 1 THEN ops[i] ELSE Over(ops[depth], ops[i])]
  BY DEF Flush
<1>n. depth - 1 \in Nat \ {0} /\ depth - 1 \in 1 .. depth - 1
  BY <1>t, <1>1
<1>2. ASSUME NEW i \in 1 .. depth - 1, i < depth - 1
      PROVE  Shown(ops', db.lss, i) = Shown(ops, db.lss, i)
  <2>1. i \in Nat /\ \A j \in 1 .. i : ops'[j] = ops[j]
    BY <1>t, <1>1, <1>2
  <2> QED
    BY <2>1, ShownSame
<1>3. Shown(ops', db.lss, depth - 1) = Shown(ops, db.lss, depth)
  <2>1. ASSUME NEW j \in Key
        PROVE  Shown(ops', db.lss, depth - 1)[j] = Shown(ops, db.lss, depth)[j]
    <3>1. ops'[depth - 1][j]
            = IF ops[depth][j] # None THEN ops[depth][j] ELSE ops[depth - 1][j]
      BY <1>n, <1>1 DEF Over
    <3>p. PICK e \in Nat \ {0} : e = depth - 1
      BY <1>n
    <3>2. Shown(ops', db.lss, e)[j]
             = IF ops'[e][j] # None THEN Held(ops'[e][j])
               ELSE IF e = 1 THEN db.lss[j] ELSE Shown(ops', db.lss, e - 1)[j]
      BY ShownTop
    <3>3. Shown(ops, db.lss, depth)[j]
             = IF ops[depth][j] # None THEN Held(ops[depth][j])
               ELSE IF depth = 1 THEN db.lss[j] ELSE Shown(ops, db.lss, depth - 1)[j]
      BY <1>t, ShownTop
    <3>4. Shown(ops, db.lss, e)[j]
             = IF ops[e][j] # None THEN Held(ops[e][j])
               ELSE IF e = 1 THEN db.lss[j] ELSE Shown(ops, db.lss, e - 1)[j]
      BY ShownTop
    <3>5. e # 1 => Shown(ops', db.lss, e - 1) = Shown(ops, db.lss, e - 1)
      <4> SUFFICES ASSUME e # 1 PROVE Shown(ops', db.lss, e - 1) = Shown(ops, db.lss, e - 1)
        OBVIOUS
      <4>1. e - 1 \in 1 .. depth - 1 /\ e - 1 < depth - 1
        BY <3>p, <1>t
      <4> QED
        BY <4>1, <1>2
    <3>6. depth # 1
      BY <1>1, <1>t
    <3> HIDE DEF Held
    <3> QED
      BY <3>p, <3>1, <3>2, <3>3, <3>4, <3>5, <3>6
  <2> QED
    BY <2>1 DEF Shown
<1>4. \A i : Get(i)' = Shown(ops', db.lss, i)
  BY <1>1 DEF Get, Shown
<1> DEFINE draft == [i \in 1 .. depth |-> Get(i)]
<1>5. draft' = [i \in 1 .. depth - 1 |-> Shown(ops', db.lss, i)]
  BY <1>1, <1>4
<1>6. \A i \in 1 .. depth - 1 :
        i \in 1 .. depth /\ (i < depth - 1 \/ (i = depth - 1 /\ ~(i < depth - 1)))
  BY <1>t
<1>7. draft' = [i \in 1 .. depth - 1 |-> IF i < depth - 1 THEN draft[i] ELSE draft[depth]]
  <2>1. depth \in 1 .. depth
    BY <1>t
  <2>2. \A i \in 1 .. depth - 1 :
           Shown(ops', db.lss, i) = IF i < depth - 1 THEN draft[i] ELSE draft[depth]
    BY <2>1, <1>2, <1>3, <1>6 DEF Get
  <2> QED
    BY <2>2, <1>5
<1>8. UNCHANGED <<db.last, [v \in 0 .. db.last |-> At(db, v)]>>
  BY <1>1 DEF At
<1> QED
  BY <1>1, <1>7, <1>8 DEF Abstract!Keep

\* with caches given up, the map is what it was before them
LEMMA MapDrops ==
    ASSUME Inv, SetStore
    PROVE  Abstract!Drop
<1>t. depth \in Nat \ {0} /\ \A i \in 1 .. depth : i \in Nat
  BY CacheTypes
<1>1. PICK d \in 1 .. depth - 1 : depth' = d /\ ops' = [i \in 1 .. d |-> ops[i]]
  BY DEF SetStore
<1>d. db' = db /\ d \in Nat
  BY <1>t DEF SetStore
<1>2. ASSUME NEW i \in 1 .. d PROVE Get(i)' = Get(i)
  <2>1. i \in Nat /\ \A j \in 1 .. i : ops'[j] = ops[j]
    BY <1>t, <1>1, <1>d
  <2>2. Shown(ops', db.lss, i) = Shown(ops, db.lss, i)
    BY <2>1, ShownSame
  <2> QED
    BY <2>2, <1>d DEF Get, Shown
<1> DEFINE draft == [i \in 1 .. depth |-> Get(i)]
<1>3. draft' = [i \in 1 .. d |-> Get(i)']
  BY <1>1
<1>4. \A i \in 1 .. d : i \in 1 .. depth
  BY <1>t
<1>5. draft' = [i \in 1 .. d |-> draft[i]]
  BY <1>2, <1>3, <1>4
<1>6. UNCHANGED <<db.last, [v \in 0 .. db.last |-> At(db, v)]>>
  BY <1>d DEF At
<1> QED
  BY <1>1, <1>5, <1>6 DEF Abstract!Drop

\* a commit makes the lowest draft the next version; numbers that failed writes used
\* up show the version before them
LEMMA MapCommits ==
    ASSUME Inv, CommitApplies
    PROVE  Abstract!Commit
<1>1. /\ Sound(Committed) /\ Committed.last = version /\ version > db.last
      /\ \A u \in 0 .. version - 1 : At(Committed, u) = At(db, u)
      /\ At(Committed, version) = Shown(ops, db.lss, 1)
      /\ version \in Version
  BY CommitStep DEF CommitApplies
<1>2. db' = Committed /\ depth = 1 /\ depth' = 1 /\ ops'[1] = NoOps
  BY DroppedType DEF CommitApplies, Inv, CallerInv
<1>3. Sound(db) /\ db.last \in Nat /\ version \in Nat /\ version <= MaxVersion
  BY DBSound, <1>1, BoundsAreNumbers DEF Version
<1> HIDE DEF Committed
<1>4. \A u : At(db, u)' = At(Committed, u)
  BY <1>2 DEF At
<1>5. Get(1)' = Get(1)
  <2>1. Get(1)' = Shown(ops', Committed.lss, 1)
    BY <1>2 DEF Get, Shown
  <2>2. Get(1)' = At(Committed, version)
    BY <2>1, <1>1, <1>2, Fresh
  <2> QED
    BY <2>2, <1>1 DEF Get
<1> DEFINE draft == [i \in 1 .. depth |-> Get(i)]
           history == [v \in 0 .. db.last |-> At(db, v)]
<1>6. draft' = draft /\ draft[1] = Get(1)
  <2>1. draft' = [i \in 1 .. 1 |-> Get(i)'] /\ draft = [i \in 1 .. 1 |-> Get(i)]
    BY <1>2
  <2>2. \A i \in 1 .. 1 : i = 1
    OBVIOUS
  <2>3. 1 \in 1 .. 1
    OBVIOUS
  <2> QED
    BY <2>1, <2>2, <2>3, <1>5
<1>7. history' = [v \in 0 .. version |-> At(Committed, v)]
  BY <1>1, <1>2, <1>4
<1>8. ASSUME NEW v \in 0 .. version
      PROVE  At(Committed, v) = IF v <= db.last THEN history[v] ELSE
                                IF v < version THEN history[db.last] ELSE draft[1]
  <2>1. CASE v <= db.last
    <3>1. v \in 0 .. version - 1 /\ v \in 0 .. db.last
      BY <2>1, <1>1, <1>3
    <3> QED
      BY <2>1, <3>1, <1>1
  <2>2. CASE ~(v <= db.last) /\ v < version
    <3>1. v \in 0 .. version - 1 /\ v \in db.last .. MaxVersion /\ db.last \in 0 .. db.last
      BY <2>2, <1>1, <1>3, BoundsAreNumbers
    <3>2. At(db, v) = At(db, db.last)
      BY <3>1, <1>3, AtBeyond
    <3> QED
      BY <2>2, <3>1, <3>2, <1>1
  <2>3. CASE v = version
    <3>1. ~(v <= db.last) /\ ~(v < version)
      BY <2>3, <1>1, <1>3
    <3> QED
      BY <2>3, <3>1, <1>1, <1>6 DEF Get
  <2> QED
    BY <2>1, <2>2, <2>3, <1>3
<1>9. history' = [v \in 0 .. version |-> IF v <= db.last THEN history[v] ELSE
                                         IF v < version THEN history[db.last] ELSE draft[1]]
  BY <1>7, <1>8
<1>10. db'.last = version /\ db'.last > db.last /\ db'.last \in Nat
  BY <1>1, <1>2, <1>3
<1> HIDE DEF draft, history
<1>11. /\ depth = 1 /\ db'.last > db.last /\ db'.last \in Nat
       /\ history' = [v \in 0 .. db'.last |->
                        IF v <= db.last THEN history[v] ELSE
                        IF v < db'.last THEN history[db.last] ELSE draft[1]]
       /\ UNCHANGED <<depth, draft>>
  BY <1>2, <1>6, <1>9, <1>10
<1> QED
  BY <1>11 DEF Abstract!Commit, draft, history

\* The store implements the versioned map, for any keys, values and bounds.
THEOREM StoreIsVersionedMap == Spec => ImplementsVersionedMap
<1>1. Init => Abstract!Init
  <2> SUFFICES ASSUME Init PROVE Abstract!Init
    OBVIOUS
  <2>1. db = EmptyDB /\ depth = 1 /\ ops[1] = NoOps
    BY DEF Init
  <2>2. Get(1) = NoOps /\ At(db, 0) = NoOps /\ db.last = 0
    <3>1. Sound(EmptyDB) /\ At(EmptyDB, 0) = NoOps /\ EmptyDB.last = 0
      BY EmptySound DEF EmptyDB
    <3> QED
      BY <2>1, <3>1, Fresh DEF Get
  <2>3. [i \in 1 .. depth |-> Get(i)] = [i \in 1 .. 1 |-> NoOps]
    <3>1. \A i \in 1 .. 1 : i = 1
      OBVIOUS
    <3> QED
      BY <3>1, <2>1, <2>2
  <2>4. [v \in 0 .. db.last |-> At(db, v)] = [v \in 0 .. 0 |-> NoOps]
    <3>1. \A v \in 0 .. 0 : v = 0
      OBVIOUS
    <3> QED
      BY <3>1, <2>2
  <2>5. Abstract!Empty = NoOps
    BY DEF Abstract!Empty, NoOps
  <2> QED
    BY <2>1, <2>2, <2>3, <2>4, <2>5 DEF Abstract!Init
<1>2. Inv /\ [Next]_vars => [Abstract!Next]_(Abstract!vars)
  <2> SUFFICES ASSUME Inv, [Next]_vars PROVE Abstract!Next \/ UNCHANGED Abstract!vars
    OBVIOUS
  <2>1. CASE \E k \in Key, x \in Value \cup {Dead} : Write(k, x)
    BY <2>1, MapWrites DEF Abstract!Next
  <2>2. CASE TxnWrap
    BY <2>2, MapBegins DEF Abstract!Next
  <2>3. CASE Flush
    BY <2>3, MapKeeps DEF Abstract!Next
  <2>4. CASE SetStore
    BY <2>4, MapDrops DEF Abstract!Next
  <2>5. CASE CommitApplies
    BY <2>5, MapCommits DEF Abstract!Next
  <2>6. CASE Reset \/ CommitFails
    <3>1. Dropped /\ db' = db /\ Sound(db) /\ db.last <= db.last
      BY <2>6, DBSound DEF Reset, CommitFails
    <3> QED
      BY <3>1, MapRewinds DEF Abstract!Next
  <2>7. CASE Crash
    <3>1. PICK img \in durable : Reopened(img)
      BY <2>7 DEF Crash
    <3>2. /\ Sound(img) /\ img.last <= db.last /\ db' = img /\ Dropped
          /\ \A v \in 0 .. img.last : At(img, v) = At(db, v)
      BY <3>1 DEF Inv, DurableInv, Reopened
    <3> QED
      BY <3>2, MapRewinds DEF Abstract!Next
  <2>8. ASSUME NEW t \in Version, Rollback(t) PROVE Abstract!Next
    <3>1. t < db.last /\ db' = RolledBack(t) /\ Dropped
      BY <2>8 DEF Rollback, Reopened
    <3>2. /\ Sound(RolledBack(t)) /\ RolledBack(t).last = t
          /\ \A u \in 0 .. t : At(RolledBack(t), u) = At(db, u)
      BY <3>1, DBSound, RollbackIsSound
    <3>3. t <= db.last
      BY <3>1, DBSound, BoundsAreNumbers DEF Version
    <3> HIDE DEF RolledBack
    <3> QED
      BY <3>1, <3>2, <3>3, MapRewinds DEF Abstract!Next
  <2>9. CASE \/ Root \/ CommitStarts \/ CommitReturns \/ Synced \/ Server \/ UNCHANGED vars
    <3>1. UNCHANGED <<db, depth, ops>>
      BY <2>9 DEF Root, CommitStarts, CommitReturns, Synced, Server, vars,
                  NewReadOnly, CompareVersion, ReadLatest, Discard
    <3> QED
      BY <3>1, MapStutters
  <2> QED
    BY <2>1, <2>2, <2>3, <2>4, <2>5, <2>6, <2>7, <2>8, <2>9 DEF Next, Caller
<1> QED
  BY <1>1, <1>2, Inductive, PTL DEF Spec, ImplementsVersionedMap, Abstract!Spec
=============================================================================
