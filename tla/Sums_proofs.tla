---------------------------- MODULE Sums_proofs -----------------------------
(***************************************************************************)
(* The sums of natural numbers that the models are written with, for any   *)
(* finite set and any function: the facts about them that the proofs about *)
(* voting power, the mempool's byte counter and the staked tokens cite.    *)
(*                                                                         *)
(* The community modules define a sum as the value of a recursive function *)
(* over subsets.  Such a function exists because one can be exhibited: the *)
(* sum of f over s is the number of pairs <<x, i>> with x in s and i in    *)
(* 1 .. f[x].  Induction is over the set of subsets that have a property,  *)
(* which is a set and not an operator (SubsetInduction).                   *)
(***************************************************************************)
EXTENDS Integers, FiniteSets, Functions, FiniteSetsExt, FiniteSetTheorems,
        WellFoundedInduction, TLAPS

\* What holds of a subset whenever it holds of it with any one element taken out
\* holds of the whole finite set.
LEMMA SubsetInduction ==
    ASSUME NEW S, IsFiniteSet(S), NEW T,
           \A s \in SUBSET S : (\A x \in s : s \ {x} \in T) => s \in T
    PROVE  \A s \in SUBSET S : s \in T
<1> DEFINE Bad == {s \in SUBSET S : s \notin T}
<1>1. SUFFICES ASSUME Bad # {} PROVE FALSE
  OBVIOUS
<1>2. IsWellFoundedOn(StrictSubsetOrdering(S), SUBSET S)
  BY FS_StrictSubsetOrderingWellFounded, FS_FiniteSubsetsOfFinite
<1>3. PICK s \in Bad : \A r \in Bad : <<r, s>> \notin StrictSubsetOrdering(S)
  <2>1. Bad \subseteq SUBSET S
    OBVIOUS
  <2> HIDE DEF Bad
  <2> QED
    BY <1>1, <1>2, <2>1, WFMin
<1>4. ASSUME NEW x \in s PROVE s \ {x} \in T
  <2>1. <<s \ {x}, s>> \in StrictSubsetOrdering(S)
    BY DEF StrictSubsetOrdering
  <2> QED
    BY <1>3, <2>1
<1> QED
  BY <1>4

-----------------------------------------------------------------------------
(* What a sum is *)

\* the units that make up the sum of f over s
Units(f, s) == UNION {{x} \X (1 .. f[x]) : x \in s}

\* the equation that the recursive function of a sum solves
SumsOver(h, f, S) ==
    h = [s \in SUBSET S |-> IF s = {} THEN 0
                            ELSE LET x == CHOOSE y \in s : TRUE
                                 IN  f[x] + h[s \ {x}]]

LEMMA UnitsStep ==
    ASSUME NEW f, NEW s, NEW x \in s, f[x] \in Nat, IsFiniteSet(Units(f, s \ {x}))
    PROVE  /\ IsFiniteSet(Units(f, s))
           /\ Cardinality(Units(f, s)) = f[x] + Cardinality(Units(f, s \ {x}))
<1> DEFINE A == Units(f, s \ {x})
           B == {x} \X (1 .. f[x])
<1>1. Units(f, s) = A \cup B /\ A \cap B = {}
  BY DEF Units
<1>2. IsFiniteSet(B) /\ Cardinality(B) = f[x]
  <2>1. IsFiniteSet({x}) /\ Cardinality({x}) = 1
    BY FS_Singleton
  <2>2. IsFiniteSet(1 .. f[x]) /\ Cardinality(1 .. f[x]) = f[x]
    BY FS_Interval
  <2>3. IsFiniteSet(B) /\ Cardinality(B) = Cardinality({x}) * Cardinality(1 .. f[x])
    BY ONLY <2>1, <2>2, FS_Product
  <2> QED
    BY <2>1, <2>2, <2>3
<1>3. IsFiniteSet(A) /\ Cardinality(A) \in Nat
  BY FS_CardinalityType
<1> HIDE DEF A, B
<1>4. IsFiniteSet(A \cup B)
      /\ Cardinality(A \cup B) = Cardinality(A) + Cardinality(B) - Cardinality(A \cap B)
  BY ONLY <1>2, <1>3, FS_Union
<1>5. Cardinality(A \cap B) = 0
  BY <1>1, FS_EmptySet
<1> QED
  BY <1>1, <1>2, <1>3, <1>4, <1>5 DEF A

LEMMA UnitsFinite ==
    ASSUME NEW S, IsFiniteSet(S), NEW f, \A x \in S : f[x] \in Nat
    PROVE  \A s \in SUBSET S : IsFiniteSet(Units(f, s)) /\ Cardinality(Units(f, s)) \in Nat
<1> DEFINE T == {s \in SUBSET S : IsFiniteSet(Units(f, s))}
<1>1. ASSUME NEW s \in SUBSET S, \A x \in s : s \ {x} \in T
      PROVE  s \in T
  <2>1. CASE s = {}
    <3>1. Units(f, s) = {}
      BY <2>1 DEF Units
    <3> QED
      BY <3>1, FS_EmptySet
  <2>2. CASE s # {}
    <3>1. PICK x \in s : TRUE
      BY <2>2
    <3>2. f[x] \in Nat /\ IsFiniteSet(Units(f, s \ {x}))
      BY <1>1
    <3> QED
      BY <3>2, UnitsStep
  <2> QED
    BY <2>1, <2>2
<1>2. \A s \in SUBSET S : s \in T
  <2> HIDE DEF T
  <2> QED
    BY <1>1, SubsetInduction
<1> QED
  BY <1>2, FS_CardinalityType

\* A sum is the number of its units.
LEMMA SumIsUnits ==
    ASSUME NEW S, IsFiniteSet(S), NEW f, \A x \in S : f[x] \in Nat
    PROVE  SumFunctionOnSet(f, S) = Cardinality(Units(f, S))
<1> DEFINE h == [s \in SUBSET S |-> Cardinality(Units(f, s))]
           g == CHOOSE k : SumsOver(k, f, S)
           T == {s \in SUBSET S : g[s] = Cardinality(Units(f, s))}
<1>1. SumFunctionOnSet(f, S) = g[S]
  BY Zenon DEF SumFunctionOnSet, FoldFunctionOnSet, MapThenFoldSet, SumsOver
<1>2. ASSUME NEW s \in SUBSET S
      PROVE  h[s] = IF s = {} THEN 0
                    ELSE LET x == CHOOSE y \in s : TRUE IN f[x] + h[s \ {x}]
  <2>1. CASE s = {}
    BY <2>1, FS_EmptySet DEF Units
  <2>2. CASE s # {}
    <3> DEFINE x == CHOOSE y \in s : TRUE
    <3>1. x \in s
      BY <2>2
    <3> HIDE DEF x
    <3>2. f[x] \in Nat /\ s \ {x} \in SUBSET S
      BY <3>1
    <3>3. Cardinality(Units(f, s)) = f[x] + Cardinality(Units(f, s \ {x}))
      BY <3>1, <3>2, UnitsFinite, UnitsStep
    <3> QED
      BY <2>2, <3>2, <3>3 DEF x
  <2> QED
    BY <2>1, <2>2
<1>3. SumsOver(h, f, S)
  <2>1. h = [s \in SUBSET S |-> h[s]]
    OBVIOUS
  <2> HIDE DEF h
  <2> QED
    BY <1>2, <2>1 DEF SumsOver
<1>4. SumsOver(g, f, S)
  BY <1>3
<1> HIDE DEF g, h
<1>5. ASSUME NEW s \in SUBSET S, \A x \in s : s \ {x} \in T
      PROVE  s \in T
  <2>1. g[s] = IF s = {} THEN 0
               ELSE LET x == CHOOSE y \in s : TRUE IN f[x] + g[s \ {x}]
    BY <1>4 DEF SumsOver
  <2>2. CASE s = {}
    BY <2>1, <2>2, FS_EmptySet DEF Units
  <2>3. CASE s # {}
    <3> DEFINE x == CHOOSE y \in s : TRUE
    <3>1. x \in s
      BY <2>3
    <3>2. g[s] = f[x] + g[s \ {x}]
      BY <2>1, <2>3
    <3> HIDE DEF x
    <3>3. f[x] \in Nat /\ s \ {x} \in SUBSET S /\ s \ {x} \in T
      BY <1>5, <3>1
    <3>4. IsFiniteSet(Units(f, s \ {x}))
      BY <3>3, UnitsFinite
    <3>5. Cardinality(Units(f, s)) = f[x] + Cardinality(Units(f, s \ {x}))
      BY ONLY <3>1, <3>3, <3>4, UnitsStep
    <3> QED
      BY <3>2, <3>3, <3>5
  <2> QED
    BY <2>2, <2>3
<1>6. \A s \in SUBSET S : s \in T
  <2> HIDE DEF T
  <2> QED
    BY <1>5, SubsetInduction
<1>7. S \in T
  BY <1>6
<1> QED
  BY <1>1, <1>7

LEMMA SumEmpty ==
    ASSUME NEW f
    PROVE  SumFunctionOnSet(f, {}) = 0
<1>1. Units(f, {}) = {}
  BY DEF Units
<1> QED
  BY <1>1, SumIsUnits, FS_EmptySet

LEMMA SumType ==
    ASSUME NEW S, IsFiniteSet(S), NEW f, \A x \in S : f[x] \in Nat
    PROVE  SumFunctionOnSet(f, S) \in Nat
BY SumIsUnits, UnitsFinite

LEMMA SumStep ==
    ASSUME NEW S, IsFiniteSet(S), NEW f, \A x \in S : f[x] \in Nat, NEW x \in S
    PROVE  SumFunctionOnSet(f, S) = f[x] + SumFunctionOnSet(f, S \ {x})
<1>1. IsFiniteSet(S \ {x})
  BY FS_RemoveElement
<1>2. IsFiniteSet(Units(f, S \ {x}))
  BY UnitsFinite
<1> QED
  BY <1>1, <1>2, SumIsUnits, UnitsStep

-----------------------------------------------------------------------------
(* Sums of related functions over one set *)

\* Adding two functions, each split in another way, adds their sums.
LEMMA SumLinear ==
    ASSUME NEW S, IsFiniteSet(S), NEW a, NEW b, NEW c, NEW d,
           \A x \in S : /\ a[x] \in Nat /\ b[x] \in Nat /\ c[x] \in Nat /\ d[x] \in Nat
                        /\ a[x] + b[x] = c[x] + d[x]
    PROVE  SumFunctionOnSet(a, S) + SumFunctionOnSet(b, S)
              = SumFunctionOnSet(c, S) + SumFunctionOnSet(d, S)
<1> DEFINE Tot(s) == /\ SumFunctionOnSet(a, s) \in Nat /\ SumFunctionOnSet(b, s) \in Nat
                     /\ SumFunctionOnSet(c, s) \in Nat /\ SumFunctionOnSet(d, s) \in Nat
                     /\ SumFunctionOnSet(a, s) + SumFunctionOnSet(b, s)
                           = SumFunctionOnSet(c, s) + SumFunctionOnSet(d, s)
           T == {s \in SUBSET S : Tot(s)}
<1>1. ASSUME NEW s \in SUBSET S, \A x \in s : s \ {x} \in T
      PROVE  s \in T
  <2>1. CASE s = {}
    BY <2>1, SumEmpty
  <2>2. CASE s # {}
    <3>1. PICK x \in s : TRUE
      BY <2>2
    <3>2. IsFiniteSet(s) /\ Tot(s \ {x})
      BY <1>1, FS_Subset
    <3>3. /\ SumFunctionOnSet(a, s) = a[x] + SumFunctionOnSet(a, s \ {x})
          /\ SumFunctionOnSet(b, s) = b[x] + SumFunctionOnSet(b, s \ {x})
          /\ SumFunctionOnSet(c, s) = c[x] + SumFunctionOnSet(c, s \ {x})
          /\ SumFunctionOnSet(d, s) = d[x] + SumFunctionOnSet(d, s \ {x})
      BY <3>2, SumStep
    <3>4. /\ a[x] \in Nat /\ b[x] \in Nat /\ c[x] \in Nat /\ d[x] \in Nat
          /\ a[x] + b[x] = c[x] + d[x]
      OBVIOUS
    <3> QED
      BY <3>2, <3>3, <3>4
  <2> QED
    BY <2>1, <2>2
<1>2. \A s \in SUBSET S : s \in T
  <2> HIDE DEF T
  <2> QED
    BY <1>1, SubsetInduction
<1>3. S \in T
  BY <1>2
<1> QED
  BY <1>3

LEMMA SumZero ==
    ASSUME NEW S, IsFiniteSet(S), NEW f, \A x \in S : f[x] = 0
    PROVE  SumFunctionOnSet(f, S) = 0
<1> DEFINE T == {s \in SUBSET S : SumFunctionOnSet(f, s) = 0}
<1>1. ASSUME NEW s \in SUBSET S, \A x \in s : s \ {x} \in T
      PROVE  s \in T
  <2>1. CASE s = {}
    BY <2>1, SumEmpty
  <2>2. CASE s # {}
    <3>1. PICK x \in s : TRUE
      BY <2>2
    <3>2. IsFiniteSet(s) /\ SumFunctionOnSet(f, s \ {x}) = 0 /\ f[x] = 0
      BY <1>1, FS_Subset
    <3>3. SumFunctionOnSet(f, s) = f[x] + SumFunctionOnSet(f, s \ {x})
      BY <3>2, SumStep
    <3> QED
      BY <3>2, <3>3
  <2> QED
    BY <2>1, <2>2
<1>2. \A s \in SUBSET S : s \in T
  <2> HIDE DEF T
  <2> QED
    BY <1>1, SubsetInduction
<1> QED
  BY <1>2

\* A sum of equal numbers is a product.
LEMMA SumConstant ==
    ASSUME NEW S, IsFiniteSet(S), NEW f, NEW c \in Nat, \A x \in S : f[x] = c
    PROVE  SumFunctionOnSet(f, S) = c * Cardinality(S)
<1> DEFINE T == {s \in SUBSET S : SumFunctionOnSet(f, s) = c * Cardinality(s)}
<1>1. ASSUME NEW s \in SUBSET S, \A x \in s : s \ {x} \in T
      PROVE  s \in T
  <2>1. CASE s = {}
    BY <2>1, SumEmpty, FS_EmptySet
  <2>2. CASE s # {}
    <3>1. PICK x \in s : TRUE
      BY <2>2
    <3>2. IsFiniteSet(s) /\ SumFunctionOnSet(f, s \ {x}) = c * Cardinality(s \ {x})
      BY <1>1, FS_Subset
    <3>3. f[x] = c /\ SumFunctionOnSet(f, s) = f[x] + SumFunctionOnSet(f, s \ {x})
      BY <3>2, SumStep
    <3>4. PICK n \in Int : n = Cardinality(s \ {x}) /\ Cardinality(s) = n + 1
      <4>1. Cardinality(s) \in Nat /\ Cardinality(s \ {x}) = Cardinality(s) - 1
        BY <3>2, FS_CardinalityType, FS_RemoveElement
      <4> QED
        BY <4>1
    <3>5. c * (n + 1) = c + c * n
      OBVIOUS
    <3> QED
      BY <3>2, <3>3, <3>4, <3>5
  <2> QED
    BY <2>1, <2>2
<1>2. \A s \in SUBSET S : s \in T
  <2> HIDE DEF T
  <2> QED
    BY <1>1, SubsetInduction
<1> QED
  BY <1>2

\* A factor can be taken out of a sum.
LEMMA SumScale ==
    ASSUME NEW S, IsFiniteSet(S), NEW f, NEW g, NEW c \in Nat,
           \A x \in S : f[x] \in Nat /\ g[x] = c * f[x]
    PROVE  SumFunctionOnSet(g, S) = c * SumFunctionOnSet(f, S)
<1> DEFINE T == {s \in SUBSET S : SumFunctionOnSet(g, s) = c * SumFunctionOnSet(f, s)}
<1>1. ASSUME NEW s \in SUBSET S, \A x \in s : s \ {x} \in T
      PROVE  s \in T
  <2>1. CASE s = {}
    BY <2>1, SumEmpty
  <2>2. CASE s # {}
    <3>1. PICK x \in s : TRUE
      BY <2>2
    <3>2. /\ IsFiniteSet(s) /\ IsFiniteSet(s \ {x})
          /\ SumFunctionOnSet(g, s \ {x}) = c * SumFunctionOnSet(f, s \ {x})
      BY <1>1, FS_Subset
    <3>3. \A y \in S : g[y] \in Nat
      OBVIOUS
    <3>4. /\ SumFunctionOnSet(g, s) = g[x] + SumFunctionOnSet(g, s \ {x})
          /\ SumFunctionOnSet(f, s) = f[x] + SumFunctionOnSet(f, s \ {x})
      BY <3>2, <3>3, SumStep
    <3>5. PICK n \in Nat, m \in Nat : n = f[x] /\ m = SumFunctionOnSet(f, s \ {x})
      BY <3>2, SumType
    <3>6. c * (n + m) = c * n + c * m
      OBVIOUS
    <3> QED
      BY <3>2, <3>4, <3>5, <3>6
  <2> QED
    BY <2>1, <2>2
<1>2. \A s \in SUBSET S : s \in T
  <2> HIDE DEF T
  <2> QED
    BY <1>1, SubsetInduction
<1> QED
  BY <1>2

LEMMA SumSame ==
    ASSUME NEW S, IsFiniteSet(S), NEW f, NEW g,
           \A x \in S : f[x] \in Nat /\ f[x] = g[x]
    PROVE  SumFunctionOnSet(f, S) = SumFunctionOnSet(g, S)
<1> DEFINE z == [x \in S |-> 0]
<1>1. \A x \in S : z[x] = 0
  OBVIOUS
<1> HIDE DEF z
<1>2. SumFunctionOnSet(f, S) + SumFunctionOnSet(z, S)
         = SumFunctionOnSet(g, S) + SumFunctionOnSet(z, S)
  BY <1>1, SumLinear
<1>3. SumFunctionOnSet(f, S) \in Nat /\ SumFunctionOnSet(g, S) \in Nat
  BY SumType
<1> QED
  BY <1>1, <1>2, <1>3, SumZero

LEMMA SumPlus ==
    ASSUME NEW S, IsFiniteSet(S), NEW f, NEW g, NEW h,
           \A x \in S : /\ f[x] \in Nat /\ g[x] \in Nat /\ h[x] \in Nat
                        /\ f[x] = g[x] + h[x]
    PROVE  SumFunctionOnSet(f, S) = SumFunctionOnSet(g, S) + SumFunctionOnSet(h, S)
<1> DEFINE z == [x \in S |-> 0]
<1>1. \A x \in S : z[x] = 0
  OBVIOUS
<1> HIDE DEF z
<1>2. SumFunctionOnSet(f, S) + SumFunctionOnSet(z, S)
         = SumFunctionOnSet(g, S) + SumFunctionOnSet(h, S)
  BY <1>1, SumLinear
<1>3. SumFunctionOnSet(f, S) \in Nat
  BY SumType
<1> QED
  BY <1>1, <1>2, <1>3, SumZero

LEMMA SumMono ==
    ASSUME NEW S, IsFiniteSet(S), NEW f, NEW g,
           \A x \in S : f[x] \in Nat /\ g[x] \in Nat /\ f[x] <= g[x]
    PROVE  SumFunctionOnSet(f, S) <= SumFunctionOnSet(g, S)
<1> DEFINE h == [x \in S |-> g[x] - f[x]]
<1>1. \A x \in S : h[x] \in Nat /\ g[x] = f[x] + h[x]
  OBVIOUS
<1> HIDE DEF h
<1>2. SumFunctionOnSet(g, S) = SumFunctionOnSet(f, S) + SumFunctionOnSet(h, S)
  BY <1>1, SumPlus
<1>3. SumFunctionOnSet(f, S) \in Nat /\ SumFunctionOnSet(h, S) \in Nat
  BY <1>1, SumType
<1> QED
  BY <1>2, <1>3

\* Changing a function in one place changes its sum by as much.
LEMMA SumChange ==
    ASSUME NEW S, IsFiniteSet(S), NEW f, NEW g, NEW x \in S,
           \A y \in S : f[y] \in Nat /\ g[y] \in Nat,
           \A y \in S \ {x} : f[y] = g[y]
    PROVE  SumFunctionOnSet(f, S) + g[x] = SumFunctionOnSet(g, S) + f[x]
<1>1. IsFiniteSet(S \ {x})
  BY FS_RemoveElement
<1>2. SumFunctionOnSet(f, S \ {x}) = SumFunctionOnSet(g, S \ {x})
  BY <1>1, SumSame
<1>3. /\ SumFunctionOnSet(f, S) = f[x] + SumFunctionOnSet(f, S \ {x})
      /\ SumFunctionOnSet(g, S) = g[x] + SumFunctionOnSet(g, S \ {x})
  BY SumStep
<1>4. SumFunctionOnSet(f, S \ {x}) \in Nat
  BY <1>1, SumType
<1> QED
  BY <1>2, <1>3, <1>4

-----------------------------------------------------------------------------
(* Sums of one function over related sets *)

\* the function that is f on s and zero elsewhere
On(f, s, S) == [x \in S |-> IF x \in s THEN f[x] ELSE 0]

\* A sum over a part of a set is one over the set, of what counts of the function.
LEMMA SumOn ==
    ASSUME NEW S, IsFiniteSet(S), NEW f, NEW t \in SUBSET S, \A x \in t : f[x] \in Nat
    PROVE  SumFunctionOnSet(f, t) = SumFunctionOnSet(On(f, t, S), S)
<1> DEFINE g == On(f, t, S)
           T == {s \in SUBSET S : SumFunctionOnSet(g, s) = SumFunctionOnSet(f, s \cap t)}
<1>0. \A x \in S : g[x] = IF x \in t THEN f[x] ELSE 0
  BY DEF On
<1>1. \A x \in S : g[x] \in Nat
  BY <1>0
<1> HIDE DEF g
<1>2. ASSUME NEW s \in SUBSET S, \A x \in s : s \ {x} \in T
      PROVE  s \in T
  <2>1. CASE s = {}
    <3>1. s \cap t = {}
      BY <2>1
    <3> QED
      BY <2>1, <3>1, SumEmpty
  <2>2. CASE s # {}
    <3>1. PICK x \in s : TRUE
      BY <2>2
    <3>2. IsFiniteSet(s) /\ IsFiniteSet(s \cap t) /\ s \ {x} \in T
      BY <1>2, FS_Subset
    <3>3. SumFunctionOnSet(g, s) = g[x] + SumFunctionOnSet(g, s \ {x})
      BY <1>1, <3>2, SumStep
    <3>4. CASE x \in t
      <4>1. SumFunctionOnSet(f, s \cap t) = f[x] + SumFunctionOnSet(f, (s \cap t) \ {x})
        BY <3>2, <3>4, SumStep
      <4>2. (s \cap t) \ {x} = (s \ {x}) \cap t
        OBVIOUS
      <4> QED
        BY <1>0, <3>2, <3>3, <3>4, <4>1, <4>2
    <3>5. CASE x \notin t
      <4>1. s \cap t = (s \ {x}) \cap t
        BY <3>5
      <4>2. IsFiniteSet(s \ {x})
        BY <3>2, FS_RemoveElement
      <4>3. SumFunctionOnSet(g, s \ {x}) \in Nat
        BY <1>1, <4>2, SumType
      <4> QED
        BY <1>0, <3>2, <3>3, <3>5, <4>1, <4>3
    <3> QED
      BY <3>4, <3>5
  <2> QED
    BY <2>1, <2>2
<1>3. \A s \in SUBSET S : s \in T
  <2> HIDE DEF T
  <2> QED
    BY <1>2, SubsetInduction
<1>4. S \in T /\ S \cap t = t
  BY <1>3
<1> QED
  BY <1>4 DEF g

\* The sum over two sets counts what they share twice.
LEMMA SumOverlap ==
    ASSUME NEW S, IsFiniteSet(S), NEW f, \A x \in S : f[x] \in Nat,
           NEW s \in SUBSET S, NEW t \in SUBSET S
    PROVE  SumFunctionOnSet(f, s) + SumFunctionOnSet(f, t)
              = SumFunctionOnSet(f, s \cup t) + SumFunctionOnSet(f, s \cap t)
<1> DEFINE a == On(f, s, S)
           b == On(f, t, S)
           c == On(f, s \cup t, S)
           d == On(f, s \cap t, S)
<1>1. \A x \in S : /\ a[x] \in Nat /\ b[x] \in Nat /\ c[x] \in Nat /\ d[x] \in Nat
                   /\ a[x] + b[x] = c[x] + d[x]
  BY DEF On
<1>2. /\ SumFunctionOnSet(f, s) = SumFunctionOnSet(a, S)
      /\ SumFunctionOnSet(f, t) = SumFunctionOnSet(b, S)
  BY SumOn
<1>3. SumFunctionOnSet(f, s \cup t) = SumFunctionOnSet(c, S)
  BY SumOn
<1>4. SumFunctionOnSet(f, s \cap t) = SumFunctionOnSet(d, S)
  BY SumOn
<1> HIDE DEF a, b, c, d
<1> QED
  BY <1>1, <1>2, <1>3, <1>4, SumLinear

LEMMA SumSubset ==
    ASSUME NEW S, IsFiniteSet(S), NEW f, \A x \in S : f[x] \in Nat, NEW s \in SUBSET S
    PROVE  /\ SumFunctionOnSet(f, s) \in Nat
           /\ SumFunctionOnSet(f, s) <= SumFunctionOnSet(f, S)
           /\ SumFunctionOnSet(f, S) = SumFunctionOnSet(f, s) + SumFunctionOnSet(f, S \ s)
<1>1. IsFiniteSet(s) /\ IsFiniteSet(S \ s)
  BY FS_Subset
<1>2. SumFunctionOnSet(f, s) \in Nat /\ SumFunctionOnSet(f, S \ s) \in Nat
  BY <1>1, SumType
<1>3. SumFunctionOnSet(f, s) + SumFunctionOnSet(f, S \ s)
         = SumFunctionOnSet(f, s \cup (S \ s)) + SumFunctionOnSet(f, s \cap (S \ s))
  BY SumOverlap
<1>4. s \cup (S \ s) = S /\ s \cap (S \ s) = {}
  OBVIOUS
<1>5. SumFunctionOnSet(f, S) \in Nat
  BY SumType
<1> QED
  BY <1>2, <1>3, <1>4, <1>5, SumEmpty

\* A sum over a set is at most the sum over indices that reach all of it.
LEMMA SumImage ==
    ASSUME NEW I, IsFiniteSet(I), NEW S, IsFiniteSet(S), NEW h, NEW f, NEW g,
           \A x \in S : \E i \in I : h[i] = x,
           \A i \in I : g[i] \in Nat /\ (h[i] \in S => g[i] = f[h[i]]),
           \A x \in S : f[x] \in Nat
    PROVE  SumFunctionOnSet(f, S) <= SumFunctionOnSet(g, I)
<1> DEFINE At(s) == {i \in I : h[i] \in s}
           T == {s \in SUBSET S : SumFunctionOnSet(f, s) <= SumFunctionOnSet(g, At(s))}
<1>0. ASSUME NEW s \in SUBSET S
      PROVE  /\ IsFiniteSet(s) /\ IsFiniteSet(At(s)) /\ At(s) \subseteq I
             /\ SumFunctionOnSet(f, s) \in Nat /\ SumFunctionOnSet(g, At(s)) \in Nat
  <2>1. At(s) \in SUBSET I
    OBVIOUS
  <2> HIDE DEF At
  <2>2. IsFiniteSet(s) /\ IsFiniteSet(At(s))
    BY <2>1, FS_Subset
  <2>3. \A i \in At(s) : g[i] \in Nat
    BY <2>1
  <2> QED
    BY <2>1, <2>2, <2>3, SumType
<1>1. ASSUME NEW s \in SUBSET S, \A x \in s : s \ {x} \in T
      PROVE  s \in T
  <2>1. CASE s = {}
    <3>1. SumFunctionOnSet(f, s) = 0
      BY <2>1, SumEmpty
    <3> QED
      BY <1>0, <3>1
  <2>2. CASE s # {}
    <3>1. PICK x \in s : TRUE
      BY <2>2
    <3>2. PICK i \in I : h[i] = x
      BY <3>1
    <3>3. SumFunctionOnSet(f, s) = f[x] + SumFunctionOnSet(f, s \ {x})
      BY <1>0, SumStep
    <3>4. i \in At(s) /\ At(s \ {x}) \subseteq At(s) \ {i}
      BY <3>2
    <3>5. s \ {x} \in SUBSET S /\ SumFunctionOnSet(f, s \ {x}) <= SumFunctionOnSet(g, At(s \ {x}))
      BY <1>1
    <3> DEFINE A == At(s)
               B == At(s \ {x})
    <3>6. /\ IsFiniteSet(A) /\ A \subseteq I
          /\ SumFunctionOnSet(g, A) \in Nat /\ SumFunctionOnSet(g, B) \in Nat
      BY <1>0, <3>5
    <3> HIDE DEF At, A, B
    <3>7. SumFunctionOnSet(g, A) = g[i] + SumFunctionOnSet(g, A \ {i})
      BY <3>4, <3>6, SumStep DEF A
    <3>8. IsFiniteSet(A \ {i})
      BY <3>6, FS_RemoveElement
    <3>9. B \in SUBSET (A \ {i}) /\ \A j \in A \ {i} : g[j] \in Nat
      BY <3>4, <3>6 DEF A, B
    <3>10. /\ SumFunctionOnSet(g, A \ {i}) \in Nat
           /\ SumFunctionOnSet(g, B) <= SumFunctionOnSet(g, A \ {i})
      BY <3>8, <3>9, SumSubset, SumType
    <3>11. g[i] = f[x] /\ f[x] \in Nat
      BY <3>2
    <3>12. SumFunctionOnSet(f, s \ {x}) \in Nat
      BY <1>0, <3>5
    <3>13. SumFunctionOnSet(f, s) <= SumFunctionOnSet(g, A)
      BY <3>3, <3>5, <3>6, <3>7, <3>10, <3>11, <3>12 DEF A, B
    <3> QED
      BY <3>13 DEF A
  <2> QED
    BY <2>1, <2>2
<1>2. \A s \in SUBSET S : s \in T
  <2> HIDE DEF T
  <2> QED
    BY <1>1, SubsetInduction
<1>3. SumFunctionOnSet(f, S) <= SumFunctionOnSet(g, At(S))
  BY <1>2
<1>4. At(S) \in SUBSET I
  OBVIOUS
<1> HIDE DEF At
<1>5. SumFunctionOnSet(g, At(S)) <= SumFunctionOnSet(g, I)
  BY <1>4, SumSubset
<1>6. /\ SumFunctionOnSet(f, S) \in Nat /\ SumFunctionOnSet(g, At(S)) \in Nat
      /\ SumFunctionOnSet(g, I) \in Nat
  BY <1>0, SumType
<1> QED
  BY <1>3, <1>5, <1>6
=============================================================================
