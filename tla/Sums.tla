-------------------------------- MODULE Sums --------------------------------
(***************************************************************************)
(* Sums of a function over a finite set.  SumOf is the community modules'  *)
(* MapThenSumSet; the lemmas say what a proof about balances and profits   *)
(* needs: the empty sum, an element taken out or put in, the type, and     *)
(* that only the values on the set matter.  Induction over the finite      *)
(* subsets is by a minimal counterexample (WFMin), as the induction        *)
(* theorems of the library take an operator.                               *)
(***************************************************************************)
EXTENDS Integers, FiniteSets, FiniteSetsExt, FiniteSetTheorems,
        WellFoundedInduction, TLAPS

SumOf(f, S) == MapThenSumSet(LAMBDA x : f[x], S)

Pick(S) == CHOOSE x \in S : TRUE

\* g is the table of the sums of f over the subsets of S.
IsTable(g, f, S) ==
  g = [s \in SUBSET S |-> IF s = {} THEN 0 ELSE f[Pick(s)] + g[s \ {Pick(s)}]]

Table(f, S) == CHOOSE g : IsTable(g, f, S)

\* A set of subsets of a finite set that holds every subset whose proper
\* subsets it holds, holds them all.
LEMMA SubsetInduction ==
  ASSUME NEW S, IsFiniteSet(S), NEW T,
         \A s \in SUBSET S : (\A r \in SUBSET s : r # s => r \in T) => s \in T
  PROVE  SUBSET S \subseteq T
<1> DEFINE R == StrictSubsetOrdering(S)
           B == (SUBSET S) \ T
<1>1. FiniteSubsetsOf(S) = SUBSET S
  BY FS_Subset DEF FiniteSubsetsOf
<1>2. IsWellFoundedOn(R, SUBSET S)
  <2>1. IsWellFoundedOn(StrictSubsetOrdering(S), FiniteSubsetsOf(S))
    BY FS_StrictSubsetOrderingWellFounded
  <2> QED BY <1>1, <2>1
<1>3. SUFFICES ASSUME B # {} PROVE FALSE
  OBVIOUS
<1>4. PICK s \in B : \A r \in B : ~(<<r, s>> \in R)
  <2>1. B \subseteq SUBSET S /\ B # {}
    BY <1>3
  <2> HIDE DEF R, B
  <2> QED BY <1>2, <2>1, WFMin
<1>5. \A r \in SUBSET s : r # s => r \in T
  BY <1>4 DEF StrictSubsetOrdering
<1> QED BY <1>4, <1>5

LEMMA PickIn == ASSUME NEW S, S # {} PROVE Pick(S) \in S
BY DEF Pick

LEMMA SumIsTable == ASSUME NEW f, NEW S PROVE SumOf(f, S) = Table(f, S)[S]
BY DEF SumOf, MapThenSumSet, MapThenFoldSet, Table, IsTable, Pick

\* Two tables agree where both are defined.
LEMMA TablesAgree ==
  ASSUME NEW f, NEW S, NEW U, NEW g, NEW h, NEW V \in SUBSET (S \cap U),
         IsFiniteSet(V), IsTable(g, f, S), IsTable(h, f, U)
  PROVE  g[V] = h[V]
<1> DEFINE T == {s \in SUBSET V : g[s] = h[s]}
<1>1. ASSUME NEW s \in SUBSET V, \A r \in SUBSET s : r # s => r \in T
      PROVE  s \in T
  <2>1. CASE s = {}
    BY <2>1 DEF IsTable
  <2>2. CASE s # {}
    <3>1. Pick(s) \in s
      BY <2>2, PickIn
    <3>2. s \ {Pick(s)} \in T
      BY <1>1, <3>1
    <3>3. g[s] = f[Pick(s)] + g[s \ {Pick(s)}]
      BY <2>2 DEF IsTable
    <3>4. h[s] = f[Pick(s)] + h[s \ {Pick(s)}]
      BY <2>2 DEF IsTable
    <3> QED BY <3>2, <3>3, <3>4
  <2> QED BY <2>1, <2>2
<1>2. SUBSET V \subseteq T
  <2> HIDE DEF T
  <2> QED BY <1>1, SubsetInduction
<1> QED BY <1>2

\* A finite set has a table.
LEMMA TableExists ==
  ASSUME NEW f, NEW S, IsFiniteSet(S)
  PROVE  IsTable(Table(f, S), f, S)
<1> DEFINE T == {s \in SUBSET S : IsTable(Table(f, s), f, s)}
<1>1. ASSUME NEW s \in SUBSET S, \A r \in SUBSET s : r # s => r \in T
      PROVE  s \in T
  <2> DEFINE less(r) == r \ {Pick(r)}
             h == [r \in SUBSET s |->
                     IF r = {} THEN 0 ELSE f[Pick(r)] + Table(f, less(r))[less(r)]]
  <2>1. ASSUME NEW r \in SUBSET s, r # {}
        PROVE  less(r) \in T /\ less(r) \in SUBSET s /\ less(r) # s
    BY <1>1, <2>1, PickIn
  <2>2. ASSUME NEW r \in SUBSET s, r # s PROVE h[r] = Table(f, r)[r]
    <3>1. IsTable(Table(f, r), f, r)
      BY <1>1, <2>2
    <3>2. CASE r = {}
      BY <3>1, <3>2 DEF IsTable
    <3>3. CASE r # {}
      <4>1. Table(f, r)[r] = f[Pick(r)] + Table(f, r)[less(r)]
        BY <3>1, <3>3 DEF IsTable
      <4>2. IsTable(Table(f, less(r)), f, less(r))
        BY <2>1, <3>3
      <4>3. IsFiniteSet(less(r))
        BY FS_Subset
      <4>4. Table(f, r)[less(r)] = Table(f, less(r))[less(r)]
        BY <3>1, <4>2, <4>3, TablesAgree
      <4> QED BY <3>3, <4>1, <4>4
    <3> QED BY <3>2, <3>3
  <2>3. IsTable(h, f, s)
    <3>1. ASSUME NEW r \in SUBSET s, r # {}
          PROVE  h[less(r)] = Table(f, less(r))[less(r)]
      BY <2>1, <2>2, <3>1
    <3> QED BY <3>1 DEF IsTable
  <2>4. IsTable(Table(f, s), f, s)
    <3> HIDE DEF h
    <3> QED BY <2>3 DEF Table
  <2> QED BY <2>4
<1>2. SUBSET S \subseteq T
  <2> HIDE DEF T
  <2> QED BY <1>1, SubsetInduction
<1> QED BY <1>2

\* The sum over the empty set is zero.
LEMMA SumEmpty == ASSUME NEW f PROVE SumOf(f, {}) = 0
<1>1. IsTable(Table(f, {}), f, {})
  BY TableExists, FS_EmptySet
<1>2. Table(f, {})[{}] = 0
  BY <1>1 DEF IsTable
<1> QED BY <1>2, SumIsTable

\* The fold takes out the element it picks.
LEMMA SumStep ==
  ASSUME NEW f, NEW S, IsFiniteSet(S), S # {}
  PROVE  SumOf(f, S) = f[Pick(S)] + SumOf(f, S \ {Pick(S)})
<1> DEFINE U == S \ {Pick(S)}
<1>1. IsFiniteSet(U)
  BY FS_Subset
<1>2. IsTable(Table(f, S), f, S) /\ IsTable(Table(f, U), f, U)
  BY <1>1, TableExists
<1>3. Table(f, S)[U] = Table(f, U)[U]
  BY <1>1, <1>2, TablesAgree
<1>4. Table(f, S)[S] = f[Pick(S)] + Table(f, S)[U]
  BY <1>2 DEF IsTable
<1> QED BY <1>3, <1>4, SumIsTable

\* A sum of integers is an integer.
LEMMA SumInt ==
  ASSUME NEW f, NEW S, IsFiniteSet(S), \A x \in S : f[x] \in Int
  PROVE  SumOf(f, S) \in Int
<1> DEFINE T == {s \in SUBSET S : SumOf(f, s) \in Int}
<1>1. ASSUME NEW s \in SUBSET S, \A r \in SUBSET s : r # s => r \in T
      PROVE  s \in T
  <2>1. CASE s = {}
    BY <2>1, SumEmpty
  <2>2. CASE s # {}
    <3>1. Pick(s) \in s /\ IsFiniteSet(s)
      BY <2>2, PickIn, FS_Subset
    <3>2. SumOf(f, s) = f[Pick(s)] + SumOf(f, s \ {Pick(s)})
      BY <2>2, <3>1, SumStep
    <3>3. SumOf(f, s \ {Pick(s)}) \in Int
      BY <1>1, <3>1
    <3> QED BY <3>1, <3>2, <3>3
  <2> QED BY <2>1, <2>2
<1>2. SUBSET S \subseteq T
  <2> HIDE DEF T
  <2> QED BY <1>1, SubsetInduction
<1> QED BY <1>2

\* A sum of naturals is a natural.
LEMMA SumNat ==
  ASSUME NEW f, NEW S, IsFiniteSet(S), \A x \in S : f[x] \in Nat
  PROVE  SumOf(f, S) \in Nat
<1> DEFINE T == {s \in SUBSET S : SumOf(f, s) \in Nat}
<1>1. ASSUME NEW s \in SUBSET S, \A r \in SUBSET s : r # s => r \in T
      PROVE  s \in T
  <2>1. CASE s = {}
    BY <2>1, SumEmpty
  <2>2. CASE s # {}
    <3>1. Pick(s) \in s /\ IsFiniteSet(s)
      BY <2>2, PickIn, FS_Subset
    <3>2. SumOf(f, s) = f[Pick(s)] + SumOf(f, s \ {Pick(s)})
      BY <2>2, <3>1, SumStep
    <3>3. SumOf(f, s \ {Pick(s)}) \in Nat
      BY <1>1, <3>1
    <3> QED BY <3>1, <3>2, <3>3
  <2> QED BY <2>1, <2>2
<1>2. SUBSET S \subseteq T
  <2> HIDE DEF T
  <2> QED BY <1>1, SubsetInduction
<1> QED BY <1>2

\* The order does not matter: any element can be taken out first.
LEMMA SumRemove ==
  ASSUME NEW f, NEW S, IsFiniteSet(S), \A x \in S : f[x] \in Int, NEW x \in S
  PROVE  SumOf(f, S) = f[x] + SumOf(f, S \ {x})
<1> DEFINE T == {s \in SUBSET S : \A y \in s : SumOf(f, s) = f[y] + SumOf(f, s \ {y})}
<1>1. ASSUME NEW s \in SUBSET S, \A r \in SUBSET s : r # s => r \in T
      PROVE  s \in T
  <2>1. SUFFICES ASSUME NEW y \in s PROVE SumOf(f, s) = f[y] + SumOf(f, s \ {y})
    OBVIOUS
  <2> DEFINE z == Pick(s)
  <2>2. z \in s /\ IsFiniteSet(s)
    BY PickIn, FS_Subset
  <2>3. SumOf(f, s) = f[z] + SumOf(f, s \ {z})
    BY <2>2, SumStep
  <2>4. CASE y = z
    BY <2>3, <2>4
  <2>5. CASE y # z
    <3> HIDE DEF z
    <3>1. SumOf(f, s \ {z}) = f[y] + SumOf(f, (s \ {z}) \ {y})
      <4>1. s \ {z} \in T
        BY <1>1, <2>2
      <4> QED BY <2>1, <2>5, <4>1
    <3>2. SumOf(f, s \ {y}) = f[z] + SumOf(f, (s \ {y}) \ {z})
      <4>1. s \ {y} \in T
        BY <1>1, <2>1
      <4> QED BY <2>2, <2>5, <4>1
    <3>3. (s \ {z}) \ {y} = (s \ {y}) \ {z}
      OBVIOUS
    <3>4. SumOf(f, (s \ {y}) \ {z}) \in Int
      <4>1. IsFiniteSet((s \ {y}) \ {z})
        BY <2>2, FS_Subset
      <4> QED BY <4>1, SumInt
    <3>5. f[y] \in Int /\ f[z] \in Int
      BY <2>1, <2>2
    <3> DEFINE rest == SumOf(f, (s \ {y}) \ {z})
    <3>6. SumOf(f, s) = f[z] + (f[y] + rest)
      BY <2>3, <3>1, <3>3
    <3>7. f[y] + SumOf(f, s \ {y}) = f[y] + (f[z] + rest)
      BY <3>2
    <3>8. rest \in Int
      BY <3>4
    <3> HIDE DEF rest
    <3> QED BY <3>5, <3>6, <3>7, <3>8
  <2> QED BY <2>4, <2>5
<1>2. SUBSET S \subseteq T
  <2> HIDE DEF T
  <2> QED BY <1>1, SubsetInduction
<1> QED BY <1>2

\* A new element adds its value.
LEMMA SumAdd ==
  ASSUME NEW f, NEW S, IsFiniteSet(S), NEW x, x \notin S,
         \A y \in S \cup {x} : f[y] \in Int
  PROVE  SumOf(f, S \cup {x}) = f[x] + SumOf(f, S)
<1>1. IsFiniteSet(S \cup {x})
  BY FS_AddElement
<1>2. (S \cup {x}) \ {x} = S
  OBVIOUS
<1>3. SumOf(f, S \cup {x}) = f[x] + SumOf(f, (S \cup {x}) \ {x})
  BY <1>1, SumRemove
<1> QED BY <1>2, <1>3

\* Only the values on the set matter.
LEMMA SumSame ==
  ASSUME NEW f, NEW g, NEW S, IsFiniteSet(S), \A x \in S : f[x] = g[x]
  PROVE  SumOf(f, S) = SumOf(g, S)
<1> DEFINE T == {s \in SUBSET S : SumOf(f, s) = SumOf(g, s)}
<1>1. ASSUME NEW s \in SUBSET S, \A r \in SUBSET s : r # s => r \in T
      PROVE  s \in T
  <2>1. CASE s = {}
    BY <2>1, SumEmpty
  <2>2. CASE s # {}
    <3>1. Pick(s) \in s /\ IsFiniteSet(s)
      BY <2>2, PickIn, FS_Subset
    <3>2. /\ SumOf(f, s) = f[Pick(s)] + SumOf(f, s \ {Pick(s)})
          /\ SumOf(g, s) = g[Pick(s)] + SumOf(g, s \ {Pick(s)})
      BY <2>2, <3>1, SumStep
    <3>3. s \ {Pick(s)} \in T
      BY <1>1, <3>1
    <3> QED BY <3>1, <3>2, <3>3
  <2> QED BY <2>1, <2>2
<1>2. SUBSET S \subseteq T
  <2> HIDE DEF T
  <2> QED BY <1>1, SubsetInduction
<1> QED BY <1>2

\* When one value changes, the sum changes by as much.
LEMMA SumChange ==
  ASSUME NEW f, NEW g, NEW S, IsFiniteSet(S), NEW x \in S,
         \A y \in S : f[y] \in Int /\ g[y] \in Int,
         \A y \in S : y # x => f[y] = g[y]
  PROVE  SumOf(g, S) = SumOf(f, S) - f[x] + g[x]
<1> DEFINE U == S \ {x}
<1>1. IsFiniteSet(U) /\ U \subseteq S
  BY FS_Subset
<1>2. SumOf(f, U) = SumOf(g, U)
  BY <1>1, SumSame
<1>3. SumOf(f, S) = f[x] + SumOf(f, U)
  BY SumRemove
<1>4. SumOf(g, S) = g[x] + SumOf(g, U)
  BY SumRemove
<1>5. SumOf(f, U) \in Int
  BY <1>1, SumInt
<1> HIDE DEF U
<1> QED BY <1>2, <1>3, <1>4, <1>5

\* No value is more than the sum.
LEMMA SumAtLeast ==
  ASSUME NEW f, NEW S, IsFiniteSet(S), NEW x \in S, \A y \in S : f[y] \in Nat
  PROVE  SumOf(f, S) >= f[x]
<1> DEFINE U == S \ {x}
<1>1. IsFiniteSet(U) /\ U \subseteq S
  BY FS_Subset
<1>2. SumOf(f, S) = f[x] + SumOf(f, U)
  BY SumRemove
<1>3. SumOf(f, U) \in Nat
  BY <1>1, SumNat
<1> HIDE DEF U
<1> QED BY <1>2, <1>3

\* A sum of zeros is zero.
LEMMA SumZero ==
  ASSUME NEW f, NEW S, IsFiniteSet(S), \A x \in S : f[x] = 0
  PROVE  SumOf(f, S) = 0
<1> DEFINE T == {s \in SUBSET S : SumOf(f, s) = 0}
<1>1. ASSUME NEW s \in SUBSET S, \A r \in SUBSET s : r # s => r \in T
      PROVE  s \in T
  <2>1. CASE s = {}
    BY <2>1, SumEmpty
  <2>2. CASE s # {}
    <3>1. Pick(s) \in s /\ IsFiniteSet(s)
      BY <2>2, PickIn, FS_Subset
    <3>2. SumOf(f, s) = f[Pick(s)] + SumOf(f, s \ {Pick(s)})
      BY <2>2, <3>1, SumStep
    <3>3. SumOf(f, s \ {Pick(s)}) = 0
      BY <1>1, <3>1
    <3> QED BY <3>1, <3>2, <3>3
  <2> QED BY <2>1, <2>2
<1>2. SUBSET S \subseteq T
  <2> HIDE DEF T
  <2> QED BY <1>1, SubsetInduction
<1> QED BY <1>2
=============================================================================
