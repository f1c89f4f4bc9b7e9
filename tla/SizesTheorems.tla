--------------------------- MODULE SizesTheorems ---------------------------
(***************************************************************************)
(* Facts about sizes: AlignBytes, and SumFunction, the sum over the shares *)
(* of an instance.  SumFunction is a fold, i.e. a function defined         *)
(* recursively over the subsets of an index set.  That such a function     *)
(* exists, and its type, are shown by taking a subset of least cardinality *)
(* for which the claim fails.                                              *)
(***************************************************************************)
EXTENDS Sizes, Functions, FiniteSets, FiniteSetTheorems, WellFoundedInduction, TLAPS

\* AlignBytes rounds a natural up to a multiple of the step.
LEMMA AlignType == ASSUME NEW b \in Nat, NEW s \in Nat
                   PROVE  AlignBytes(b, s) \in Nat /\ AlignBytes(b, s) >= b
<1>1. CASE s = 0
  BY <1>1 DEF AlignBytes
<1>2. CASE s # 0
  <2> DEFINE q == (b + s - 1) \div s
  <2>1. q \in Nat /\ q * s \in Nat /\ q * s >= b
    BY <1>2
  <2> QED
    BY <1>2, <2>1 DEF AlignBytes
<1> QED
  BY <1>1, <1>2

\* One unfolding of the fold behind SumFunction.
Pick(s) == CHOOSE x \in s : TRUE
SumStep(f, g, s) == IF s = {} THEN 0 ELSE f[Pick(s)] + g[s \ {Pick(s)}]
SumIter(f, S) == CHOOSE g : g = [s \in SUBSET S |-> SumStep(f, g, s)]

\* The subsets of S with at most n elements.
UpTo(S, n) == {s \in SUBSET S : Cardinality(s) <= n}

\* SumFunctionOnSet, the sum used through ListShares, is this fold.
LEMMA SumIsIter == ASSUME NEW f, NEW S
                   PROVE  SumFunctionOnSet(f, S) = SumIter(f, S)[S]
BY DEF SumFunctionOnSet, FoldFunctionOnSet, MapThenFoldSet, SumIter, SumStep, Pick

\* Every nonempty set of naturals has a least element.
LEMMA LeastNatural == ASSUME NEW N \in SUBSET Nat, N # {}
                      PROVE  \E n \in N : \A m \in N : n <= m
<1>1. PICK n \in N : \A m \in N : ~(<<m, n>> \in OpToRel(<, Nat))
  BY NatLessThanWellFounded, WFMin
<1>2. \A m \in N : ~(m < n)
  BY <1>1 DEF OpToRel
<1> QED
  BY <1>2

\* A nonempty finite set loses exactly one element when its pick is removed.
LEMMA PickSmaller == ASSUME NEW s, IsFiniteSet(s), s # {}
                     PROVE  /\ Pick(s) \in s
                            /\ IsFiniteSet(s \ {Pick(s)})
                            /\ Cardinality(s) \in Nat \ {0}
                            /\ Cardinality(s \ {Pick(s)}) = Cardinality(s) - 1
<1>1. Pick(s) \in s
  BY DEF Pick
<1>2. Cardinality(s) \in Nat
  BY FS_CardinalityType
<1>3. Cardinality(s) # 0
  BY FS_EmptySet
<1> QED
  BY <1>1, <1>2, <1>3, FS_RemoveElement

\* The recursive definition of the fold has a solution on the subsets with at
\* most n elements.
Solves(f, g, S, n) == g = [s \in UpTo(S, n) |-> SumStep(f, g, s)]

\* A solution for the subsets of at most n elements extends to n+1.
LEMMA SolutionExtends ==
  ASSUME NEW f, NEW S, IsFiniteSet(S), NEW n \in Nat, NEW g, Solves(f, g, S, n)
  PROVE  Solves(f, [s \in UpTo(S, n+1) |-> SumStep(f, g, s)], S, n+1)
<1> DEFINE h == [s \in UpTo(S, n+1) |-> SumStep(f, g, s)]
<1>1. ASSUME NEW s \in UpTo(S, n+1)
      PROVE  SumStep(f, g, s) = SumStep(f, h, s)
  <2>1. CASE s = {}
    BY <2>1 DEF SumStep
  <2>2. CASE s # {}
    <3> DEFINE t == s \ {Pick(s)}
    <3>1. s \subseteq S /\ IsFiniteSet(s) /\ Cardinality(s) <= n+1
      BY FS_Subset DEF UpTo
    <3>2. Cardinality(t) = Cardinality(s) - 1 /\ Cardinality(s) \in Nat
      BY <2>2, <3>1, PickSmaller
    <3>3. t \in UpTo(S, n) /\ t \in UpTo(S, n+1)
      BY <3>1, <3>2 DEF UpTo
    <3>4. g[t] = SumStep(f, g, t)
      BY <3>3 DEF Solves
    <3>5. h[t] = SumStep(f, g, t)
      BY <3>3
    <3> QED
      BY <2>2, <3>4, <3>5 DEF SumStep
  <2> QED
    BY <2>1, <2>2
<1>2. h = [s \in UpTo(S, n+1) |-> SumStep(f, h, s)]
  BY <1>1
<1> QED
  BY <1>2 DEF Solves

\* There is a solution for every number of elements.
LEMMA SolutionExists ==
  ASSUME NEW f, NEW S, IsFiniteSet(S), NEW n \in Nat
  PROVE  \E g : Solves(f, g, S, n)
<1> DEFINE Bad == {k \in Nat : ~\E g : Solves(f, g, S, k)}
<1>1. SUFFICES ASSUME Bad # {} PROVE FALSE
  OBVIOUS
<1>2. PICK k \in Bad : \A m \in Bad : k <= m
  BY <1>1, LeastNatural
<1>3. CASE k = 0
  <2> DEFINE g == [s \in UpTo(S, 0) |-> 0]
  <2>1. \A s \in UpTo(S, 0) : s = {}
    BY FS_Subset, FS_EmptySet, FS_CardinalityType DEF UpTo
  <2>2. \A s \in UpTo(S, 0) : SumStep(f, g, s) = 0
    BY <2>1 DEF SumStep
  <2>3. Solves(f, g, S, 0)
    BY <2>2 DEF Solves
  <2> QED
    BY <1>2, <1>3, <2>3
<1>4. CASE k # 0
  <2>1. k - 1 \in Nat /\ k - 1 \notin Bad /\ (k - 1) + 1 = k
    BY <1>2, <1>4
  <2>2. PICK g : Solves(f, g, S, k - 1)
    BY <2>1
  <2>3. Solves(f, [s \in UpTo(S, k) |-> SumStep(f, g, s)], S, k)
    BY <2>1, <2>2, SolutionExtends
  <2> QED
    BY <1>2, <2>3
<1> QED
  BY <1>3, <1>4

\* The recursive definition behind SumFunction is sound: its function satisfies
\* its own recursion equation on every subset of a finite index set.
LEMMA SumIterUnfolds ==
  ASSUME NEW f, NEW S, IsFiniteSet(S), NEW s \in SUBSET S
  PROVE  SumIter(f, S)[s] = SumStep(f, SumIter(f, S), s)
<1> DEFINE n == Cardinality(S)
<1>1. n \in Nat
  BY FS_CardinalityType
<1>2. PICK g : Solves(f, g, S, n)
  BY <1>1, SolutionExists
<1>3. UpTo(S, n) = SUBSET S
  BY FS_Subset DEF UpTo
<1>4. g = [t \in SUBSET S |-> SumStep(f, g, t)]
  BY <1>2, <1>3 DEF Solves
<1>5. SumIter(f, S) = [t \in SUBSET S |-> SumStep(f, SumIter(f, S), t)]
  BY <1>4 DEF SumIter
<1> QED
  BY <1>5

\* A claim about the sums over all subsets that survives adding one element
\* holds: stated for a set Good of subsets, as induction over the subsets.
LEMMA SubsetInduction ==
  ASSUME NEW S, IsFiniteSet(S), NEW Good,
         {} \in Good,
         \A s \in SUBSET S : s # {} /\ s \ {Pick(s)} \in Good => s \in Good
  PROVE  \A s \in SUBSET S : s \in Good
<1> DEFINE Bad == {k \in Nat : \E s \in SUBSET S : Cardinality(s) = k /\ s \notin Good}
<1>1. SUFFICES ASSUME NEW s0 \in SUBSET S, s0 \notin Good PROVE FALSE
  OBVIOUS
<1>2. Cardinality(s0) \in Bad
  BY <1>1, FS_Subset, FS_CardinalityType
<1>3. PICK k \in Bad : \A m \in Bad : k <= m
  BY <1>2, LeastNatural
<1>4. PICK s \in SUBSET S : Cardinality(s) = k /\ s \notin Good
  BY <1>3
<1>5. s # {} /\ IsFiniteSet(s)
  BY <1>4, FS_Subset
<1>6. Cardinality(s \ {Pick(s)}) = k - 1 /\ k - 1 \in Nat
  <2>1. Cardinality(s) \in Nat \ {0} /\ Cardinality(s \ {Pick(s)}) = Cardinality(s) - 1
    BY <1>5, PickSmaller
  <2> QED
    BY <1>4, <2>1
<1>7. s \ {Pick(s)} \in Good
  BY <1>3, <1>6
<1>8. s \in Good
  <2> HIDE DEF Bad
  <2> QED
    BY <1>5, <1>7
<1> QED
  BY <1>4, <1>8

\* The sum of naturals over a finite index set is a natural that no summand
\* exceeds: AlignBytes of it has room for each share it was computed over.
THEOREM SumType ==
  ASSUME NEW S, IsFiniteSet(S), NEW f \in [S -> Nat]
  PROVE  SumFunction(f) \in Nat /\ \A a \in S : f[a] <= SumFunction(f)
<1> DEFINE g == SumIter(f, S)
<1> DEFINE Good == {s \in SUBSET S : g[s] \in Nat /\ \A a \in s : f[a] <= g[s]}
<1>1. {} \in Good
  <2>1. g[{}] = 0
    BY SumIterUnfolds DEF SumStep
  <2> QED
    BY <2>1
<1>2. ASSUME NEW s \in SUBSET S, s # {} /\ s \ {Pick(s)} \in Good
      PROVE  s \in Good
  <2>1. Pick(s) \in s
    BY <1>2 DEF Pick
  <2>2. g[s] = SumStep(f, g, s)
    BY SumIterUnfolds
  <2> HIDE DEF g
  <2>3. g[s] = f[Pick(s)] + g[s \ {Pick(s)}]
    BY <1>2, <2>2 DEF SumStep
  <2>4. g[s \ {Pick(s)}] \in Nat /\ f[Pick(s)] \in Nat
    BY <1>2, <2>1
  <2>5. ASSUME NEW a \in s PROVE f[a] <= g[s]
    <3>1. CASE a = Pick(s)
      BY <2>3, <2>4, <3>1
    <3>2. CASE a # Pick(s)
      <4>1. f[a] \in Nat /\ f[a] <= g[s \ {Pick(s)}]
        BY <1>2, <3>2
      <4> QED
        BY <2>3, <2>4, <4>1
    <3> QED
      BY <3>1, <3>2
  <2> QED
    BY <2>3, <2>4, <2>5
<1>3. S \in Good
  <2> HIDE DEF Good
  <2>1. \A s \in SUBSET S : s # {} /\ s \ {Pick(s)} \in Good => s \in Good
    BY <1>2
  <2>2. \A s \in SUBSET S : s \in Good
    BY <1>1, <2>1, SubsetInduction
  <2> QED
    BY <2>2
<1>4. SumFunction(f) = g[S]
  BY SumIsIter DEF SumFunction
<1> QED
  BY <1>3, <1>4

\* Larger summands make a larger sum.
LEMMA SumMonotone ==
  ASSUME NEW S, IsFiniteSet(S), NEW f \in [S -> Nat], NEW g \in [S -> Nat], \A a \in S : f[a] <= g[a]
  PROVE  SumFunction(f) <= SumFunction(g)
<1> DEFINE F == SumIter(f, S)
           G == SumIter(g, S)
           Good == {s \in SUBSET S : F[s] \in Nat /\ G[s] \in Nat /\ F[s] <= G[s]}
<1>1. {} \in Good
  <2>1. F[{}] = 0 /\ G[{}] = 0
    BY SumIterUnfolds DEF SumStep
  <2> QED
    BY <2>1
<1>2. ASSUME NEW s \in SUBSET S, s # {} /\ s \ {Pick(s)} \in Good
      PROVE  s \in Good
  <2>1. F[s] = SumStep(f, F, s) /\ G[s] = SumStep(g, G, s)
    BY SumIterUnfolds
  <2>2. Pick(s) \in S
    BY <1>2 DEF Pick
  <2> HIDE DEF F, G
  <2>3. F[s] = f[Pick(s)] + F[s \ {Pick(s)}] /\ G[s] = g[Pick(s)] + G[s \ {Pick(s)}]
    BY <1>2, <2>1 DEF SumStep
  <2>4. f[Pick(s)] \in Nat /\ g[Pick(s)] \in Nat /\ f[Pick(s)] <= g[Pick(s)]
    BY <2>2
  <2> QED
    BY <1>2, <2>3, <2>4
<1>3. S \in Good
  <2> HIDE DEF Good
  <2>1. \A s \in SUBSET S : s # {} /\ s \ {Pick(s)} \in Good => s \in Good
    BY <1>2
  <2> QED
    BY <1>1, <2>1, SubsetInduction
<1>4. SumFunction(f) = F[S] /\ SumFunction(g) = G[S]
  BY SumIsIter DEF SumFunction
<1> QED
  BY <1>3, <1>4
=============================================================================
