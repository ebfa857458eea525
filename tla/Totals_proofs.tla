---------------------------- MODULE Totals_proofs ----------------------------
(***************************************************************************)
(* What the sum of a function over a finite set does when one value of the *)
(* function changes: the facts the counter of TokenAllowance rests on.     *)
(***************************************************************************)
EXTENDS Integers, Functions, FiniteSetTheorems, WellFoundedInduction, TLAPS

\* The element a sum takes out of a set first.
Picked(s) == CHOOSE x \in s : TRUE

\* The recursion SumFunctionOnSet runs: g totals f over every subset of S.
Tallies(g, f, S) ==
    g = [s \in SUBSET S |->
           IF s = {} THEN 0 ELSE f[Picked(s)] + g[s \ {Picked(s)}]]

\* The same read element by element: the empty set totals zero, any other set the
\* value of the element picked and the total of the rest.
Unwinds(g, f, S) ==
    \A s \in SUBSET S :
        /\ s = {} => g[s] = 0
        /\ s # {} => /\ Picked(s) \in s
                     /\ g[s] = f[Picked(s)] + g[s \ {Picked(s)}]

\* Induction over the subsets of a finite set: a family of subsets that holds each
\* subset whose proper subsets it holds, holds them all.
LEMMA SubsetInduction ==
    ASSUME NEW S, IsFiniteSet(S), NEW Good,
           \A T \in SUBSET S :
              (\A U \in SUBSET T : U # T => U \in Good) => T \in Good
    PROVE  SUBSET S \subseteq Good
  <1> DEFINE R == StrictSubsetOrdering(S)
             Bad == {T \in SUBSET S : T \notin Good}
  <1>1. FiniteSubsetsOf(S) = SUBSET S
    BY FS_FiniteSubsetsOfFinite
  <1>2. IsWellFoundedOn(R, SUBSET S)
    BY <1>1, FS_StrictSubsetOrderingWellFounded
  <1>3. SUFFICES ASSUME Bad # {} PROVE FALSE
    OBVIOUS
  <1>4. Bad \subseteq SUBSET S
    OBVIOUS
  <1> HIDE DEF R, Bad
  <1>5. PICK T \in Bad : \A U \in Bad : ~ (<<U, T>> \in R)
    BY <1>2, <1>3, <1>4, WFMin
  <1>6. ASSUME NEW U \in SUBSET T, U # T PROVE U \in Good
    <2>1. U \in SUBSET S /\ T \in SUBSET S
      BY <1>4, <1>5, <1>6
    <2>2. <<U, T>> \in R
      BY <1>6, <2>1 DEF R, StrictSubsetOrdering
    <2> QED BY <1>5, <2>1, <2>2 DEF Bad
  <1> QED BY <1>4, <1>5, <1>6 DEF Bad

\* Such a tally exists, so the recursion of SumFunctionOnSet is well defined.
LEMMA TallyExists ==
    ASSUME NEW S, IsFiniteSet(S), NEW f
    PROVE  \E g : Tallies(g, f, S)
  <1> DEFINE Step(g, s) == IF s = {} THEN 0 ELSE f[Picked(s)] + g[s \ {Picked(s)}]
             Upto(g, n) == \A s \in SUBSET S :
                              Cardinality(s) <= n => g[s] = Step(g, s)
             Good == {T \in SUBSET S : \E g : Upto(g, Cardinality(T))}
  <1>1. \A s : s # {} => Picked(s) \in s
    BY DEF Picked
  <1>2. \A s \in SUBSET S : IsFiniteSet(s) /\ Cardinality(s) \in Nat
    BY FS_Subset, FS_CardinalityType
  <1>3. \A s \in SUBSET S, x \in S : x \in s =>
            s \ {x} \in SUBSET S /\ Cardinality(s \ {x}) = Cardinality(s) - 1
    BY <1>2, FS_RemoveElement
  <1>4. ASSUME NEW T \in SUBSET S, \A U \in SUBSET T : U # T => U \in Good
        PROVE  T \in Good
    <2>1. CASE T = {}
      <3> DEFINE g == [s \in SUBSET S |-> 0]
      <3>1. \A s \in SUBSET S : Cardinality(s) <= Cardinality(T) => s = {}
        BY <1>2, <2>1, FS_EmptySet
      <3>2. Upto(g, Cardinality(T))
        BY <3>1
      <3> HIDE DEF g, Upto
      <3> QED BY <3>2
    <2>2. CASE T # {}
      <3>1. PICK t \in T : TRUE
        BY <2>2
      <3>2. T \ {t} \in Good /\ Cardinality(T \ {t}) = Cardinality(T) - 1
        BY <1>3, <1>4, <3>1
      <3>3. PICK h : Upto(h, Cardinality(T) - 1)
        BY <3>2
      <3> DEFINE g == [s \in SUBSET S |-> Step(h, s)]
      <3>4. ASSUME NEW s \in SUBSET S, Cardinality(s) <= Cardinality(T)
            PROVE  g[s] = Step(g, s)
        <4>1. CASE s = {}
          BY <4>1
        <4>2. CASE s # {}
          <5> DEFINE r == s \ {Picked(s)}
          <5>1. r \in SUBSET S /\ Cardinality(r) <= Cardinality(T) - 1
            BY <1>1, <1>2, <1>3, <3>4, <4>2
          <5>2. h[r] = Step(h, r)
            BY <3>3, <5>1
          <5>3. g[r] = h[r]
            BY <5>1, <5>2
          <5> QED BY <4>2, <5>3
        <4> QED BY <4>1, <4>2
      <3>5. Upto(g, Cardinality(T))
        BY <3>4
      <3> HIDE DEF g, Upto
      <3> QED BY <3>5
    <2> QED BY <2>1, <2>2
  <1>5. S \in Good
    <2> HIDE DEF Good
    <2> QED BY <1>4, SubsetInduction
  <1>6. PICK g : Upto(g, Cardinality(S))
    BY <1>5
  <1>7. \A s \in SUBSET S : Cardinality(s) <= Cardinality(S)
    BY FS_Subset
  <1> DEFINE h == [s \in SUBSET S |-> g[s]]
  <1>8. \A s \in SUBSET S : h[s] = Step(h, s)
    BY <1>1, <1>6, <1>7
  <1>9. h = [s \in SUBSET S |-> Step(h, s)]
    BY <1>8
  <1> HIDE DEF h
  <1> QED BY <1>9 DEF Tallies

\* What a sum is: the value of a tally on the whole set.
LEMMA SumIsTally ==
    ASSUME NEW S, IsFiniteSet(S), NEW f, DOMAIN f = S
    PROVE  \E g : Unwinds(g, f, S) /\ SumFunction(f) = g[S]
  <1> DEFINE h == CHOOSE g : Tallies(g, f, S)
  <1>1. Tallies(h, f, S)
    BY TallyExists
  <1>2. SumFunction(f) = h[S]
    BY DEF SumFunction, SumFunctionOnSet, FoldFunctionOnSet, MapThenFoldSet, Tallies, Picked
  <1>3. Unwinds(h, f, S)
    <2> HIDE DEF h
    <2> QED BY <1>1 DEF Unwinds, Tallies, Picked
  <1> QED BY <1>2, <1>3

\* A sum of natural numbers is one.
LEMMA SumNat ==
    ASSUME NEW S, IsFiniteSet(S), NEW f \in [S -> Nat]
    PROVE  SumFunction(f) \in Nat
  <1>1. PICK g : Unwinds(g, f, S) /\ SumFunction(f) = g[S]
    BY SumIsTally
  <1> DEFINE Good == {T \in SUBSET S : g[T] \in Nat}
  <1>2. ASSUME NEW T \in SUBSET S, \A U \in SUBSET T : U # T => U \in Good
        PROVE  T \in Good
    <2>1. CASE T = {}
      <3>1. g[T] = 0
        BY <1>1, <2>1 DEF Unwinds
      <3> QED BY <2>1, <3>1
    <2>2. CASE T # {}
      <3>1. PICK x \in T : g[T] = f[x] + g[T \ {x}]
        BY <1>1, <2>2 DEF Unwinds
      <3>2. g[T \ {x}] \in Nat /\ f[x] \in Nat
        BY <1>2
      <3> QED BY <3>1, <3>2
    <2> QED BY <2>1, <2>2
  <1>3. S \in Good
    <2> HIDE DEF Good
    <2> QED BY <1>2, SubsetInduction
  <1> QED BY <1>1, <1>3

\* The sum of two functions, value by value, is the sum of their sums.
LEMMA SumOfSums ==
    ASSUME NEW S, IsFiniteSet(S),
           NEW f \in [S -> Int], NEW h \in [S -> Int], NEW k \in [S -> Int],
           \A x \in S : k[x] = f[x] + h[x]
    PROVE  SumFunction(k) = SumFunction(f) + SumFunction(h)
  <1>1. PICK a : Unwinds(a, f, S) /\ SumFunction(f) = a[S]
    BY SumIsTally
  <1>2. PICK b : Unwinds(b, h, S) /\ SumFunction(h) = b[S]
    BY SumIsTally
  <1>3. PICK c : Unwinds(c, k, S) /\ SumFunction(k) = c[S]
    BY SumIsTally
  <1> DEFINE Good == {T \in SUBSET S : /\ a[T] \in Int /\ b[T] \in Int
                                       /\ c[T] = a[T] + b[T]}
  <1>4. ASSUME NEW T \in SUBSET S, \A U \in SUBSET T : U # T => U \in Good
        PROVE  T \in Good
    <2>1. CASE T = {}
      <3>1. a[T] = 0
        BY <1>1, <2>1 DEF Unwinds
      <3>2. b[T] = 0
        BY <1>2, <2>1 DEF Unwinds
      <3>3. c[T] = 0
        BY <1>3, <2>1 DEF Unwinds
      <3> QED BY <2>1, <3>1, <3>2, <3>3
    <2>2. CASE T # {}
      <3>1. PICK x \in T : x = Picked(T) /\ a[T] = f[x] + a[T \ {x}]
        BY <1>1, <2>2 DEF Unwinds
      <3>2. b[T] = h[x] + b[T \ {x}]
        BY <1>2, <2>2, <3>1 DEF Unwinds
      <3>3. c[T] = k[x] + c[T \ {x}]
        BY <1>3, <2>2, <3>1 DEF Unwinds
      <3>4. T \ {x} \in Good
        BY <1>4
      <3>5. k[x] = f[x] + h[x] /\ f[x] \in Int /\ h[x] \in Int
        OBVIOUS
      <3> QED BY <3>1, <3>2, <3>3, <3>4, <3>5
    <2> QED BY <2>1, <2>2
  <1>5. S \in Good
    <2> HIDE DEF Good
    <2> QED BY <1>4, SubsetInduction
  <1> QED BY <1>1, <1>2, <1>3, <1>5

\* The sum of a function that is zero everywhere is zero.
LEMMA SumZero ==
    ASSUME NEW S, IsFiniteSet(S), NEW f \in [S -> {0}]
    PROVE  SumFunction(f) = 0
  <1>1. PICK g : Unwinds(g, f, S) /\ SumFunction(f) = g[S]
    BY SumIsTally
  <1> DEFINE Good == {T \in SUBSET S : g[T] = 0}
  <1>2. ASSUME NEW T \in SUBSET S, \A U \in SUBSET T : U # T => U \in Good
        PROVE  T \in Good
    <2>1. CASE T = {}
      <3>1. g[T] = 0
        BY <1>1, <2>1 DEF Unwinds
      <3> QED BY <2>1, <3>1
    <2>2. CASE T # {}
      <3>1. PICK x \in T : g[T] = f[x] + g[T \ {x}]
        BY <1>1, <2>2 DEF Unwinds
      <3>2. g[T \ {x}] = 0 /\ f[x] = 0
        BY <1>2
      <3> QED BY <3>1, <3>2
    <2> QED BY <2>1, <2>2
  <1>3. S \in Good
    <2> HIDE DEF Good
    <2> QED BY <1>2, SubsetInduction
  <1> QED BY <1>1, <1>3

\* Changing one value of a function changes its sum by as much.
LEMMA SumChange ==
    ASSUME NEW S, IsFiniteSet(S), NEW f \in [S -> Int], NEW h \in [S -> Int],
           NEW e \in S, \A x \in S : x # e => h[x] = f[x]
    PROVE  SumFunction(h) = SumFunction(f) + h[e] - f[e]
  <1>1. PICK a : Unwinds(a, f, S) /\ SumFunction(f) = a[S]
    BY SumIsTally
  <1>2. PICK b : Unwinds(b, h, S) /\ SumFunction(h) = b[S]
    BY SumIsTally
  <1> DEFINE Good == {T \in SUBSET S :
                        /\ a[T] \in Int
                        /\ b[T] = IF e \in T THEN a[T] + h[e] - f[e] ELSE a[T]}
  <1>3. ASSUME NEW T \in SUBSET S, \A U \in SUBSET T : U # T => U \in Good
        PROVE  T \in Good
    <2>1. CASE T = {}
      <3>1. a[T] = 0
        BY <1>1, <2>1 DEF Unwinds
      <3>2. b[T] = 0
        BY <1>2, <2>1 DEF Unwinds
      <3> QED BY <2>1, <3>1, <3>2
    <2>2. CASE T # {}
      <3>1. PICK x \in T : x = Picked(T) /\ a[T] = f[x] + a[T \ {x}]
        BY <1>1, <2>2 DEF Unwinds
      <3>2. b[T] = h[x] + b[T \ {x}]
        BY <1>2, <2>2, <3>1 DEF Unwinds
      <3>3. T \ {x} \in Good
        BY <1>3
      <3>4. f[x] \in Int /\ h[x] \in Int /\ f[e] \in Int /\ h[e] \in Int
        OBVIOUS
      <3>5. CASE x = e
        <4>1. e \in T /\ e \notin T \ {x} /\ f[x] = f[e] /\ h[x] = h[e]
          BY <3>5
        <4>2. a[T \ {x}] \in Int /\ b[T \ {x}] = a[T \ {x}]
          BY <3>3, <4>1
        <4> QED BY <3>1, <3>2, <3>4, <4>1, <4>2
      <3>6. CASE x # e
        <4>1. h[x] = f[x] /\ (e \in T \ {x} <=> e \in T)
          BY <3>6
        <4> QED BY <3>1, <3>2, <3>3, <3>4, <4>1
      <3> QED BY <3>5, <3>6
    <2> QED BY <2>1, <2>2
  <1>4. S \in Good
    <2> HIDE DEF Good
    <2> QED BY <1>3, SubsetInduction
  <1> QED BY <1>1, <1>2, <1>4
=============================================================================
