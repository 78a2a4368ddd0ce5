------------------------------- MODULE Totals -------------------------------
(***************************************************************************)
(* Sums over finite sets, as MapThenSumSet of the community modules has    *)
(* them: taking an element out takes its number off.  Induction goes by a  *)
(* smallest set of a set of counterexamples (WFMin), which needs no        *)
(* theorem about operators.                                                *)
(***************************************************************************)
EXTENDS Integers, FiniteSets, FiniteSetsExt, FiniteSetTheorems, TLAPS

TotalOf(f, S) == MapThenSumSet(LAMBDA x : f[x], S)

\* g is the function that the fold of f goes by, on the subsets of T.
First(S) == CHOOSE x \in S : TRUE
FoldsBy(f, T, g) ==
  g = [s \in SUBSET T |-> IF s = {} THEN 0 ELSE f[CHOOSE x \in s : TRUE] + g[s \ {CHOOSE x \in s : TRUE}]]

LEMMA FirstOfSet == \A S : S # {} => First(S) \in S
BY DEF First

\* A set of sets that holds each subset of S whose own subsets it holds, holds S.
LEMMA SetInduction ==
  ASSUME NEW S, IsFiniteSet(S), NEW Good,
         \A T \in SUBSET S : (\A U \in SUBSET T : U # T => U \in Good) => T \in Good
  PROVE  S \in Good
<1> DEFINE Bad == {T \in SUBSET S : T \notin Good}
<1> SUFFICES ASSUME S \notin Good PROVE FALSE
    OBVIOUS
<1>1. IsWellFoundedOn(StrictSubsetOrdering(S), FiniteSubsetsOf(S)) /\ FiniteSubsetsOf(S) = SUBSET S
  BY FS_StrictSubsetOrderingWellFounded, FS_FiniteSubsetsOfFinite
<1>2. PICK T \in Bad : \A U \in Bad : <<U, T>> \notin StrictSubsetOrdering(S)
  <2>1. Bad \subseteq SUBSET S /\ Bad # {}
    OBVIOUS
  <2> HIDE DEF Bad
  <2>2. QED
    BY <1>1, <2>1, WFMin
<1>3. \A U \in SUBSET T : U # T => U \in Good
  BY <1>2 DEF StrictSubsetOrdering
<1>4. QED
  BY <1>2, <1>3

\* Two such functions agree wherever both are defined.
LEMMA FoldsAgree ==
  ASSUME NEW S, IsFiniteSet(S), NEW f, NEW A, NEW g, NEW B, NEW h,
         S \subseteq A, S \subseteq B, FoldsBy(f, A, g), FoldsBy(f, B, h)
  PROVE  g[S] = h[S]
<1> DEFINE Good == {T \in SUBSET S : g[T] = h[T]}
<1>1. ASSUME NEW T \in SUBSET S, \A U \in SUBSET T : U # T => U \in Good
      PROVE  T \in Good
  <2>1. T = {} \/ (First(T) \in T /\ T \ {First(T)} \in SUBSET T /\ T \ {First(T)} # T)
    BY FirstOfSet
  <2>2. g[T] = IF T = {} THEN 0 ELSE f[First(T)] + g[T \ {First(T)}]
    BY DEF FoldsBy, First
  <2>3. h[T] = IF T = {} THEN 0 ELSE f[First(T)] + h[T \ {First(T)}]
    BY DEF FoldsBy, First
  <2>4. QED
    BY <1>1, <2>1, <2>2, <2>3
<1>2. S \in Good
  <2> HIDE DEF Good
  <2>1. QED
    BY <1>1, SetInduction
<1>3. QED
  BY <1>2

\* There is one for every finite set.
LEMMA FoldExists ==
  ASSUME NEW S, IsFiniteSet(S), NEW f
  PROVE  \E g : FoldsBy(f, S, g)
<1> DEFINE Good == {T \in SUBSET S : \E g : FoldsBy(f, T, g)}
<1>1. ASSUME NEW T \in SUBSET S, \A U \in SUBSET T : U # T => U \in Good
      PROVE  T \in Good
  <2> DEFINE Of(U) == CHOOSE g : FoldsBy(f, U, g)
             Rest(s) == s \ {First(s)}
             val(s) == IF s = {} THEN 0 ELSE f[First(s)] + Of(Rest(s))[Rest(s)]
             G == [s \in SUBSET T |-> val(s)]
  <2>1. \A U \in SUBSET T : U # T => FoldsBy(f, U, Of(U))
    BY <1>1
  <2>2. \A s \in SUBSET T : s # {} => First(s) \in s /\ Rest(s) \in SUBSET T /\ Rest(s) # T
    BY FirstOfSet
  <2>3. ASSUME NEW s \in SUBSET T, s # T
        PROVE  val(s) = Of(s)[s]
    <3>1. CASE s = {}
      <4>1. Of(s)[s] = 0
        <5>1. FoldsBy(f, s, Of(s))
          BY <2>1, <2>3
        <5> HIDE DEF Of
        <5>2. QED
          BY <3>1, <5>1 DEF FoldsBy
      <4>2. QED
        BY <3>1, <4>1
    <3>2. CASE s # {}
      <4>1. Of(s)[s] = f[First(s)] + Of(s)[Rest(s)]
        <5>1. FoldsBy(f, s, Of(s))
          BY <2>1, <2>3
        <5> HIDE DEF Of
        <5>2. QED
          BY <3>2, <5>1 DEF FoldsBy, First
      <4>2. Of(s)[Rest(s)] = Of(Rest(s))[Rest(s)]
        <5>1. FoldsBy(f, s, Of(s)) /\ FoldsBy(f, Rest(s), Of(Rest(s)))
          BY <2>1, <2>2, <2>3, <3>2
        <5>2. IsFiniteSet(Rest(s)) /\ Rest(s) \subseteq s
          BY FS_Subset
        <5> HIDE DEF Of, Rest
        <5>3. QED
          BY <5>1, <5>2, FoldsAgree
      <4>3. QED
        BY <3>2, <4>1, <4>2
    <3>3. QED
      BY <3>1, <3>2
  <2>4. ASSUME NEW s \in SUBSET T
        PROVE  G[s] = IF s = {} THEN 0 ELSE f[First(s)] + G[Rest(s)]
    <3>1. CASE s = {}
      BY <3>1
    <3>2. CASE s # {}
      <4>1. Rest(s) \in SUBSET T /\ Rest(s) # T
        BY <2>2, <3>2
      <4>2. val(Rest(s)) = Of(Rest(s))[Rest(s)]
        BY <4>1, <2>3
      <4>3. G[Rest(s)] = val(Rest(s)) /\ G[s] = val(s)
        BY <4>1
      <4>4. QED
        BY <3>2, <4>2, <4>3
    <3>3. QED
      BY <3>1, <3>2
  <2>5. FoldsBy(f, T, G)
    <3>1. G = [s \in SUBSET T |-> G[s]]
      OBVIOUS
    <3> HIDE DEF G
    <3>2. QED
      BY <2>4, <3>1 DEF FoldsBy, First
  <2>6. QED
    BY <2>5
<1>2. S \in Good
  <2> HIDE DEF Good
  <2>1. QED
    BY <1>1, SetInduction
<1>3. QED
  BY <1>2

\* What a total is in terms of such a function.
LEMMA TotalFolds ==
  ASSUME NEW S, IsFiniteSet(S), NEW f
  PROVE  \E g : FoldsBy(f, S, g) /\ TotalOf(f, S) = g[S]
<1>1. PICK h : FoldsBy(f, S, h)
  BY FoldExists
<1>2. QED
  BY <1>1 DEF TotalOf, MapThenSumSet, MapThenFoldSet, FoldsBy

----------------------------------------------------------------------------
LEMMA TotalEmpty == \A f : TotalOf(f, {}) = 0
<1> TAKE f
<1>1. PICK g : FoldsBy(f, {}, g) /\ TotalOf(f, {}) = g[{}]
  BY TotalFolds, FS_EmptySet
<1>2. QED
  BY <1>1 DEF FoldsBy

LEMMA TotalFirst ==
  ASSUME NEW S, IsFiniteSet(S), S # {}, NEW f
  PROVE  TotalOf(f, S) = f[First(S)] + TotalOf(f, S \ {First(S)})
<1> DEFINE U == S \ {First(S)}
<1>1. First(S) \in S /\ IsFiniteSet(U) /\ U \subseteq S
  BY FirstOfSet, FS_Subset
<1>2. PICK g : FoldsBy(f, S, g) /\ TotalOf(f, S) = g[S]
  BY TotalFolds
<1>3. PICK h : FoldsBy(f, U, h) /\ TotalOf(f, U) = h[U]
  BY <1>1, TotalFolds
<1>4. g[U] = h[U]
  <2> HIDE DEF U
  <2>1. QED
    BY <1>1, <1>2, <1>3, FoldsAgree
<1>5. g[S] = f[First(S)] + g[U]
  BY <1>2 DEF FoldsBy, First
<1>6. QED
  BY <1>2, <1>3, <1>4, <1>5

\* Natural numbers add up to one.
LEMMA TotalNat ==
  ASSUME NEW S, IsFiniteSet(S), NEW f, \A x \in S : f[x] \in Nat
  PROVE  TotalOf(f, S) \in Nat
<1> DEFINE Good == {T \in SUBSET S : TotalOf(f, T) \in Nat}
<1>1. ASSUME NEW T \in SUBSET S, \A U \in SUBSET T : U # T => U \in Good
      PROVE  T \in Good
  <2>1. CASE T = {}
    BY <2>1, TotalEmpty
  <2>2. CASE T # {}
    <3>1. First(T) \in T /\ T \ {First(T)} \in Good
      BY <1>1, <2>2, FirstOfSet
    <3>2. IsFiniteSet(T)
      BY FS_Subset
    <3>3. TotalOf(f, T) = f[First(T)] + TotalOf(f, T \ {First(T)})
      BY <2>2, <3>2, TotalFirst
    <3>4. QED
      BY <3>1, <3>3
  <2>3. QED
    BY <2>1, <2>2
<1>2. S \in Good
  <2> HIDE DEF Good
  <2>1. QED
    BY <1>1, SetInduction
<1>3. QED
  BY <1>2

\* Whichever element is taken out, its number goes.
LEMMA TotalRemove ==
  ASSUME NEW S, IsFiniteSet(S), NEW f, \A x \in S : f[x] \in Nat, NEW x \in S
  PROVE  TotalOf(f, S) = f[x] + TotalOf(f, S \ {x})
<1> DEFINE Good == {T \in SUBSET S : \A y \in T : TotalOf(f, T) = f[y] + TotalOf(f, T \ {y})}
<1>1. ASSUME NEW T \in SUBSET S, \A U \in SUBSET T : U # T => U \in Good, NEW y \in T
      PROVE  TotalOf(f, T) = f[y] + TotalOf(f, T \ {y})
  <2> DEFINE c == First(T)
  <2>1. c \in T /\ IsFiniteSet(T)
    BY FirstOfSet, FS_Subset
  <2>2. TotalOf(f, T) = f[c] + TotalOf(f, T \ {c})
    BY <2>1, TotalFirst
  <2> HIDE DEF c
  <2>3. CASE y # c
    <3>1. T \ {c} \in Good /\ T \ {y} \in Good
      BY <1>1, <2>1
    <3>2. /\ TotalOf(f, T \ {c}) = f[y] + TotalOf(f, (T \ {c}) \ {y})
          /\ TotalOf(f, T \ {y}) = f[c] + TotalOf(f, (T \ {y}) \ {c})
      BY <1>1, <2>1, <2>3, <3>1
    <3>3. (T \ {c}) \ {y} = (T \ {y}) \ {c}
      OBVIOUS
    <3>4. TotalOf(f, (T \ {c}) \ {y}) \in Nat /\ f[c] \in Nat /\ f[y] \in Nat
      <4>1. IsFiniteSet((T \ {c}) \ {y})
        BY <2>1, FS_Subset
      <4>2. QED
        BY <2>1, <4>1, TotalNat
    <3>5. QED
      BY <2>2, <3>2, <3>3, <3>4
  <2>4. QED
    BY <2>2, <2>3
<1>2. S \in Good
  <2>1. \A T \in SUBSET S : (\A U \in SUBSET T : U # T => U \in Good) => T \in Good
    BY <1>1
  <2> HIDE DEF Good
  <2>2. QED
    BY <2>1, SetInduction
<1>3. QED
  BY <1>2

\* A total depends only on the numbers in the set.
LEMMA TotalSame ==
  ASSUME NEW S, IsFiniteSet(S), NEW f, NEW g, \A x \in S : f[x] = g[x]
  PROVE  TotalOf(f, S) = TotalOf(g, S)
<1> DEFINE Good == {T \in SUBSET S : TotalOf(f, T) = TotalOf(g, T)}
<1>1. ASSUME NEW T \in SUBSET S, \A U \in SUBSET T : U # T => U \in Good
      PROVE  T \in Good
  <2>1. CASE T = {}
    BY <2>1, TotalEmpty
  <2>2. CASE T # {}
    <3>1. First(T) \in T /\ T \ {First(T)} \in Good /\ IsFiniteSet(T)
      BY <1>1, <2>2, FirstOfSet, FS_Subset
    <3>2. /\ TotalOf(f, T) = f[First(T)] + TotalOf(f, T \ {First(T)})
          /\ TotalOf(g, T) = g[First(T)] + TotalOf(g, T \ {First(T)})
      BY <2>2, <3>1, TotalFirst
    <3>3. QED
      BY <3>1, <3>2
  <2>3. QED
    BY <2>1, <2>2
<1>2. S \in Good
  <2> HIDE DEF Good
  <2>1. QED
    BY <1>1, SetInduction
<1>3. QED
  BY <1>2
=============================================================================
