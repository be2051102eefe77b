------------------------------ MODULE Induction ------------------------------
(***************************************************************************)
(* Induction over data, and what it shows of the sums of the community     *)
(* modules.  The induction theorems of the library take an operator; these *)
(* take a set and follow from the same well-founded orders.                *)
(***************************************************************************)
EXTENDS Integers, FiniteSets, Functions, FiniteSetTheorems, WellFoundedInduction, TLAPS

LEMMA LessIsWellFounded == IsWellFoundedOn({ss \in Nat \X Nat : ss[1] < ss[2]}, Nat)
BY NatLessThanWellFounded DEF OpToRel

\* A set that holds 0 and the successor of each of its numbers holds all numbers.
LEMMA NatSetInduction ==
  ASSUME NEW S \in SUBSET Nat, 0 \in S, \A n \in S : n + 1 \in S
  PROVE  S = Nat
<1> DEFINE Less == {ss \in Nat \X Nat : ss[1] < ss[2]}
           Rest == Nat \ S
<1> SUFFICES ASSUME Rest # {}
             PROVE  FALSE
  OBVIOUS
<1>1. IsWellFoundedOn(Less, Nat) /\ Rest \subseteq Nat
  BY LessIsWellFounded
<1> HIDE DEF Less
<1>2. PICK n \in Rest : \A m \in Rest : <<m, n>> \notin Less
  BY <1>1, WFMin
<1>3. n \in Nat /\ n # 0
  OBVIOUS
<1>4. n - 1 \in Nat /\ <<n - 1, n>> \in Less
  BY <1>3 DEF Less
<1>5. (n - 1) + 1 \in S
  BY <1>2, <1>4
<1>6. QED
  BY <1>3, <1>5

\* A set that holds each subset of S of which it holds all smaller ones holds all.
LEMMA FiniteSetInduction ==
  ASSUME NEW S, IsFiniteSet(S), NEW P \in SUBSET SUBSET S,
         ASSUME NEW T \in SUBSET S, \A U \in (SUBSET T) \ {T} : U \in P
         PROVE  T \in P
  PROVE  P = SUBSET S
<1> DEFINE Rest == (SUBSET S) \ P
<1> SUFFICES ASSUME Rest # {}
             PROVE  FALSE
  OBVIOUS
<1>1. IsWellFoundedOn(StrictSubsetOrdering(S), SUBSET S)
  BY FS_StrictSubsetOrderingWellFounded, FS_FiniteSubsetsOfFinite
<1>2. PICK T \in Rest : \A U \in Rest : <<U, T>> \notin StrictSubsetOrdering(S)
  <2>1. Rest \subseteq SUBSET S
    OBVIOUS
  <2> HIDE DEF Rest
  <2>2. QED
    BY <1>1, <2>1, WFMin
<1>3. \A U \in (SUBSET T) \ {T} : U \in P
  BY <1>2 DEF StrictSubsetOrdering
<1>4. QED
  BY <1>3

-----------------------------------------------------------------------------
(* The sum of a function's values.  The community module defines it as a fold: *)
(* a recursive function of the set that is summed.                             *)

Chosen(s) == CHOOSE x \in s : TRUE

\* sum gives the sum of f over each of the sets, the equation the fold chooses by.
SumOver(sum, f, sets) ==
  sum = [s \in sets |->
           IF s = {} THEN 0 ELSE f[Chosen(s)] + sum[s \ {Chosen(s)}]]

LEMMA SumIsFold ==
  ASSUME NEW f
  PROVE  SumFunction(f) = (CHOOSE sum : SumOver(sum, f, SUBSET DOMAIN f))[DOMAIN f]
BY DEF SumFunction, SumFunctionOnSet, FoldFunction, FoldFunctionOnSet, MapThenFoldSet, SumOver, Chosen

\* The equation has a solution: by induction on the size of the sets.
LEMMA SumExists ==
  ASSUME NEW f, IsFiniteSet(DOMAIN f)
  PROVE  \E sum : SumOver(sum, f, SUBSET DOMAIN f)
<1> DEFINE S == DOMAIN f
           UpTo(n) == {T \in SUBSET S : Cardinality(T) <= n}
           Sizes == {n \in Nat : \E sum : SumOver(sum, f, UpTo(n))}
<1>1. \A T \in SUBSET S : IsFiniteSet(T) /\ Cardinality(T) \in Nat /\ Cardinality(T) <= Cardinality(S)
  BY FS_Subset, FS_CardinalityType
<1>2. 0 \in Sizes
  <2>1. \A T \in UpTo(0) : T = {}
    BY <1>1, FS_EmptySet
  <2>2. SumOver([T \in UpTo(0) |-> 0], f, UpTo(0))
    BY <2>1 DEF SumOver
  <2>3. QED
    BY <2>2
<1>3. ASSUME NEW n \in Sizes
      PROVE  n + 1 \in Sizes
  <2>1. n \in Nat /\ n + 1 \in Nat
    OBVIOUS
  <2>2. PICK sum : SumOver(sum, f, UpTo(n))
    OBVIOUS
  <2> DEFINE Value(T) == IF T = {} THEN 0 ELSE f[Chosen(T)] + sum[T \ {Chosen(T)}]
             more == [T \in UpTo(n + 1) |-> Value(T)]
  <2>3. UpTo(n) \subseteq UpTo(n + 1)
    BY <1>1, <2>1
  <2>4. \A T \in UpTo(n) : more[T] = sum[T]
    BY <2>2, <2>3 DEF SumOver
  <2>5. ASSUME NEW T \in UpTo(n + 1), T # {}
        PROVE  T \ {Chosen(T)} \in UpTo(n)
    <3>1. Chosen(T) \in T
      BY <2>5 DEF Chosen
    <3>2. Cardinality(T \ {Chosen(T)}) = Cardinality(T) - 1
      BY <3>1, <1>1, FS_RemoveElement
    <3>3. QED
      BY <3>2, <1>1, <2>1
  <2>6. more = [T \in UpTo(n + 1) |->
                  IF T = {} THEN 0 ELSE f[Chosen(T)] + more[T \ {Chosen(T)}]]
    BY <2>4, <2>5
  <2> HIDE DEF more
  <2>7. SumOver(more, f, UpTo(n + 1))
    BY <2>6 DEF SumOver
  <2>8. QED
    BY <2>1, <2>7
<1> HIDE DEF Sizes
<1>4. Sizes = Nat
  BY <1>2, <1>3, NatSetInduction DEF Sizes
<1>5. Cardinality(S) \in Sizes /\ UpTo(Cardinality(S)) = SUBSET S
  BY <1>1, <1>4, FS_CardinalityType
<1>6. QED
  BY <1>5 DEF Sizes

\* sum gives the sum of f over every subset of S.
IsSum(sum, f, S) ==
  /\ SumFunction(f) = sum[S]
  /\ sum \in [SUBSET S -> Int]
  /\ sum[{}] = 0
  /\ \A T \in SUBSET S : T # {} =>
       Chosen(T) \in T /\ sum[T] = f[Chosen(T)] + sum[T \ {Chosen(T)}]

LEMMA SumSteps ==
  ASSUME NEW S, IsFiniteSet(S), NEW f \in [S -> Int]
  PROVE  \E sum : IsSum(sum, f, S)
<1> DEFINE sum == CHOOSE sum : SumOver(sum, f, SUBSET S)
<1>1. SumFunction(f) = sum[S] /\ SumOver(sum, f, SUBSET S)
  BY SumIsFold, SumExists
<1> HIDE DEF sum
<1>2. /\ sum[{}] = 0
      /\ \A T \in SUBSET S : T # {} => sum[T] = f[Chosen(T)] + sum[T \ {Chosen(T)}]
  BY <1>1 DEF SumOver
<1>3. \A T \in SUBSET S : T # {} => Chosen(T) \in T
  BY DEF Chosen
<1> DEFINE P == {T \in SUBSET S : sum[T] \in Int}
<1>4. ASSUME NEW T \in SUBSET S, \A U \in (SUBSET T) \ {T} : U \in P
      PROVE  T \in P
  <2>1. CASE T = {}
    BY <2>1, <1>2
  <2>2. CASE T # {}
    <3>1. T \ {Chosen(T)} \in (SUBSET T) \ {T} /\ f[Chosen(T)] \in Int
      BY <2>2, <1>3
    <3>2. sum[T \ {Chosen(T)}] \in Int
      BY <3>1, <1>4
    <3>3. sum[T] = f[Chosen(T)] + sum[T \ {Chosen(T)}]
      BY <1>2, <2>2
    <3>4. QED
      BY <3>1, <3>2, <3>3
  <2>3. QED
    BY <2>1, <2>2
<1>5. P = SUBSET S
  <2> HIDE DEF P
  <2>1. P \in SUBSET SUBSET S
    BY DEF P
  <2>2. QED
    BY <1>4, <2>1, FiniteSetInduction
<1>6. sum \in [SUBSET S -> Int]
  BY <1>1, <1>5 DEF SumOver
<1>7. QED
  BY <1>1, <1>2, <1>3, <1>6 DEF IsSum

\* Nothing but zeros sum up to zero.
LEMMA SumZero ==
  ASSUME NEW S, IsFiniteSet(S)
  PROVE  SumFunction([s \in S |-> 0]) = 0
<1> DEFINE f == [s \in S |-> 0]
<1>1. f \in [S -> Int] /\ \A s \in S : f[s] = 0
  OBVIOUS
<1> HIDE DEF f
<1>2. PICK sum : IsSum(sum, f, S)
  BY <1>1, SumSteps
<1> DEFINE P == {T \in SUBSET S : sum[T] = 0}
<1>4. ASSUME NEW T \in SUBSET S, \A U \in (SUBSET T) \ {T} : U \in P
      PROVE  T \in P
  <2>1. CASE T = {}
    BY <2>1, <1>2 DEF IsSum
  <2>2. CASE T # {}
    <3>1. T \ {Chosen(T)} \in (SUBSET T) \ {T} /\ f[Chosen(T)] = 0
      BY <2>2, <1>2, <1>1 DEF IsSum
    <3>2. sum[T \ {Chosen(T)}] = 0
      BY <3>1, <1>4
    <3>3. sum[T] = f[Chosen(T)] + sum[T \ {Chosen(T)}]
      BY <1>2, <2>2 DEF IsSum
    <3>4. QED
      BY <3>1, <3>2, <3>3
  <2>3. QED
    BY <2>1, <2>2
<1>5. P = SUBSET S
  <2> HIDE DEF P
  <2>1. P \in SUBSET SUBSET S
    BY DEF P
  <2>2. QED
    BY <1>4, <2>1, FiniteSetInduction
<1>6. QED
  BY <1>2, <1>5 DEF IsSum, f

\* Adding to one value adds to the sum: no update is lost in it.
LEMMA SumChange ==
  ASSUME NEW S, IsFiniteSet(S), NEW f \in [S -> Int], NEW a \in S, NEW d \in Int
  PROVE  SumFunction([f EXCEPT ![a] = @ + d]) = SumFunction(f) + d
<1> DEFINE g == [f EXCEPT ![a] = @ + d]
<1>1. g \in [S -> Int] /\ g[a] = f[a] + d /\ \A s \in S \ {a} : g[s] = f[s]
  OBVIOUS
<1> HIDE DEF g
<1>2. PICK sum : IsSum(sum, f, S)
  BY SumSteps
<1>3. PICK new : IsSum(new, g, S)
  BY <1>1, SumSteps
<1> DEFINE P == {T \in SUBSET S : new[T] = sum[T] + (IF a \in T THEN d ELSE 0)}
<1>4. ASSUME NEW T \in SUBSET S, \A U \in (SUBSET T) \ {T} : U \in P
      PROVE  T \in P
  <2>1. CASE T = {}
    BY <2>1, <1>2, <1>3 DEF IsSum
  <2>2. CASE T # {}
    <3> DEFINE x == Chosen(T)
               U == T \ {x}
    <3>1. x \in T /\ x \in S /\ U \in (SUBSET T) \ {T} /\ U \in SUBSET S
      BY <2>2, <1>2 DEF IsSum
    <3>2. new[U] = sum[U] + (IF a \in U THEN d ELSE 0)
      BY <3>1, <1>4
    <3>3. new[T] = g[x] + new[U] /\ sum[T] = f[x] + sum[U]
      BY <2>2, <1>2, <1>3 DEF IsSum
    <3>4. f[x] \in Int /\ sum[U] \in Int /\ f[a] \in Int
      BY <3>1, <1>2 DEF IsSum
    <3> HIDE DEF x
    <3>5. CASE x = a
      BY <3>1, <3>2, <3>3, <3>4, <3>5, <1>1
    <3>6. CASE x # a
      BY <3>1, <3>2, <3>3, <3>4, <3>6, <1>1
    <3>7. QED
      BY <3>5, <3>6
  <2>3. QED
    BY <2>1, <2>2
<1>5. P = SUBSET S
  <2> HIDE DEF P
  <2>1. P \in SUBSET SUBSET S
    BY DEF P
  <2>2. QED
    BY <1>4, <2>1, FiniteSetInduction
<1>6. QED
  BY <1>2, <1>3, <1>5 DEF IsSum, g
=============================================================================
