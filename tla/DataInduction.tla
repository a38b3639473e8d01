----------------------------- MODULE DataInduction -----------------------------
(***************************************************************************)
(* Induction and recursion over numbers and finite sets, for the proofs      *)
(* about data.  The induction theorems of the library quantify over an       *)
(* operator; these quantify over a set (of the numbers, or of the subsets,   *)
(* of which something holds) and over functions, so a prover can apply them.  *)
(***************************************************************************)
EXTENDS Integers, FiniteSetTheorems, TLAPS

(* Among some subsets of a finite set there is one that contains no other.     *)
LEMMA MinimalSubset ==
    ASSUME NEW S, IsFiniteSet(S), NEW P \in SUBSET (SUBSET S), P # {}
    PROVE  \E T \in P : \A U \in P : U \subseteq T => U = T
<1>1. IsWellFoundedOn(StrictSubsetOrdering(S), FiniteSubsetsOf(S)) /\ FiniteSubsetsOf(S) = SUBSET S
  BY FS_StrictSubsetOrderingWellFounded, FS_FiniteSubsetsOfFinite
<1>2. PICK T \in P : \A U \in P : <<U, T>> \notin StrictSubsetOrdering(S)
  BY <1>1, WFMin
<1>3. ASSUME NEW U \in P, U \subseteq T PROVE U = T
  BY <1>2, <1>3 DEF StrictSubsetOrdering
<1> QED
  BY <1>3

(* A set of numbers has a least one.                                           *)
LEMMA LeastNumber ==
    ASSUME NEW P \in SUBSET Nat, P # {}
    PROVE  \E n \in P : \A m \in P : n <= m
<1>1. PICK b \in P : TRUE
  OBVIOUS
<1> DEFINE B == 0 .. b
           upto == {0 .. n : n \in {m \in P : m <= b}}
<1>2. IsFiniteSet(B) /\ upto \in SUBSET (SUBSET B) /\ upto # {}
  <2>1. b \in Nat /\ 0 \in Int
    BY <1>1
  <2>2. IsFiniteSet(B)
    BY <2>1, FS_Interval
  <2>3. \A n \in {m \in P : m <= b} : 0 .. n \subseteq B
    BY <2>1
  <2>4. 0 .. b \in upto
    BY <1>1, <2>1
  <2> QED
    BY <2>2, <2>3, <2>4
<1>3. PICK T \in upto : \A U \in upto : U \subseteq T => U = T
  <2> HIDE DEF upto, B
  <2> QED
    BY <1>2, MinimalSubset
<1>4. PICK n \in P : n <= b /\ T = 0 .. n
  BY <1>3
<1>5. ASSUME NEW m \in P, m < n PROVE FALSE
  <2>1. 0 .. m \in upto /\ 0 .. m \subseteq T /\ n \in T /\ n \notin 0 .. m
    BY <1>1, <1>4, <1>5
  <2> QED
    BY <1>3, <2>1
<1>6. \A m \in P : n <= m
  BY <1>5
<1> QED
  BY <1>4, <1>6

(* What holds of 0, and of a successor when of the number, holds of all.        *)
LEMMA NumberInduction ==
    ASSUME NEW P \in SUBSET Nat, 0 \in P, \A n \in P : n + 1 \in P
    PROVE  P = Nat
<1> DEFINE Q == Nat \ P
<1> SUFFICES ASSUME Q # {} PROVE FALSE
  OBVIOUS
<1>1. PICK n \in Q : \A m \in Q : n <= m
  <2>1. Q \in SUBSET Nat
    OBVIOUS
  <2> HIDE DEF Q
  <2> QED
    BY <2>1, LeastNumber
<1>2. n - 1 \in Nat /\ n - 1 \in P
  BY <1>1
<1>3. (n - 1) + 1 \in P
  BY <1>2
<1> QED
  BY <1>1, <1>3

(* The same up to a bound.                                                     *)
LEMMA BoundedInduction ==
    ASSUME NEW n \in Nat, NEW P, 0 \in P, \A k \in 0 .. n - 1 : k \in P => k + 1 \in P
    PROVE  0 .. n \subseteq P
<1> DEFINE Q == {k \in Nat : k <= n => k \in P}
<1>1. Q \in SUBSET Nat /\ 0 \in Q
  OBVIOUS
<1>2. ASSUME NEW k \in Q PROVE k + 1 \in Q
  BY <1>2
<1>3. Q = Nat
  <2> HIDE DEF Q
  <2> QED
    BY <1>1, <1>2, NumberInduction
<1> QED
  BY <1>3

(* What holds of a subset when of all that are smaller holds of every subset.    *)
LEMMA SubsetInduction ==
    ASSUME NEW S, IsFiniteSet(S), NEW P,
           \A T \in SUBSET S : (\A U \in SUBSET T : U # T => U \in P) => T \in P
    PROVE  SUBSET S \subseteq P
<1> DEFINE Q == {T \in SUBSET S : T \notin P}
<1> SUFFICES ASSUME Q # {} PROVE FALSE
  OBVIOUS
<1>1. PICK T \in Q : \A U \in Q : U \subseteq T => U = T
  <2>1. Q \in SUBSET (SUBSET S)
    OBVIOUS
  <2> HIDE DEF Q
  <2> QED
    BY <2>1, MinimalSubset
<1>2. ASSUME NEW U \in SUBSET T, U # T PROVE U \in P
  BY <1>1, <1>2
<1> QED
  BY <1>1, <1>2

-----------------------------------------------------------------------------
(* Recursion *)

(* A function over the numbers that starts at a and goes on by `step`.          *)
Iterates(F, a, step) == \A n \in Nat : F[n] = IF n = 0 THEN a ELSE step[<<n, F[n - 1]>>]

LEMMA NumberRecursion ==
    ASSUME NEW V, NEW a \in V, NEW step \in [Nat \X V -> V]
    PROVE  \E F \in [Nat -> V] : Iterates(F, a, step)
<1> DEFINE Upto(n) == {F \in [0 .. n -> V] : F[0] = a /\ \A k \in 1 .. n : F[k] = step[<<k, F[k - 1]>>]}
           P == {n \in Nat : Upto(n) # {}}
<1>1. P \in SUBSET Nat
  OBVIOUS
<1>2. 0 \in P
  <2>1. [k \in 0 .. 0 |-> a] \in Upto(0)
    OBVIOUS
  <2> QED
    BY <2>1
<1>3. ASSUME NEW n \in P PROVE n + 1 \in P
  <2>1. PICK F \in Upto(n) : TRUE
    OBVIOUS
  <2> DEFINE G == [k \in 0 .. n + 1 |-> IF k <= n THEN F[k] ELSE step[<<n + 1, F[n]>>]]
  <2>2. n \in Nat /\ F \in [0 .. n -> V] /\ F[0] = a /\ \A k \in 1 .. n : F[k] = step[<<k, F[k - 1]>>]
    BY <2>1
  <2>3. F[n] \in V /\ <<n + 1, F[n]>> \in Nat \X V
    BY <2>2
  <2>4. step[<<n + 1, F[n]>>] \in V
    BY <2>3
  <2>5. G \in [0 .. n + 1 -> V]
    BY <2>2, <2>4
  <2>6. G[0] = a
    BY <2>2
  <2>7. ASSUME NEW k \in 1 .. n + 1 PROVE G[k] = step[<<k, G[k - 1]>>]
    <3>1. CASE k <= n
      BY <2>2, <3>1
    <3>2. CASE k = n + 1
      <4>1. k - 1 = n /\ ~(k <= n) /\ n <= n /\ k \in 0 .. n + 1 /\ n \in 0 .. n + 1
        BY <2>2, <3>2
      <4>2. G[k] = step[<<n + 1, F[n]>>] /\ G[n] = F[n]
        BY <4>1
      <4> QED
        BY <3>2, <4>1, <4>2
    <3> QED
      BY <2>2, <3>1, <3>2
  <2>8. G \in Upto(n + 1)
    BY <2>5, <2>6, <2>7
  <2>9. n + 1 \in Nat /\ Upto(n + 1) # {}
    <3> HIDE DEF Upto, G
    <3> QED
      BY <2>2, <2>8
  <2> QED
    BY <2>9
<1>4. P = Nat
  <2> HIDE DEF P
  <2> QED
    BY <1>1, <1>2, <1>3, NumberInduction
<1>5. ASSUME NEW n \in Nat, NEW F \in Upto(n), NEW m \in Nat, NEW G \in Upto(m), n <= m
      PROVE  \A k \in 0 .. n : F[k] = G[k]
  <2> DEFINE R == {k \in 0 .. n : F[k] = G[k]}
  <2>1. 0 \in R
    OBVIOUS
  <2>2. \A k \in 0 .. n - 1 : k \in R => k + 1 \in R
    <3> TAKE k \in 0 .. n - 1
    <3> HAVE k \in R
    <3>1. k + 1 \in 1 .. n /\ k + 1 \in 1 .. m /\ (k + 1) - 1 = k
      BY <1>5
    <3>2. F[k + 1] = step[<<k + 1, F[k]>>]
      BY <3>1
    <3>3. G[k + 1] = step[<<k + 1, G[k]>>]
      BY <3>1
    <3> QED
      BY <3>1, <3>2, <3>3
  <2>3. 0 .. n \subseteq R
    <3> HIDE DEF R
    <3> QED
      BY <2>1, <2>2, BoundedInduction
  <2> QED
    BY <2>3
<1> DEFINE at == [n \in Nat |-> CHOOSE F \in Upto(n) : TRUE]
           H == [n \in Nat |-> at[n][n]]
<1>6. \A n \in Nat : at[n] \in Upto(n)
  BY <1>4
<1>7. H \in [Nat -> V]
  <2>1. ASSUME NEW n \in Nat PROVE at[n][n] \in V
    <3>1. n \in 0 .. n
      OBVIOUS
    <3>2. at[n] \in Upto(n)
      BY <1>6
    <3>3. at[n] \in [0 .. n -> V]
      <4> HIDE DEF at
      <4> QED
        BY <3>2
    <3> QED
      BY <3>1, <3>3
  <2> QED
    BY <2>1
<1>8. ASSUME NEW n \in Nat PROVE H[n] = IF n = 0 THEN a ELSE step[<<n, H[n - 1]>>]
  <2>1. CASE n = 0
    BY <1>6, <2>1
  <2>2. CASE n # 0
    <3>1. n - 1 \in Nat /\ n - 1 <= n /\ n \in 1 .. n
      BY <2>2
    <3>2. at[n] \in Upto(n) /\ at[n - 1] \in Upto(n - 1)
      BY <1>6, <3>1
    <3>3. at[n][n] = step[<<n, at[n][n - 1]>>]
      BY <3>1, <3>2
    <3>4. at[n - 1][n - 1] = at[n][n - 1]
      <4> HIDE DEF at, Upto
      <4> QED
        BY <1>5, <3>1, <3>2
    <3>5. H[n] = at[n][n] /\ H[n - 1] = at[n - 1][n - 1]
      BY <3>1
    <3> QED
      <4> HIDE DEF at, Upto, H
      <4> QED
        BY <2>2, <3>3, <3>4, <3>5
  <2> QED
    BY <2>1, <2>2
<1>9. Iterates(H, a, step)
  BY <1>8 DEF Iterates
<1> QED
  BY <1>7, <1>9

(* A function over the subsets of a finite set that takes out one member at a   *)
(* time, the one that `pick` names: what a fold computes.                       *)
Peeling(F, S, a, step, pick) ==
    \A T \in SUBSET S : F[T] = IF T = {} THEN a ELSE step[<<pick[T], F[T \ {pick[T]}]>>]

LEMMA SubsetRecursion ==
    ASSUME NEW S, IsFiniteSet(S), NEW V, NEW a \in V, NEW step \in [S \X V -> V],
           NEW pick, \A T \in SUBSET S : T # {} => pick[T] \in T
    PROVE  \E F \in [SUBSET S -> V] : Peeling(F, S, a, step, pick)
<1> DEFINE W == [SUBSET S -> V]
           one(G) == [T \in SUBSET S |-> IF T = {} THEN a ELSE step[<<pick[T], G[T \ {pick[T]}]>>]]
           next == [p \in Nat \X W |-> one(p[2])]
           init == [T \in SUBSET S |-> a]
<1>1. ASSUME NEW G \in W PROVE one(G) \in W
  <2>1. ASSUME NEW T \in SUBSET S, T # {} PROVE step[<<pick[T], G[T \ {pick[T]}]>>] \in V
    <3>1. pick[T] \in S /\ T \ {pick[T]} \in SUBSET S
      BY <2>1
    <3>2. G[T \ {pick[T]}] \in V
      BY <3>1
    <3> QED
      BY <3>1, <3>2
  <2> QED
    BY <2>1
<1>2. init \in W /\ next \in [Nat \X W -> W]
  <2>1. \A p \in Nat \X W : one(p[2]) \in W
    <3> TAKE p \in Nat \X W
    <3>1. p[2] \in W
      OBVIOUS
    <3> HIDE DEF one, W
    <3> QED
      BY <1>1, <3>1
  <2>2. next \in [Nat \X W -> W]
    <3> HIDE DEF one, W
    <3> QED
      BY <2>1
  <2> QED
    BY <2>2
<1>3. PICK H \in [Nat -> W] : \A n \in Nat : H[n] = IF n = 0 THEN init ELSE next[<<n, H[n - 1]>>]
  <2> HIDE DEF W, init, next
  <2>1. PICK H \in [Nat -> W] : Iterates(H, init, next)
    BY <1>2, NumberRecursion
  <2> QED
    BY <2>1 DEF Iterates
<1> DEFINE F == [T \in SUBSET S |-> H[Cardinality(T)][T]]
<1>4. \A T \in SUBSET S : IsFiniteSet(T) /\ Cardinality(T) \in Nat
  BY FS_Subset, FS_CardinalityType
<1>5. F \in [SUBSET S -> V]
  <2>1. ASSUME NEW T \in SUBSET S PROVE H[Cardinality(T)][T] \in V
    <3>1. H[Cardinality(T)] \in W
      BY <1>3, <1>4
    <3> QED
      BY <3>1
  <2> QED
    BY <2>1
<1>6. ASSUME NEW T \in SUBSET S
      PROVE  F[T] = IF T = {} THEN a ELSE step[<<pick[T], F[T \ {pick[T]}]>>]
  <2>1. CASE T = {}
    <3>1. Cardinality(T) = 0
      BY <2>1, FS_EmptySet
    <3>2. H[0] = init
      BY <1>3
    <3> QED
      BY <2>1, <3>1, <3>2
  <2>2. CASE T # {}
    <3> DEFINE n == Cardinality(T)
               R == T \ {pick[T]}
    <3>1. pick[T] \in T /\ R \in SUBSET S
      BY <2>2
    <3>2. n \in Nat /\ n # 0 /\ Cardinality(R) = n - 1 /\ n - 1 \in Nat
      <4>1. IsFiniteSet(T) /\ n \in Nat /\ n # 0
        BY <1>4, <2>2, FS_EmptySet
      <4>2. \A x \in T : Cardinality(T \ {x}) = Cardinality(T) - 1
        BY <4>1, FS_RemoveElement
      <4>3. Cardinality(R) = n - 1
        BY <3>1, <4>2
      <4> QED
        BY <4>1, <4>3
    <3>3. H[n] = next[<<n, H[n - 1]>>] /\ H[n - 1] \in W
      <4> HIDE DEF next, W, n
      <4> QED
        BY <1>3, <3>2
    <3>4. H[n] = one(H[n - 1])
      <4>1. <<n, H[n - 1]>> \in Nat \X W
        <5> HIDE DEF W, n
        <5> QED
          BY <3>2, <3>3
      <4> HIDE DEF W, n, one
      <4> QED
        BY <3>3, <4>1
    <3>5. H[n][T] = step[<<pick[T], H[n - 1][R]>>]
      <4> HIDE DEF n
      <4> QED
        BY <2>2, <3>4
    <3>6. F[T] = H[n][T] /\ F[R] = H[n - 1][R]
      <4>1. F[T] = H[n][T]
        OBVIOUS
      <4>2. F[R] = H[Cardinality(R)][R]
        BY <3>1
      <4> QED
        BY <3>2, <4>1, <4>2
    <3> QED
      BY <2>2, <3>5, <3>6
  <2> QED
    BY <2>1, <2>2
<1>7. Peeling(F, S, a, step, pick)
  BY <1>6 DEF Peeling
<1> QED
  BY <1>5, <1>7

-----------------------------------------------------------------------------
(* Finite sets *)

(* In a finite set some member has the least value, and some the greatest.       *)
LEMMA LeastValue ==
    ASSUME NEW S, IsFiniteSet(S), S # {}, NEW f \in [S -> Int]
    PROVE  \E x \in S : \A y \in S : f[x] <= f[y]
<1> DEFINE P == {T \in SUBSET S : T # {} => \E x \in T : \A y \in T : f[x] <= f[y]}
<1>1. ASSUME NEW T \in SUBSET S, \A U \in SUBSET T : U # T => U \in P PROVE T \in P
  <2> SUFFICES ASSUME T # {} PROVE \E x \in T : \A y \in T : f[x] <= f[y]
    OBVIOUS
  <2>1. PICK z \in T : TRUE
    OBVIOUS
  <2>2. T \ {z} \in P
    BY <1>1
  <2>3. CASE T \ {z} = {}
    <3>1. \A y \in T : y = z
      BY <2>3
    <3>2. f[z] \in Int
      OBVIOUS
    <3> QED
      BY <3>1, <3>2
  <2>4. CASE T \ {z} # {}
    <3>1. PICK x \in T \ {z} : \A y \in T \ {z} : f[x] <= f[y]
      BY <2>2, <2>4
    <3>2. \A y \in T : f[y] \in Int
      OBVIOUS
    <3>3. CASE f[x] <= f[z]
      BY <3>1, <3>3
    <3>4. CASE f[z] < f[x]
      <4>1. \A y \in T : f[z] <= f[y]
        <5> TAKE y \in T
        <5>1. CASE y = z
          BY <5>1, <3>2
        <5>2. CASE y # z
          BY <3>1, <3>2, <3>4, <5>2
        <5> QED
          BY <5>1, <5>2
      <4> QED
        BY <4>1
    <3> QED
      BY <3>2, <3>3, <3>4
  <2> QED
    BY <2>3, <2>4
<1>2. SUBSET S \subseteq P
  <2> HIDE DEF P
  <2> QED
    BY <1>1, SubsetInduction
<1> QED
  BY <1>2

LEMMA GreatestValue ==
    ASSUME NEW S, IsFiniteSet(S), S # {}, NEW f \in [S -> Int]
    PROVE  \E x \in S : \A y \in S : f[y] <= f[x]
<1> DEFINE g == [x \in S |-> -f[x]]
<1>1. g \in [S -> Int]
  OBVIOUS
<1>2. PICK x \in S : \A y \in S : g[x] <= g[y]
  <2> HIDE DEF g
  <2> QED
    BY <1>1, LeastValue
<1>3. ASSUME NEW y \in S PROVE f[y] <= f[x]
  BY <1>2
<1> QED
  BY <1>3

(* A finite set of two or more has two different members.                       *)
LEMMA TwoMembers ==
    ASSUME NEW S, IsFiniteSet(S), Cardinality(S) >= 2
    PROVE  \E x, y \in S : x # y
<1>1. S # {} /\ Cardinality(S) \in Nat
  BY FS_EmptySet, FS_CardinalityType
<1>2. PICK x \in S : TRUE
  BY <1>1
<1>3. S \ {x} # {}
  <2>1. IsFiniteSet(S \ {x}) /\ Cardinality(S \ {x}) = Cardinality(S) - 1
    BY <1>2, FS_RemoveElement
  <2> QED
    BY <1>1, <2>1, FS_EmptySet
<1> QED
  BY <1>2, <1>3

(* What a function makes of a finite set is finite, and not larger.             *)
LEMMA FiniteImage ==
    ASSUME NEW S, IsFiniteSet(S), NEW f
    PROVE  LET T == {f[x] : x \in S} IN IsFiniteSet(T) /\ Cardinality(T) <= Cardinality(S)
<1> DEFINE T == {f[x] : x \in S}
           g == [x \in S |-> f[x]]
<1>1. g \in Surjection(S, T)
  BY DEF Surjection
<1> QED
  BY <1>1, FS_Surjection

-----------------------------------------------------------------------------
(* Sums *)

(* The sum over a set by its definition: a member at a time, in the order of a   *)
(* choice.                                                                     *)
(* The fold of the library takes the member that CHOOSE picks.                  *)
AnyOf(T) == CHOOSE y \in T : TRUE
Picked(S) == [T \in SUBSET S |-> AnyOf(T)]
Adds(S, f) == [p \in S \X Int |-> f[p[1]] + p[2]]
Partial(F, S, f) == F \in [SUBSET S -> Int] /\ Peeling(F, S, 0, Adds(S, f), Picked(S))

LEMMA AnyOfIsIn ==
    ASSUME NEW T, T # {}
    PROVE  AnyOf(T) \in T
BY DEF AnyOf

IntOn(f, S) == \A x \in S : f[x] \in Int
Unfolds(F, f, T) == F[T] = IF T = {} THEN 0 ELSE f[AnyOf(T)] + F[T \ {AnyOf(T)}]

LEMMA PartialStep ==
    ASSUME NEW S, NEW f, IntOn(f, S), NEW F,
           Partial(F, S, f), NEW T \in SUBSET S
    PROVE  Unfolds(F, f, T)
<1>1. /\ F \in [SUBSET S -> Int]
      /\ F[T] = IF T = {} THEN 0 ELSE Adds(S, f)[<<Picked(S)[T], F[T \ {Picked(S)[T]}]>>]
  BY DEF Partial, Peeling
<1>2. CASE T = {}
  BY <1>1, <1>2 DEF Unfolds
<1>3. CASE T # {}
  <2>1. Picked(S)[T] = AnyOf(T) /\ AnyOf(T) \in T
    BY <1>3, AnyOfIsIn DEF Picked
  <2>2. <<AnyOf(T), F[T \ {AnyOf(T)}]>> \in S \X Int
    BY <1>1, <2>1
  <2>3. Adds(S, f)[<<AnyOf(T), F[T \ {AnyOf(T)}]>>] = f[AnyOf(T)] + F[T \ {AnyOf(T)}]
    BY <2>2 DEF Adds, IntOn
  <2> QED
    BY <1>1, <1>3, <2>1, <2>3 DEF Unfolds
<1> QED
  BY <1>2, <1>3

LEMMA PartialSums ==
    ASSUME NEW S, IsFiniteSet(S), NEW f, IntOn(f, S)
    PROVE  \E F : Partial(F, S, f)
<1> DEFINE st == Adds(S, f)
           pk == Picked(S)
<1>1. \A T \in SUBSET S : T # {} => pk[T] \in T
  BY AnyOfIsIn DEF Picked
<1>2. st \in [S \X Int -> Int] /\ 0 \in Int
  BY DEF Adds, IntOn
<1>3. \E F \in [SUBSET S -> Int] : Peeling(F, S, 0, st, pk)
  <2> HIDE DEF st, pk
  <2> QED
    BY <1>1, <1>2, SubsetRecursion
<1> QED
  BY <1>3 DEF Partial

LEMMA SumDefined ==
    ASSUME NEW S, IsFiniteSet(S), NEW f, IntOn(f, S)
    PROVE  \E F : Partial(F, S, f) /\ SumFunctionOnSet(f, S) = F[S]
<1> DEFINE Body(F) == [T \in SUBSET S |-> IF T = {} THEN 0 ELSE f[AnyOf(T)] + F[T \ {AnyOf(T)}]]
           it == CHOOSE F : F = Body(F)
<1>1. PICK G : Partial(G, S, f)
  BY PartialSums
<1>2. G = Body(G)
  <2>1. ASSUME NEW T \in SUBSET S PROVE G[T] = Body(G)[T]
    <3>1. Unfolds(G, f, T)
      BY <1>1, PartialStep
    <3> QED
      BY <3>1 DEF Unfolds
  <2>2. G \in [SUBSET S -> Int]
    BY <1>1 DEF Partial
  <2> QED
    BY <2>1, <2>2
<1>3. it = Body(it)
  <2> HIDE DEF Body
  <2> QED
    BY <1>2
<1>4. SumFunctionOnSet(f, S) = it[S]
  BY DEF SumFunctionOnSet, FoldFunctionOnSet, MapThenFoldSet, AnyOf
<1> HIDE DEF it
<1> DEFINE P == {T \in SUBSET S : it[T] = G[T]}
<1>5. ASSUME NEW T \in SUBSET S, \A U \in SUBSET T : U # T => U \in P PROVE T \in P
  <2>1. it[T] = Body(it)[T] /\ G[T] = Body(G)[T]
    <3> HIDE DEF Body
    <3> QED
      BY <1>2, <1>3
  <2>2. CASE T = {}
    BY <2>1, <2>2
  <2>3. CASE T # {}
    <3>1. AnyOf(T) \in T
      BY <2>3, AnyOfIsIn
    <3>2. it[T] = f[AnyOf(T)] + it[T \ {AnyOf(T)}] /\ G[T] = f[AnyOf(T)] + G[T \ {AnyOf(T)}]
      BY <2>1, <2>3
    <3>3. T \ {AnyOf(T)} \in P
      BY <1>5, <3>1
    <3> QED
      BY <3>2, <3>3
  <2> QED
    BY <2>2, <2>3
<1>6. SUBSET S \subseteq P
  <2> HIDE DEF P
  <2> QED
    BY <1>5, SubsetInduction
<1> QED
  BY <1>1, <1>4, <1>6

LEMMA PartialAgree ==
    ASSUME NEW S, NEW f, IntOn(f, S), NEW F, Partial(F, S, f),
           NEW T \in SUBSET S, IsFiniteSet(T), NEW G, Partial(G, T, f)
    PROVE  G[T] = F[T]
<1> DEFINE P == {U \in SUBSET T : G[U] = F[U]}
<1>1. ASSUME NEW U \in SUBSET T, \A V \in SUBSET U : V # U => V \in P PROVE U \in P
  <2>1. Unfolds(F, f, U)
    <3>1. U \in SUBSET S
      OBVIOUS
    <3> QED
      BY <3>1, PartialStep
  <2>2. Unfolds(G, f, U)
    <3>1. IntOn(f, T)
      BY DEF IntOn
    <3> QED
      BY <3>1, PartialStep
  <2>3. CASE U = {}
    BY <2>1, <2>2, <2>3 DEF Unfolds
  <2>4. CASE U # {}
    <3>1. AnyOf(U) \in U
      BY <2>4, AnyOfIsIn
    <3>2. U \ {AnyOf(U)} \in P
      BY <1>1, <3>1
    <3> QED
      BY <2>1, <2>2, <2>4, <3>2 DEF Unfolds
  <2> QED
    BY <2>3, <2>4
<1>2. SUBSET T \subseteq P
  <2> HIDE DEF P
  <2> QED
    BY <1>1, SubsetInduction
<1> QED
  BY <1>2

(* The sum over a set is the value of one member more than the sum without it,   *)
(* whichever the member.                                                       *)
LEMMA SumFacts ==
    ASSUME NEW S, IsFiniteSet(S), NEW f, IntOn(f, S)
    PROVE  /\ SumFunctionOnSet(f, S) \in Int
           /\ S = {} => SumFunctionOnSet(f, S) = 0
           /\ \A x \in S : SumFunctionOnSet(f, S) = f[x] + SumFunctionOnSet(f, S \ {x})
<1>1. PICK F : Partial(F, S, f) /\ SumFunctionOnSet(f, S) = F[S]
  BY SumDefined
<1>3. ASSUME NEW T \in SUBSET S PROVE SumFunctionOnSet(f, T) = F[T]
  <2>1. IsFiniteSet(T) /\ IntOn(f, T)
    BY FS_Subset DEF IntOn
  <2>2. PICK G : Partial(G, T, f) /\ SumFunctionOnSet(f, T) = G[T]
    BY <2>1, SumDefined
  <2> QED
    <3>1. Partial(F, S, f) /\ Partial(G, T, f) /\ IsFiniteSet(T) /\ SumFunctionOnSet(f, T) = G[T]
      BY <1>1, <2>1, <2>2
    <3>2. G[T] = F[T]
      BY <3>1, PartialAgree
    <3> QED
      BY <3>1, <3>2
<1>4. ASSUME NEW T \in SUBSET S, T # {} PROVE \E p \in T : F[T] = f[p] + F[T \ {p}]
  <2>1. Unfolds(F, f, T) /\ AnyOf(T) \in T
    BY <1>1, <1>4, PartialStep, AnyOfIsIn
  <2> QED
    BY <1>4, <2>1 DEF Unfolds
<1> DEFINE Q == {T \in SUBSET S : \A x \in T : F[T] = f[x] + F[T \ {x}]}
<1>5. ASSUME NEW T \in SUBSET S, \A U \in SUBSET T : U # T => U \in Q PROVE T \in Q
  <2> SUFFICES ASSUME NEW x \in T PROVE F[T] = f[x] + F[T \ {x}]
    OBVIOUS
  <2>1. PICK p \in T : F[T] = f[p] + F[T \ {p}]
    BY <1>4
  <2>2. CASE p = x
    BY <2>1, <2>2
  <2>3. CASE p # x
    <3>1. T \ {p} \in Q /\ T \ {x} \in Q
      BY <1>5
    <3>2. F[T \ {p}] = f[x] + F[(T \ {p}) \ {x}] /\ F[T \ {x}] = f[p] + F[(T \ {x}) \ {p}]
      BY <2>3, <3>1
    <3>3. (T \ {p}) \ {x} = (T \ {x}) \ {p}
      OBVIOUS
    <3>4. F[(T \ {p}) \ {x}] \in Int /\ F[T \ {x}] \in Int /\ f[x] \in Int /\ f[p] \in Int
      BY <1>1 DEF IntOn, Partial
    <3>5. F[(T \ {p}) \ {x}] = F[(T \ {x}) \ {p}]
      BY <3>3
    <3> QED
      BY <2>1, <3>2, <3>4, <3>5
  <2> QED
    BY <2>2, <2>3
<1>6. SUBSET S \subseteq Q
  <2> HIDE DEF Q
  <2> QED
    BY <1>5, SubsetInduction
<1>7. \A x \in S : F[S] = f[x] + F[S \ {x}]
  BY <1>6
<1>8. (S = {} => F[S] = 0) /\ F[S] \in Int
  BY <1>1 DEF Partial, Peeling
<1>9. \A x \in S : SumFunctionOnSet(f, S \ {x}) = F[S \ {x}]
  BY <1>3
<1> QED
  BY <1>1, <1>7, <1>8, <1>9

(* The fold of a sequence takes its last element off first.                      *)
LastOf(S) == [T \in SUBSET S |-> CHOOSE x \in T : \A y \in T : x >= y]

LEMMA LastIsIn ==
    ASSUME NEW n \in Nat, NEW T \in SUBSET (1 .. n), T # {}
    PROVE  LastOf(1 .. n)[T] \in T /\ \A y \in T : LastOf(1 .. n)[T] >= y
<1>1. IsFiniteSet(T)
  <2>1. IsFiniteSet(1 .. n)
    BY FS_Interval
  <2> QED
    BY <2>1, FS_Subset
<1> DEFINE id == [x \in T |-> x]
<1>2. id \in [T -> Int] /\ \A x \in T : id[x] = x
  OBVIOUS
<1>3. \E x \in T : \A y \in T : id[y] <= id[x]
  <2> HIDE DEF id
  <2> QED
    BY <1>1, <1>2, GreatestValue
<1>4. \E x \in T : \A y \in T : x >= y
  BY <1>3
<1> QED
  BY <1>4 DEF LastOf

(* A sum, a member taken out of its set if it is there.                          *)
Peels(f, T, x) == SumFunctionOnSet(f, T) = (IF x \in T THEN f[x] ELSE 0) + SumFunctionOnSet(f, T \ {x})

LEMMA SumPeel ==
    ASSUME NEW S, IsFiniteSet(S), NEW f, IntOn(f, S), NEW T \in SUBSET S, NEW x
    PROVE  Peels(f, T, x)
<1>1. IsFiniteSet(T) /\ IntOn(f, T)
  BY FS_Subset DEF IntOn
<1>2. SumFunctionOnSet(f, T) \in Int
  BY <1>1, SumFacts
<1>3. CASE x \in T
  BY <1>1, <1>3, SumFacts DEF Peels
<1>4. CASE x \notin T
  <2>1. T \ {x} = T
    BY <1>4
  <2> QED
    BY <1>2, <1>4, <2>1 DEF Peels
<1> QED
  BY <1>3, <1>4

(* A set with one member more.                                                   *)
LEMMA OneMore ==
    ASSUME NEW S, IsFiniteSet(S), NEW x, x \notin S
    PROVE  IsFiniteSet(S \cup {x}) /\ Cardinality(S \cup {x}) = Cardinality(S) + 1
<1>1. \A y : IsFiniteSet(S \cup {y}) /\ Cardinality(S \cup {y}) = IF y \in S THEN Cardinality(S) ELSE Cardinality(S) + 1
  BY FS_AddElement
<1> QED
  BY <1>1

(* Sums compare member by member.                                                *)
LEMMA SumMonotone ==
    ASSUME NEW S, IsFiniteSet(S), NEW f, IntOn(f, S), NEW g, IntOn(g, S), \A x \in S : f[x] <= g[x]
    PROVE  SumFunctionOnSet(f, S) <= SumFunctionOnSet(g, S)
<1> DEFINE P == {T \in SUBSET S : SumFunctionOnSet(f, T) <= SumFunctionOnSet(g, T)}
<1>1. ASSUME NEW T \in SUBSET S, \A U \in SUBSET T : U # T => U \in P PROVE T \in P
  <2>1. IsFiniteSet(T) /\ IntOn(f, T) /\ IntOn(g, T)
    BY FS_Subset DEF IntOn
  <2>2. CASE T = {}
    <3>1. SumFunctionOnSet(f, T) = 0 /\ SumFunctionOnSet(g, T) = 0
      BY <2>1, <2>2, SumFacts
    <3> QED
      BY <3>1
  <2>3. CASE T # {}
    <3>1. PICK x \in T : TRUE
      BY <2>3
    <3>2. /\ SumFunctionOnSet(f, T) = f[x] + SumFunctionOnSet(f, T \ {x})
          /\ SumFunctionOnSet(g, T) = g[x] + SumFunctionOnSet(g, T \ {x})
      BY <2>1, SumFacts
    <3>3. T \ {x} \in P
      BY <1>1
    <3>4. IsFiniteSet(T \ {x}) /\ IntOn(f, T \ {x}) /\ IntOn(g, T \ {x})
      BY <2>1, FS_Subset DEF IntOn
    <3>5. SumFunctionOnSet(f, T \ {x}) \in Int /\ SumFunctionOnSet(g, T \ {x}) \in Int
      BY <3>4, SumFacts
    <3>6. f[x] \in Int /\ g[x] \in Int /\ f[x] <= g[x]
      BY DEF IntOn
    <3> QED
      BY <3>2, <3>3, <3>5, <3>6
  <2> QED
    BY <2>2, <2>3
<1>2. SUBSET S \subseteq P
  <2> HIDE DEF P
  <2> QED
    BY <1>1, SubsetInduction
<1> QED
  BY <1>2

LEMMA SumAgrees ==
    ASSUME NEW S, IsFiniteSet(S), NEW f, IntOn(f, S), NEW g, \A x \in S : f[x] = g[x]
    PROVE  SumFunctionOnSet(f, S) = SumFunctionOnSet(g, S)
<1>1. IntOn(g, S) /\ \A x \in S : f[x] <= g[x] /\ g[x] <= f[x]
  BY DEF IntOn
<1>2. SumFunctionOnSet(f, S) <= SumFunctionOnSet(g, S) /\ SumFunctionOnSet(g, S) <= SumFunctionOnSet(f, S)
  BY <1>1, SumMonotone
<1>3. SumFunctionOnSet(f, S) \in Int /\ SumFunctionOnSet(g, S) \in Int
  BY <1>1, SumFacts
<1> QED
  BY <1>2, <1>3

(* The sum over a set is that over a part and that over the rest.                 *)
LEMMA SumSplit ==
    ASSUME NEW S, IsFiniteSet(S), NEW f, IntOn(f, S), NEW R \in SUBSET S
    PROVE  SumFunctionOnSet(f, S) = SumFunctionOnSet(f, R) + SumFunctionOnSet(f, S \ R)
<1> DEFINE P == {T \in SUBSET R : SumFunctionOnSet(f, (S \ R) \cup T) = SumFunctionOnSet(f, T) + SumFunctionOnSet(f, S \ R)}
<1>0. \A T \in SUBSET S : IsFiniteSet(T) /\ IntOn(f, T) /\ SumFunctionOnSet(f, T) \in Int
  <2> TAKE T \in SUBSET S
  <2>1. IsFiniteSet(T) /\ IntOn(f, T)
    BY FS_Subset DEF IntOn
  <2> QED
    BY <2>1, SumFacts
<1>1. ASSUME NEW T \in SUBSET R, \A U \in SUBSET T : U # T => U \in P PROVE T \in P
  <2> DEFINE W == (S \ R) \cup T
  <2>1. CASE T = {}
    <3>1. SumFunctionOnSet(f, T) = 0
      BY <1>0, <2>1, SumFacts
    <3>2. (S \ R) \cup T = S \ R /\ SumFunctionOnSet(f, S \ R) \in Int
      BY <1>0, <2>1
    <3> QED
      BY <3>1, <3>2
  <2>2. CASE T # {}
    <3>1. PICK x \in T : TRUE
      BY <2>2
    <3>2. W \in SUBSET S /\ T \in SUBSET S /\ x \in W /\ W \ {x} = (S \ R) \cup (T \ {x})
      BY <3>1
    <3>3. SumFunctionOnSet(f, T) = f[x] + SumFunctionOnSet(f, T \ {x})
      BY <1>0, <3>2, SumFacts
    <3>4. SumFunctionOnSet(f, W) = f[x] + SumFunctionOnSet(f, W \ {x})
      <4> HIDE DEF W
      <4> QED
        BY <1>0, <3>2, SumFacts
    <3>5. T \ {x} \in P
      BY <1>1, <3>1
    <3>6. SumFunctionOnSet(f, W \ {x}) = SumFunctionOnSet(f, T \ {x}) + SumFunctionOnSet(f, S \ R)
      BY <3>2, <3>5
    <3>7. f[x] \in Int /\ SumFunctionOnSet(f, T \ {x}) \in Int /\ SumFunctionOnSet(f, S \ R) \in Int
      BY <1>0, <3>2 DEF IntOn
    <3> QED
      <4> HIDE DEF W
      <4>1. SumFunctionOnSet(f, W) = SumFunctionOnSet(f, T) + SumFunctionOnSet(f, S \ R)
        BY <3>3, <3>4, <3>6, <3>7
      <4> QED
        BY <4>1 DEF W
  <2> QED
    BY <2>1, <2>2
<1>2. SUBSET R \subseteq P
  <2>1. IsFiniteSet(R)
    BY FS_Subset
  <2> HIDE DEF P
  <2> QED
    BY <1>1, <2>1, SubsetInduction
<1>3. (S \ R) \cup R = S /\ R \in P
  BY <1>2
<1> QED
  BY <1>3

(* A sum renamed: one member of S for each member of its image.                   *)
OneToOne(h, S) == \A x, y \in S : h[x] = h[y] => x = y

LEMMA SumImage ==
    ASSUME NEW S, IsFiniteSet(S), NEW h, OneToOne(h, S), NEW f, NEW g, IntOn(g, S), \A x \in S : f[h[x]] = g[x]
    PROVE  SumFunctionOnSet(f, {h[x] : x \in S}) = SumFunctionOnSet(g, S)
<1> DEFINE image(T) == {h[x] : x \in T}
           P == {T \in SUBSET S : SumFunctionOnSet(f, image(T)) = SumFunctionOnSet(g, T)}
<1>0. \A T \in SUBSET S : /\ IsFiniteSet(T) /\ IntOn(g, T) /\ SumFunctionOnSet(g, T) \in Int
                          /\ IsFiniteSet(image(T)) /\ IntOn(f, image(T))
  <2> TAKE T \in SUBSET S
  <2>1. IsFiniteSet(T) /\ IntOn(g, T)
    BY FS_Subset DEF IntOn
  <2>2. IsFiniteSet(image(T))
    BY <2>1, FiniteImage
  <2>3. IntOn(f, image(T))
    BY DEF IntOn
  <2> HIDE DEF image
  <2> QED
    BY <2>1, <2>2, <2>3, SumFacts
<1>1. ASSUME NEW T \in SUBSET S, \A U \in SUBSET T : U # T => U \in P PROVE T \in P
  <2>1. CASE T = {}
    <3>1. SumFunctionOnSet(g, T) = 0
      BY <1>0, <2>1, SumFacts
    <3>2. image(T) = {}
      BY <2>1
    <3>3. SumFunctionOnSet(f, image(T)) = 0
      <4> HIDE DEF image
      <4> QED
        BY <1>0, <3>2, SumFacts
    <3> QED
      BY <3>1, <3>3
  <2>2. CASE T # {}
    <3>1. PICK x \in T : TRUE
      BY <2>2
    <3>2. SumFunctionOnSet(g, T) = g[x] + SumFunctionOnSet(g, T \ {x})
      BY <1>0, <3>1, SumFacts
    <3>3. h[x] \in image(T) /\ image(T) \ {h[x]} = image(T \ {x})
      BY <3>1 DEF OneToOne
    <3>4. SumFunctionOnSet(f, image(T)) = f[h[x]] + SumFunctionOnSet(f, image(T) \ {h[x]})
      <4>1. IsFiniteSet(image(T)) /\ IntOn(f, image(T))
        BY <1>0
      <4> HIDE DEF image
      <4> QED
        BY <3>3, <4>1, SumFacts
    <3>5. T \ {x} \in P
      BY <1>1, <3>1
    <3>6. f[h[x]] = g[x]
      BY <3>1
    <3> HIDE DEF image
    <3>7. SumFunctionOnSet(f, image(T \ {x})) = SumFunctionOnSet(g, T \ {x})
      BY <3>5
    <3> QED
      BY <3>2, <3>3, <3>4, <3>6, <3>7
  <2> QED
    BY <2>1, <2>2
<1>2. SUBSET S \subseteq P
  <2> HIDE DEF P
  <2> QED
    BY <1>1, SubsetInduction
<1> QED
  BY <1>2

LEMMA SumNegated ==
    ASSUME NEW S, IsFiniteSet(S), NEW f, IntOn(f, S), NEW m, \A x \in S : m[x] = -f[x]
    PROVE  SumFunctionOnSet(m, S) = -SumFunctionOnSet(f, S)
<1> DEFINE P == {T \in SUBSET S : SumFunctionOnSet(m, T) = -SumFunctionOnSet(f, T)}
<1>0. IntOn(m, S)
  BY DEF IntOn
<1>1. ASSUME NEW T \in SUBSET S, \A U \in SUBSET T : U # T => U \in P PROVE T \in P
  <2>1. IsFiniteSet(T) /\ IntOn(m, T) /\ IntOn(f, T)
    BY <1>0, FS_Subset DEF IntOn
  <2>2. CASE T = {}
    BY <2>1, <2>2, SumFacts
  <2>3. CASE T # {}
    <3>1. PICK x \in T : TRUE
      BY <2>3
    <3>2. /\ SumFunctionOnSet(m, T) = m[x] + SumFunctionOnSet(m, T \ {x})
          /\ SumFunctionOnSet(f, T) = f[x] + SumFunctionOnSet(f, T \ {x})
      BY <2>1, SumFacts
    <3>3. T \ {x} \in P /\ m[x] = -f[x] /\ f[x] \in Int
      BY <1>1 DEF IntOn
    <3>4. IsFiniteSet(T \ {x}) /\ IntOn(f, T \ {x})
      BY <2>1, FS_Subset DEF IntOn
    <3>5. SumFunctionOnSet(f, T \ {x}) \in Int
      BY <3>4, SumFacts
    <3> QED
      BY <3>2, <3>3, <3>5
  <2> QED
    BY <2>2, <2>3
<1>2. SUBSET S \subseteq P
  <2> HIDE DEF P
  <2> QED
    BY <1>1, SubsetInduction
<1> QED
  BY <1>2

(* -f is no larger than f, hence neither is its sum.                               *)
LEMMA SumNatural ==
    ASSUME NEW S, IsFiniteSet(S), NEW f, IntOn(f, S), \A x \in S : f[x] >= 0
    PROVE  SumFunctionOnSet(f, S) >= 0
<1> DEFINE m == [x \in S |-> -f[x]]
<1>1. IntOn(m, S) /\ \A x \in S : m[x] = -f[x] /\ m[x] <= f[x]
  BY DEF IntOn
<1> HIDE DEF m
<1>2. SumFunctionOnSet(m, S) = -SumFunctionOnSet(f, S) /\ SumFunctionOnSet(m, S) <= SumFunctionOnSet(f, S)
  BY <1>1, SumNegated, SumMonotone
<1>3. SumFunctionOnSet(f, S) \in Int
  BY SumFacts
<1> QED
  BY <1>2, <1>3
================================================================================
