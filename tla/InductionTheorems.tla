------------------------- MODULE InductionTheorems -------------------------
(***************************************************************************)
(* What the proofs of the components share: induction over numbers and     *)
(* over finite sets, the functions recursion and folding define, sums over *)
(* finite sets, finite sets in order, powers of two, sequences that list a *)
(* set, counting by parts and classes, what a scan has met up to a place,  *)
(* and the places of a table by row and column.  The theorems of the       *)
(* libraries take a predicate as a parameter; the ones on induction here   *)
(* take the set of the values that satisfy it.                             *)
(***************************************************************************)
EXTENDS Orders, WellFoundedInduction, FiniteSetTheorems, SequenceTheorems, TLAPS

(* A set of numbers with a member has a least one.                         *)
LEMMA LeastNat ==
  ASSUME NEW T, T \subseteq Nat, T # {}
  PROVE  \E n \in T : \A m \in T : n <= m
  <1>. DEFINE Less == {p \in Nat \X Nat : p[1] < p[2]}
  <1>1. IsWellFoundedOn(Less, Nat)
    <2>1. OpToRel(<, Nat) = Less
      BY Zenon DEF OpToRel
    <2>. QED
      BY <2>1, NatLessThanWellFounded, Zenon
  <1>2. PICK n \in T : \A m \in T : <<m, n>> \notin Less
    <2>. HIDE DEF Less
    <2>. QED
      BY <1>1, WFMin
  <1>3. ASSUME NEW m \in T PROVE n <= m
    <2>1. m \in Nat /\ n \in Nat
      BY <1>2
    <2>2. ~(m < n)
      BY <1>2, <2>1
    <2>. QED
      BY <2>1, <2>2
  <1>. QED
    BY <1>2, <1>3

(* What holds at 0 and is carried on holds up to any number.               *)
LEMMA InductionUpTo ==
  ASSUME NEW n \in Nat, NEW T, 0 \in T, \A k \in 1..n : k - 1 \in T => k \in T
  PROVE  0..n \subseteq T
  <1>. DEFINE bad == {k \in 0..n : k \notin T}
  <1>1. SUFFICES ASSUME bad # {} PROVE FALSE
    OBVIOUS
  <1>2. PICK k \in bad : \A m \in bad : k <= m
    <2>1. bad \subseteq Nat
      OBVIOUS
    <2>. HIDE DEF bad
    <2>. QED
      BY <1>1, <2>1, LeastNat
  <1>3. k \in 1..n
    BY <1>2
  <1>4. k - 1 \in 0..n /\ k - 1 \notin bad
    BY <1>2, <1>3
  <1>. QED
    BY <1>2, <1>3, <1>4

LEMMA InductionOnNat ==
  ASSUME NEW T, 0 \in T, \A k \in Nat : k \in T => k + 1 \in T
  PROVE  Nat \subseteq T
  <1>. SUFFICES ASSUME NEW n \in Nat PROVE n \in T
    OBVIOUS
  <1>1. \A k \in 1..n : k - 1 \in T => k \in T
    OBVIOUS
  <1>2. 0..n \subseteq T
    BY <1>1, InductionUpTo
  <1>. QED
    BY <1>2

(* Iterating steps from a first value defines a function.                  *)
Iterates(f, first, step, n) ==
  f[0] = first /\ \A k \in 1..n : f[k] = step[k][f[k - 1]]

LEMMA RecursionExists ==
  ASSUME NEW S, NEW first \in S, NEW n \in Nat, NEW step \in [1..n -> [S -> S]]
  PROVE  \E f \in [0..n -> S] : Iterates(f, first, step, n)
  <1>. DEFINE Upto(m) == {f \in [0..m -> S] :
                            f[0] = first /\ \A k \in 1..m : f[k] = step[k][f[k - 1]]}
              T == {m \in 0..n : Upto(m) # {}}
  <1>1. 0 \in T
    <2>1. [x \in 0..0 |-> first] \in Upto(0)
      OBVIOUS
    <2>. QED
      BY <2>1
  <1>2. ASSUME NEW m \in 1..n, m - 1 \in T PROVE m \in T
    <2>1. PICK f : f \in Upto(m - 1)
      BY <1>2
    <2>. DEFINE g == [x \in 0..m |-> IF x = m THEN step[m][f[m - 1]] ELSE f[x]]
    <2>2. f[m - 1] \in S /\ step[m][f[m - 1]] \in S
      BY <2>1
    <2>3. g \in [0..m -> S]
      BY <2>1, <2>2
    <2>4. g[0] = first
      BY <2>1
    <2>5. ASSUME NEW k \in 1..m PROVE g[k] = step[k][g[k - 1]]
      <3>1. g[k - 1] = f[k - 1]
        OBVIOUS
      <3>2. CASE k = m
        BY <3>1, <3>2
      <3>3. CASE k # m
        <4>1. k \in 1..(m - 1)
          BY <3>3
        <4>2. f[k] = step[k][f[k - 1]]
          BY <2>1, <4>1
        <4>. QED
          BY <3>1, <3>3, <4>2
      <3>. QED
        BY <3>2, <3>3
    <2>6. g \in Upto(m)
      <3>. HIDE DEF g
      <3>. QED
        BY <2>3, <2>4, <2>5
    <2>. QED
      BY <2>6
  <1>3. n \in T
    <2>. HIDE DEF T
    <2>1. 0..n \subseteq T
      BY <1>1, <1>2, InductionUpTo
    <2>. QED
      BY <2>1
  <1>. QED
    BY <1>3 DEF Iterates

(* Functions that agree at 0 and go on alike agree.                        *)
LEMMA RecursionIsUnique ==
  ASSUME NEW n \in Nat, NEW f, NEW g, f[0] = g[0],
         \A k \in 1..n : f[k - 1] = g[k - 1] => f[k] = g[k]
  PROVE  \A k \in 0..n : f[k] = g[k]
  <1>. DEFINE T == {k \in 0..n : f[k] = g[k]}
  <1>1. 0 \in T /\ \A k \in 1..n : k - 1 \in T => k \in T
    OBVIOUS
  <1>. HIDE DEF T
  <1>2. 0..n \subseteq T
    BY <1>1, InductionUpTo
  <1>. QED
    BY <1>2 DEF T

(* Going on for ever.                                                      *)
LEMMA RecursionOnNat ==
  ASSUME NEW S, NEW first \in S, NEW step \in [S -> S]
  PROVE  \E f \in [Nat -> S] : f[0] = first /\ \A n \in Nat : f[n + 1] = step[f[n]]
  <1>. DEFINE UpTo(n) == {f \in [0..n -> S] :
                            f[0] = first /\ \A k \in 1..n : f[k] = step[f[k - 1]]}
              g(n) == CHOOSE f : f \in UpTo(n)
              f == [n \in Nat |-> g(n)[n]]
  <1>1. ASSUME NEW n \in Nat PROVE g(n) \in UpTo(n)
    <2>. DEFINE steps == [k \in 1..n |-> step]
    <2>1. steps \in [1..n -> [S -> S]]
      OBVIOUS
    <2>. HIDE DEF steps
    <2>2. PICK h \in [0..n -> S] : Iterates(h, first, steps, n)
      BY <2>1, RecursionExists
    <2>3. h \in UpTo(n)
      BY <2>2 DEF Iterates, steps
    <2>. HIDE DEF UpTo
    <2>. QED
      BY <2>3
  <1>. HIDE DEF g
  <1>2. ASSUME NEW n \in Nat PROVE g(n + 1)[n] = g(n)[n]
    <2>1. g(n) \in UpTo(n) /\ g(n + 1) \in UpTo(n + 1)
      BY <1>1
    <2>2. PICK h : h = g(n)
      OBVIOUS
    <2>3. PICK i : i = g(n + 1)
      OBVIOUS
    <2>4. h[0] = i[0] /\ \A k \in 1..n : h[k - 1] = i[k - 1] => h[k] = i[k]
      BY <2>1, <2>2, <2>3
    <2>5. \A k \in 0..n : h[k] = i[k]
      BY <2>4, RecursionIsUnique
    <2>. QED
      BY <2>2, <2>3, <2>5
  <1>3. f \in [Nat -> S]
    <2>. SUFFICES ASSUME NEW n \in Nat PROVE g(n)[n] \in S
      OBVIOUS
    <2>. QED
      BY <1>1
  <1>4. f[0] = first
    BY <1>1
  <1>5. ASSUME NEW n \in Nat PROVE f[n + 1] = step[f[n]]
    <2>1. g(n + 1)[n + 1] = step[g(n + 1)[n]]
      <3>1. g(n + 1) \in UpTo(n + 1) /\ n + 1 \in 1..(n + 1) /\ (n + 1) - 1 = n
        BY <1>1
      <3>. QED
        BY <3>1
    <2>. QED
      BY <1>2, <2>1
  <1>. QED
    BY <1>3, <1>4, <1>5

-----------------------------------------------------------------------------
(* Finite sets.                                                            *)

(* What holds of the empty set and survives adding a member holds of every *)
(* finite set; the sets it holds of are the members of T.                  *)
LEMMA InductionOnFinite ==
  ASSUME NEW S, IsFiniteSet(S), NEW T, {} \in T,
         \A R \in SUBSET S : \A x \in S \ R : R \in T => R \cup {x} \in T
  PROVE  S \in T
  <1>. DEFINE N == {n \in Nat : \A R \in SUBSET S : Cardinality(R) = n => R \in T}
  <1>1. \A R \in SUBSET S : IsFiniteSet(R) /\ Cardinality(R) \in Nat
    BY FS_Subset, FS_CardinalityType
  <1>2. 0 \in N
    BY <1>1, FS_EmptySet
  <1>3. ASSUME NEW n \in Nat, n \in N PROVE n + 1 \in N
    <2>. SUFFICES ASSUME NEW R \in SUBSET S, Cardinality(R) = n + 1 PROVE R \in T
      OBVIOUS
    <2>1. R # {}
      <3>1. Cardinality({}) = 0 /\ n + 1 # 0
        BY <1>3, FS_EmptySet
      <3>. QED
        BY <3>1
    <2>2. PICK x \in R : TRUE
      BY <2>1
    <2>3. R \ {x} \in SUBSET S /\ Cardinality(R \ {x}) = n
      <3>1. Cardinality(R \ {x}) = Cardinality(R) - 1
        BY <1>1, <2>2, FS_RemoveElement, Zenon
      <3>. QED
        BY <1>3, <3>1
    <2>4. R \ {x} \in T
      BY <1>3, <2>3
    <2>5. (R \ {x}) \cup {x} \in T
      BY <2>2, <2>3, <2>4
    <2>. QED
      BY <2>2, <2>5
  <1>. HIDE DEF N
  <1>4. Nat \subseteq N
    BY <1>2, <1>3, InductionOnNat
  <1>. QED
    BY <1>1, <1>4 DEF N

(* Taking the members of a finite set out in the order of choice, and      *)
(* applying a step for each, defines a function of the subsets.            *)
Selections(S) == {choice \in [(SUBSET S) \ {{}} -> S] :
                 \A s \in (SUBSET S) \ {{}} : choice[s] \in s}

Folds(g, base, choice, step, S) ==
  /\ g[{}] = base
  /\ \A s \in (SUBSET S) \ {{}} : g[s] = step[choice[s]][g[s \ {choice[s]}]]

LEMMA FoldExists ==
  ASSUME NEW S, IsFiniteSet(S), NEW V, NEW base \in V,
         NEW choice \in Selections(S), NEW step \in [S -> [V -> V]]
  PROVE  \E g \in [SUBSET S -> V] : Folds(g, base, choice, step, S)
  <1>. DEFINE Upto(n) == {s \in SUBSET S : Cardinality(s) <= n}
              UpToN(g, n) == /\ g[{}] = base
                             /\ \A s \in Upto(n) \ {{}} :
                                  g[s] = step[choice[s]][g[s \ {choice[s]}]]
              N == {n \in Nat : \E g \in [Upto(n) -> V] : UpToN(g, n)}
  <1>0. \A s \in (SUBSET S) \ {{}} : choice[s] \in s
    BY DEF Selections
  <1>1. \A R \in SUBSET S : IsFiniteSet(R) /\ Cardinality(R) \in Nat
    BY FS_Subset, FS_CardinalityType
  <1>2. 0 \in N
    <2>1. Upto(0) = {{}}
      <3>1. \A R \in SUBSET S : Cardinality(R) <= 0 <=> R = {}
        BY <1>1, FS_EmptySet
      <3>. QED
        BY <3>1
    <2>2. [s \in Upto(0) |-> base] \in [Upto(0) -> V] /\ UpToN([s \in Upto(0) |-> base], 0)
      BY <2>1
    <2>. QED
      BY <2>2
  <1>3. ASSUME NEW n \in Nat, n \in N PROVE n + 1 \in N
    <2>1. PICK g \in [Upto(n) -> V] : UpToN(g, n)
      BY <1>3
    <2>. DEFINE h == [s \in Upto(n + 1) |-> IF s \in Upto(n) THEN g[s]
                                            ELSE step[choice[s]][g[s \ {choice[s]}]]]
    <2>2. {} \in Upto(n) /\ {} \in Upto(n + 1)
      BY FS_EmptySet
    <2>3. ASSUME NEW s \in Upto(n + 1), s # {}
          PROVE  choice[s] \in s /\ s \ {choice[s]} \in Upto(n) /\ s \ {choice[s]} \in Upto(n + 1)
      <3>1. choice[s] \in s /\ s \in SUBSET S
        BY <1>0, <2>3
      <3>2. Cardinality(s \ {choice[s]}) = Cardinality(s) - 1
        BY <1>1, <3>1, FS_RemoveElement
      <3>. QED
        BY <1>1, <3>1, <3>2
    <2>4. h \in [Upto(n + 1) -> V]
      <3>1. ASSUME NEW s \in Upto(n + 1), s \notin Upto(n)
            PROVE  step[choice[s]][g[s \ {choice[s]}]] \in V
        <4>1. s # {}
          BY <2>2, <3>1
        <4>2. choice[s] \in S /\ s \ {choice[s]} \in Upto(n)
          BY <2>3, <4>1
        <4>3. g[s \ {choice[s]}] \in V
          BY <4>2
        <4>4. step[choice[s]] \in [V -> V]
          BY <4>2
        <4>. HIDE DEF Upto
        <4>. QED
          BY <4>3, <4>4
      <3>. HIDE DEF Upto
      <3>. QED
        BY <3>1
    <2>5. h[{}] = base
      BY <2>1, <2>2
    <2>6. ASSUME NEW s \in Upto(n + 1) \ {{}}
          PROVE  h[s] = step[choice[s]][h[s \ {choice[s]}]]
      <3>1. h[s \ {choice[s]}] = g[s \ {choice[s]}]
        BY <2>3
      <3>2. s \in Upto(n) => g[s] = step[choice[s]][g[s \ {choice[s]}]]
        BY <2>1
      <3>. QED
        BY <3>1, <3>2
    <2>7. UpToN(h, n + 1)
      <3>. HIDE DEF h, Upto
      <3>. QED
        BY <2>5, <2>6
    <2>. HIDE DEF h, UpToN, Upto
    <2>. QED
      BY <2>4, <2>7
  <1>4. Cardinality(S) \in N
    <2>. HIDE DEF N
    <2>1. Nat \subseteq N
      BY <1>2, <1>3, InductionOnNat
    <2>. QED
      BY <1>1, <2>1
  <1>5. Upto(Cardinality(S)) = SUBSET S
    BY FS_Subset
  <1>. QED
    BY <1>4, <1>5 DEF Folds

(* They begin alike and go on alike.                                       *)
StepsAlike(g, h, choice, S) ==
  /\ g[{}] = h[{}]
  /\ \A s \in (SUBSET S) \ {{}} : g[s \ {choice[s]}] = h[s \ {choice[s]}] => g[s] = h[s]

LEMMA FoldIsUnique ==
  ASSUME NEW S, IsFiniteSet(S), NEW choice \in Selections(S), NEW g, NEW h,
         StepsAlike(g, h, choice, S)
  PROVE  \A s \in SUBSET S : g[s] = h[s]
  <1>. DEFINE N == {n \in Nat : \A R \in SUBSET S : Cardinality(R) = n => g[R] = h[R]}
  <1>1. \A R \in SUBSET S : IsFiniteSet(R) /\ Cardinality(R) \in Nat
    BY FS_Subset, FS_CardinalityType
  <1>2. 0 \in N
    BY <1>1, FS_EmptySet DEF StepsAlike
  <1>3. ASSUME NEW n \in Nat, n \in N PROVE n + 1 \in N
    <2>. SUFFICES ASSUME NEW R \in SUBSET S, Cardinality(R) = n + 1 PROVE g[R] = h[R]
      OBVIOUS
    <2>1. R # {}
      <3>1. Cardinality({}) = 0 /\ n + 1 # 0
        BY <1>3, FS_EmptySet
      <3>. QED
        BY <3>1
    <2>2. choice[R] \in R
      BY <2>1 DEF Selections
    <2>3. R \ {choice[R]} \in SUBSET S /\ Cardinality(R \ {choice[R]}) = n
      <3>1. Cardinality(R \ {choice[R]}) = Cardinality(R) - 1
        BY <1>1, <2>2, FS_RemoveElement, Zenon
      <3>. QED
        BY <1>3, <3>1
    <2>. QED
      BY <1>3, <2>1, <2>3 DEF StepsAlike
  <1>. HIDE DEF N
  <1>4. Nat \subseteq N
    BY <1>2, <1>3, InductionOnNat
  <1>. QED
    BY <1>1, <1>4 DEF N

-----------------------------------------------------------------------------
(* Sums.                                                                   *)

Some(s) == CHOOSE x \in s : TRUE

(* g adds up f over the subsets of S, taking out some member after the     *)
(* other.                                                                  *)
Sums(g, f, S) ==
  /\ g[{}] = 0
  /\ \A s \in (SUBSET S) \ {{}} : g[s] = f[Some(s)] + g[s \ {Some(s)}]

SumOver(f, S) == (CHOOSE g \in [SUBSET S -> Int] : Sums(g, f, S))[S]

LEMMA SomeIsMember == \A s : s # {} => Some(s) \in s
  BY DEF Some

LEMMA SumsExist ==
  ASSUME NEW S, IsFiniteSet(S), NEW f, \A x \in S : f[x] \in Int
  PROVE  \E g \in [SUBSET S -> Int] : Sums(g, f, S)
  <1>. DEFINE choice == [s \in (SUBSET S) \ {{}} |-> Some(s)]
              step == [x \in S |-> [v \in Int |-> f[x] + v]]
  <1>1. \A s \in (SUBSET S) \ {{}} : choice[s] \in s /\ choice[s] = Some(s)
    BY SomeIsMember
  <1>2. \A x \in S, v \in Int : step[x][v] \in Int /\ step[x][v] = f[x] + v
    OBVIOUS
  <1>. HIDE DEF choice, step
  <1>3. PICK g \in [SUBSET S -> Int] : Folds(g, 0, choice, step, S)
    <2>1. 0 \in Int /\ choice \in Selections(S)
      <3>1. \A s \in (SUBSET S) \ {{}} : Some(s) \in S
        BY SomeIsMember
      <3>2. choice \in [(SUBSET S) \ {{}} -> S]
        BY <3>1 DEF choice
      <3>. QED
        BY <1>1, <3>2 DEF Selections
    <2>2. step \in [S -> [Int -> Int]]
      BY DEF step
    <2>. QED
      BY <2>1, <2>2, FoldExists
  <1>4. ASSUME NEW s \in (SUBSET S) \ {{}} PROVE g[s] = f[Some(s)] + g[s \ {Some(s)}]
    <2>1. Some(s) \in S /\ g[s \ {Some(s)}] \in Int /\ choice[s] = Some(s)
      BY <1>1
    <2>. QED
      BY <1>2, <1>3, <2>1 DEF Folds
  <1>. QED
    BY <1>3, <1>4 DEF Sums, Folds

LEMMA SumsAreUnique ==
  ASSUME NEW S, IsFiniteSet(S), NEW f, NEW e, \A x \in S : f[x] = e[x],
         NEW g, NEW h, Sums(g, f, S), Sums(h, e, S)
  PROVE  \A s \in SUBSET S : g[s] = h[s]
  <1>. DEFINE choice == [s \in (SUBSET S) \ {{}} |-> Some(s)]
  <1>1. \A s \in (SUBSET S) \ {{}} : choice[s] \in s /\ choice[s] = Some(s)
    BY SomeIsMember
  <1>. HIDE DEF choice
  <1>2. ASSUME NEW s \in (SUBSET S) \ {{}}, g[s \ {choice[s]}] = h[s \ {choice[s]}]
        PROVE  g[s] = h[s]
    <2>1. Some(s) \in S /\ choice[s] = Some(s)
      BY <1>1
    <2>. QED
      BY <1>2, <2>1 DEF Sums
  <1>3. g[{}] = h[{}]
    BY DEF Sums
  <1>4. \A s \in (SUBSET S) \ {{}} :
          g[s \ {choice[s]}] = h[s \ {choice[s]}] => g[s] = h[s]
    BY <1>1, <1>2
  <1>5. choice \in Selections(S)
    <2>1. \A s \in (SUBSET S) \ {{}} : Some(s) \in S
      BY SomeIsMember
    <2>2. choice \in [(SUBSET S) \ {{}} -> S]
      BY <2>1 DEF choice
    <2>. QED
      BY <1>1, <2>2 DEF Selections
  <1>. QED
    BY <1>3, <1>4, <1>5, FoldIsUnique DEF StepsAlike

(* Whatever adds up f is the sum.                                          *)
LEMMA SumIs ==
  ASSUME NEW S, IsFiniteSet(S), NEW f, \A x \in S : f[x] \in Int, NEW g, Sums(g, f, S)
  PROVE  SumOver(f, S) = g[S] /\ g[S] \in Int
  <1>. DEFINE h == CHOOSE h \in [SUBSET S -> Int] : Sums(h, f, S)
  <1>1. h \in [SUBSET S -> Int] /\ Sums(h, f, S)
    BY SumsExist
  <1>2. SumOver(f, S) = h[S]
    BY DEF SumOver
  <1>. HIDE DEF h
  <1>3. h[S] = g[S]
    BY <1>1, SumsAreUnique
  <1>. QED
    BY <1>1, <1>2, <1>3

LEMMA SumOverNone == \A f : SumOver(f, {}) = 0
  <1>. SUFFICES ASSUME NEW f PROVE SumOver(f, {}) = 0
    OBVIOUS
  <1>1. Sums([s \in {{}} |-> 0], f, {})
    BY DEF Sums
  <1>. QED
    BY <1>1, SumIs, FS_EmptySet

LEMMA SumTakesOut ==
  ASSUME NEW S, IsFiniteSet(S), NEW f, \A x \in S : f[x] \in Int, NEW x \in S
  PROVE  /\ SumOver(f, S) = f[x] + SumOver(f, S \ {x})
         /\ SumOver(f, S) \in Int /\ SumOver(f, S \ {x}) \in Int
  <1>1. PICK g \in [SUBSET S -> Int] : Sums(g, f, S)
    BY SumsExist
  <1>2. \A R \in SUBSET S : IsFiniteSet(R) /\ Cardinality(R) \in Nat
    BY FS_Subset, FS_CardinalityType
  <1>. DEFINE Out(s) == \A y \in s : g[s] = f[y] + g[s \ {y}]
              N == {n \in Nat : \A s \in SUBSET S : Cardinality(s) = n => Out(s)}
  <1>3. 0 \in N
    BY <1>2, FS_EmptySet
  <1>4. ASSUME NEW n \in Nat, n \in N PROVE n + 1 \in N
    <2>. SUFFICES ASSUME NEW s \in SUBSET S, Cardinality(s) = n + 1, NEW y \in s
                  PROVE  g[s] = f[y] + g[s \ {y}]
      OBVIOUS
    <2>. DEFINE z == Some(s)
    <2>1. z \in s
      BY SomeIsMember
    <2>2. g[s] = f[z] + g[s \ {z}]
      BY <1>1 DEF Sums
    <2>. HIDE DEF z
    <2>3. CASE y = z
      BY <2>2, <2>3
    <2>4. CASE y # z
      <3>1. /\ s \ {y} \in SUBSET S /\ s \ {z} \in SUBSET S
            /\ y \in s \ {z} /\ z \in s \ {y}
            /\ (s \ {z}) \ {y} = (s \ {y}) \ {z} /\ (s \ {z}) \ {y} \in SUBSET S
        BY <2>1, <2>4
      <3>2. Cardinality(s \ {y}) = n /\ Cardinality(s \ {z}) = n
        <4>1. /\ Cardinality(s \ {y}) = Cardinality(s) - 1
              /\ Cardinality(s \ {z}) = Cardinality(s) - 1
          BY <1>2, <2>1, FS_RemoveElement, Zenon
        <4>. QED
          BY <1>4, <4>1
      <3>3. Out(s \ {y}) /\ Out(s \ {z})
        BY <1>4, <3>1, <3>2
      <3>4. /\ g[s \ {z}] = f[y] + g[(s \ {z}) \ {y}]
            /\ g[s \ {y}] = f[z] + g[(s \ {z}) \ {y}]
        BY <3>1, <3>3
      <3>5. f[y] \in Int /\ f[z] \in Int /\ g[(s \ {z}) \ {y}] \in Int
        BY <1>1, <2>1, <3>1
      <3>. QED
        BY <2>2, <3>4, <3>5
    <2>. QED
      BY <2>3, <2>4
  <1>5. g[S] = f[x] + g[S \ {x}]
    <2>1. Nat \subseteq N
      <3>. HIDE DEF N
      <3>. QED
        BY <1>3, <1>4, InductionOnNat
    <2>. QED
      BY <1>2, <2>1
  <1>6. Sums(g, f, S \ {x})
    BY <1>1 DEF Sums
  <1>7. SumOver(f, S) = g[S] /\ SumOver(f, S \ {x}) = g[S \ {x}]
    BY <1>1, <1>2, <1>6, SumIs
  <1>. QED
    BY <1>1, <1>5, <1>7

LEMMA SumTakesIn ==
  ASSUME NEW S, IsFiniteSet(S), NEW x, x \notin S, NEW f, \A y \in S \cup {x} : f[y] \in Int
  PROVE  SumOver(f, S \cup {x}) = f[x] + SumOver(f, S) /\ SumOver(f, S) \in Int
  <1>1. IsFiniteSet(S \cup {x})
    BY FS_AddElement
  <1>2. (S \cup {x}) \ {x} = S
    OBVIOUS
  <1>. QED
    BY <1>1, <1>2, SumTakesOut

(* A sum is decided by the values added up.                                *)
LEMMA SameSum ==
  ASSUME NEW S, IsFiniteSet(S), NEW f, NEW h, \A x \in S : f[x] \in Int /\ f[x] = h[x]
  PROVE  SumOver(f, S) = SumOver(h, S) /\ SumOver(f, S) \in Int
  <1>1. PICK g \in [SUBSET S -> Int] : Sums(g, f, S)
    BY SumsExist
  <1>2. PICK e \in [SUBSET S -> Int] : Sums(e, h, S)
    BY SumsExist
  <1>3. g[S] = e[S]
    BY <1>1, <1>2, SumsAreUnique
  <1>. QED
    BY <1>1, <1>2, <1>3, SumIs

(* Raising one value by d raises the sum by d.                             *)
LEMMA SumRaised ==
  ASSUME NEW S, IsFiniteSet(S), NEW f, NEW h, NEW x \in S, NEW d \in Int,
         \A y \in S : f[y] \in Int,
         h[x] = f[x] + d, \A y \in S \ {x} : h[y] = f[y]
  PROVE  SumOver(h, S) = SumOver(f, S) + d
  <1>1. \A y \in S : h[y] \in Int
    OBVIOUS
  <1>2. IsFiniteSet(S \ {x})
    BY FS_RemoveElement
  <1>3. SumOver(f, S \ {x}) = SumOver(h, S \ {x})
    BY <1>2, SameSum
  <1>4. /\ SumOver(f, S) = f[x] + SumOver(f, S \ {x})
        /\ SumOver(h, S) = h[x] + SumOver(h, S \ {x})
        /\ SumOver(f, S \ {x}) \in Int
    BY <1>1, SumTakesOut
  <1>. QED
    BY <1>3, <1>4

(* Sums add, and compare, like the values.                                 *)
LEMMA SumOfSums ==
  ASSUME NEW S, IsFiniteSet(S), NEW f, NEW h, NEW e,
         \A x \in S : f[x] \in Int /\ h[x] \in Int /\ e[x] = f[x] + h[x]
  PROVE  SumOver(e, S) = SumOver(f, S) + SumOver(h, S)
  <1>. DEFINE T == {R \in SUBSET S : SumOver(e, R) = SumOver(f, R) + SumOver(h, R)}
  <1>1. {} \in T
    BY SumOverNone
  <1>2. ASSUME NEW R \in SUBSET S, NEW x \in S \ R, R \in T PROVE R \cup {x} \in T
    <2>1. IsFiniteSet(R)
      BY FS_Subset
    <2>2. /\ SumOver(e, R \cup {x}) = e[x] + SumOver(e, R)
          /\ SumOver(f, R \cup {x}) = f[x] + SumOver(f, R) /\ SumOver(f, R) \in Int
          /\ SumOver(h, R \cup {x}) = h[x] + SumOver(h, R) /\ SumOver(h, R) \in Int
      <3>1. \A y \in R \cup {x} : e[y] \in Int /\ f[y] \in Int /\ h[y] \in Int
        OBVIOUS
      <3>. QED
        BY <2>1, <3>1, SumTakesIn
    <2>3. SumOver(e, R \cup {x}) = SumOver(f, R \cup {x}) + SumOver(h, R \cup {x})
      <3>1. e[x] = f[x] + h[x] /\ f[x] \in Int /\ h[x] \in Int
        OBVIOUS
      <3>2. SumOver(e, R) = SumOver(f, R) + SumOver(h, R)
        BY <1>2
      <3>. QED
        BY <2>2, <3>1, <3>2
    <2>. QED
      BY <2>3
  <1>. HIDE DEF T
  <1>3. S \in T
    BY <1>1, <1>2, InductionOnFinite
  <1>. QED
    BY <1>3 DEF T

LEMMA SumsCompare ==
  ASSUME NEW S, IsFiniteSet(S), NEW f, NEW h,
         \A x \in S : f[x] \in Nat /\ h[x] \in Nat /\ f[x] <= h[x]
  PROVE  SumOver(f, S) <= SumOver(h, S)
  <1>. DEFINE T == {R \in SUBSET S : SumOver(f, R) <= SumOver(h, R)}
  <1>1. {} \in T
    BY SumOverNone
  <1>2. ASSUME NEW R \in SUBSET S, NEW x \in S \ R, R \in T PROVE R \cup {x} \in T
    <2>1. IsFiniteSet(R)
      BY FS_Subset
    <2>2. /\ SumOver(f, R \cup {x}) = f[x] + SumOver(f, R) /\ SumOver(f, R) \in Int
          /\ SumOver(h, R \cup {x}) = h[x] + SumOver(h, R) /\ SumOver(h, R) \in Int
      <3>1. \A y \in R \cup {x} : f[y] \in Int /\ h[y] \in Int
        OBVIOUS
      <3>. QED
        BY <2>1, <3>1, SumTakesIn
    <2>3. SumOver(f, R \cup {x}) <= SumOver(h, R \cup {x})
      <3>1. f[x] \in Nat /\ h[x] \in Nat /\ f[x] <= h[x]
        OBVIOUS
      <3>2. SumOver(f, R) <= SumOver(h, R)
        BY <1>2
      <3>. QED
        BY <2>2, <3>1, <3>2
    <2>. QED
      BY <2>3
  <1>. HIDE DEF T
  <1>3. S \in T
    BY <1>1, <1>2, InductionOnFinite
  <1>. QED
    BY <1>3 DEF T

(* A sum of zeros is zero, and only that: of natural numbers.              *)
LEMMA SumOfZeros ==
  ASSUME NEW S, IsFiniteSet(S), NEW f, \A x \in S : f[x] \in Nat
  PROVE  /\ SumOver(f, S) \in Nat
         /\ SumOver(f, S) = 0 <=> \A x \in S : f[x] = 0
  <1>. DEFINE T == {R \in SUBSET S : /\ SumOver(f, R) \in Nat
                                     /\ SumOver(f, R) = 0 <=> \A x \in R : f[x] = 0}
  <1>1. {} \in T
    BY SumOverNone
  <1>2. ASSUME NEW R \in SUBSET S, NEW x \in S \ R, R \in T PROVE R \cup {x} \in T
    <2>1. IsFiniteSet(R)
      BY FS_Subset
    <2>2. SumOver(f, R \cup {x}) = f[x] + SumOver(f, R)
      <3>1. \A y \in R \cup {x} : f[y] \in Int
        OBVIOUS
      <3>. QED
        BY <2>1, <3>1, SumTakesIn
    <2>3. SumOver(f, R) \in Nat /\ f[x] \in Nat
      BY <1>2
    <2>4. SumOver(f, R \cup {x}) = 0 <=> f[x] = 0 /\ SumOver(f, R) = 0
      BY <2>2, <2>3
    <2>5. SumOver(f, R \cup {x}) \in Nat
      BY <2>2, <2>3
    <2>. QED
      BY <1>2, <2>4, <2>5
  <1>. HIDE DEF T
  <1>3. S \in T
    BY <1>1, <1>2, InductionOnFinite
  <1>. QED
    BY <1>3 DEF T

(* Values that are zero need not be added.                                 *)
LEMMA SumOfRest ==
  ASSUME NEW S, IsFiniteSet(S), NEW R \in SUBSET S, NEW f, \A x \in S : f[x] \in Int,
         \A x \in S \ R : f[x] = 0
  PROVE  SumOver(f, S) = SumOver(f, R)
  <1>. DEFINE T == {Q \in SUBSET (S \ R) : SumOver(f, R \cup Q) = SumOver(f, R)}
  <1>1. {} \in T
    <2>1. R \cup {} = R
      OBVIOUS
    <2>. QED
      BY <2>1
  <1>2. ASSUME NEW Q \in SUBSET (S \ R), NEW x \in (S \ R) \ Q, Q \in T PROVE Q \cup {x} \in T
    <2>1. IsFiniteSet(R \cup Q) /\ R \cup (Q \cup {x}) = (R \cup Q) \cup {x}
      BY FS_Subset
    <2>2. /\ SumOver(f, (R \cup Q) \cup {x}) = f[x] + SumOver(f, R \cup Q)
          /\ SumOver(f, R \cup Q) \in Int
      <3>1. /\ x \notin R \cup Q
            /\ \A y \in (R \cup Q) \cup {x} : f[y] \in Int
        OBVIOUS
      <3>. QED
        BY <2>1, <3>1, SumTakesIn
    <2>3. SumOver(f, R \cup (Q \cup {x})) = SumOver(f, R)
      <3>1. SumOver(f, R \cup Q) = SumOver(f, R) /\ f[x] = 0
        BY <1>2
      <3>2. SumOver(f, R \cup (Q \cup {x})) = SumOver(f, (R \cup Q) \cup {x})
        BY <2>1
      <3>. QED
        BY <2>2, <3>1, <3>2
    <2>. QED
      BY <2>3
  <1>3. IsFiniteSet(S \ R)
    BY FS_Subset
  <1>. HIDE DEF T
  <1>4. S \ R \in T
    BY <1>1, <1>2, <1>3, InductionOnFinite
  <1>5. R \cup (S \ R) = S
    OBVIOUS
  <1>. QED
    BY <1>4, <1>5 DEF T

-----------------------------------------------------------------------------
(* Finite sets in order.                                                   *)

(* R is a strict total order on S, given by its pairs.                     *)
StrictlyOrders(R, S) ==
  /\ \A x \in S : <<x, x>> \notin R
  /\ \A x, y, z \in S : <<x, y>> \in R /\ <<y, z>> \in R => <<x, z>> \in R
  /\ \A x, y \in S : x # y => <<x, y>> \in R \/ <<y, x>> \in R

(* How many members come before x.                                         *)
Below(R, S, x) == {y \in S : <<y, x>> \in R}
Rank(R, S, x) == Cardinality(Below(R, S, x))

LEMMA RanksAreOrdered ==
  ASSUME NEW S, IsFiniteSet(S), NEW R, StrictlyOrders(R, S)
  PROVE  /\ \A x \in S : Rank(R, S, x) \in 0..(Cardinality(S) - 1)
         /\ \A x, y \in S : <<x, y>> \in R <=> Rank(R, S, x) < Rank(R, S, y)
  <1>1. \A x \in S : Below(R, S, x) \in SUBSET S /\ IsFiniteSet(Below(R, S, x))
                     /\ Rank(R, S, x) \in Nat
    BY FS_Subset, FS_CardinalityType DEF Below, Rank
  <1>2. ASSUME NEW x \in S PROVE Rank(R, S, x) < Cardinality(S)
    <2>1. x \notin Below(R, S, x)
      BY DEF Below, StrictlyOrders
    <2>2. Below(R, S, x) \in SUBSET S
      BY <1>1
    <2>3. Cardinality(Below(R, S, x)) <= Cardinality(S) /\ Cardinality(Below(R, S, x)) # Cardinality(S)
      BY <2>1, <2>2, FS_Subset
    <2>. QED
      BY <1>1, <2>3, FS_CardinalityType DEF Rank
  <1>3. ASSUME NEW x \in S, NEW y \in S, <<x, y>> \in R PROVE Rank(R, S, x) < Rank(R, S, y)
    <2>. DEFINE A == Below(R, S, x)
                B == Below(R, S, y)
    <2>1. A \in SUBSET B /\ x \in B /\ x \notin A
      BY <1>3 DEF Below, StrictlyOrders
    <2>2. IsFiniteSet(B)
      BY <1>1
    <2>3. Cardinality(A) <= Cardinality(B) /\ Cardinality(A) # Cardinality(B)
      <3>. HIDE DEF A, B
      <3>. QED
        BY <2>1, <2>2, FS_Subset
    <2>4. Cardinality(A) \in Nat /\ Cardinality(B) \in Nat
      BY <1>1 DEF Rank
    <2>. QED
      BY <2>3, <2>4 DEF Rank
  <1>4. ASSUME NEW x \in S, NEW y \in S, Rank(R, S, x) < Rank(R, S, y) PROVE <<x, y>> \in R
    <2>1. x # y
      BY <1>1, <1>4
    <2>2. <<y, x>> \notin R
      BY <1>1, <1>3, <1>4
    <2>. QED
      BY <2>1, <2>2 DEF StrictlyOrders
  <1>. QED
    BY <1>1, <1>2, <1>3, <1>4, FS_CardinalityType

LEMMA EveryRankIsTaken ==
  ASSUME NEW S, IsFiniteSet(S), NEW R, StrictlyOrders(R, S)
  PROVE  \A n \in 1..Cardinality(S) : \E x \in S : Rank(R, S, x) = n - 1
  <1>. DEFINE ranks == 0..(Cardinality(S) - 1)
              rank == [x \in S |-> Rank(R, S, x)]
  <1>1. Cardinality(S) \in Nat
    BY FS_CardinalityType
  <1>2. IsFiniteSet(ranks) /\ Cardinality(ranks) = Cardinality(S)
    BY <1>1, FS_Interval
  <1>3. \A x, y \in S : x # y => Rank(R, S, x) # Rank(R, S, y)
    <2>1. \A x, y \in S : x # y => Rank(R, S, x) < Rank(R, S, y) \/ Rank(R, S, y) < Rank(R, S, x)
      BY RanksAreOrdered DEF StrictlyOrders
    <2>2. \A x \in S : Rank(R, S, x) \in Int
      BY RanksAreOrdered
    <2>. QED
      BY <2>1, <2>2
  <1>4. rank \in Injection(S, ranks)
    <2>1. rank \in [S -> ranks]
      BY RanksAreOrdered
    <2>2. \A x, y \in S : rank[x] = rank[y] => x = y
      BY <1>3
    <2>. HIDE DEF rank, ranks
    <2>. QED
      BY <2>1, <2>2 DEF Injection, IsInjective
  <1>5. rank \in Surjection(S, ranks)
    <2>. HIDE DEF rank, ranks
    <2>. QED
      BY <1>2, <1>4, FS_Injection
  <1>. SUFFICES ASSUME NEW n \in 1..Cardinality(S) PROVE \E x \in S : Rank(R, S, x) = n - 1
    OBVIOUS
  <1>6. n - 1 \in ranks
    BY <1>1
  <1>7. PICK x \in S : rank[x] = n - 1
    <2>. HIDE DEF rank, ranks
    <2>. QED
      BY <1>5, <1>6 DEF Surjection
  <1>. QED
    BY <1>7

(* A list whose n-th element has rank n - 1 lists the set, in order and    *)
(* without repetition.                                                     *)
Ranked(list, R, S) ==
  /\ list \in [1..Cardinality(S) -> S]
  /\ \A n \in 1..Cardinality(S) : Rank(R, S, list[n]) = n - 1

LEMMA ListsInOrder ==
  ASSUME NEW S, IsFiniteSet(S), NEW R, StrictlyOrders(R, S), NEW list, Ranked(list, R, S)
  PROVE  /\ \A m, n \in 1..Cardinality(S) : m < n <=> <<list[m], list[n]>> \in R
         /\ \A x \in S : \E n \in 1..Cardinality(S) : list[n] = x
  <1>. /\ list \in [1..Cardinality(S) -> S]
       /\ \A n \in 1..Cardinality(S) : Rank(R, S, list[n]) = n - 1
    BY DEF Ranked
  <1>1. Cardinality(S) \in Nat
    BY FS_CardinalityType
  <1>2. \A m, n \in 1..Cardinality(S) : m < n <=> <<list[m], list[n]>> \in R
    <2>. SUFFICES ASSUME NEW m \in 1..Cardinality(S), NEW n \in 1..Cardinality(S)
                  PROVE  m < n <=> <<list[m], list[n]>> \in R
      OBVIOUS
    <2>1. /\ list[m] \in S /\ list[n] \in S
          /\ Rank(R, S, list[m]) = m - 1 /\ Rank(R, S, list[n]) = n - 1
      OBVIOUS
    <2>2. <<list[m], list[n]>> \in R <=> m - 1 < n - 1
      BY <2>1, RanksAreOrdered
    <2>. QED
      BY <1>1, <2>2
  <1>3. ASSUME NEW x \in S PROVE \E n \in 1..Cardinality(S) : list[n] = x
    <2>. DEFINE n == Rank(R, S, x) + 1
    <2>1. n \in 1..Cardinality(S) /\ Rank(R, S, x) = n - 1 /\ Rank(R, S, x) \in Int
      BY <1>1, RanksAreOrdered
    <2>. HIDE DEF n
    <2>2. list[n] \in S /\ Rank(R, S, list[n]) = Rank(R, S, x)
      BY <2>1
    <2>3. <<list[n], x>> \notin R /\ <<x, list[n]>> \notin R
      BY <2>1, <2>2, RanksAreOrdered
    <2>4. list[n] = x
      BY <2>2, <2>3 DEF StrictlyOrders
    <2>. QED
      BY <2>1, <2>4
  <1>. QED
    BY <1>2, <1>3

-----------------------------------------------------------------------------
(* Powers of two, by the subsets they count.                               *)
LEMMA PowerDoubles == \A n \in Nat : 2 ^ n \in Nat /\ 2 ^ (n + 1) = 2 * 2 ^ n
  <1>. SUFFICES ASSUME NEW n \in Nat PROVE 2 ^ n \in Nat /\ 2 ^ (n + 1) = 2 * 2 ^ n
    OBVIOUS
  <1>. DEFINE S == 1..n
              new == n + 1
              more == 1..(n + 1)
              without == SUBSET S
              with == {T \in SUBSET more : new \in T}
              adds == [T \in without |-> T \cup {new}]
  <1>1. IsFiniteSet(S) /\ Cardinality(S) = n /\ IsFiniteSet(more) /\ Cardinality(more) = n + 1
    BY FS_Interval
  <1>2. /\ IsFiniteSet(without) /\ Cardinality(without) = 2 ^ n
        /\ IsFiniteSet(SUBSET more) /\ Cardinality(SUBSET more) = 2 ^ (n + 1)
    <2>. HIDE DEF S, more
    <2>. QED
      BY <1>1, FS_SUBSET
  <1>3. /\ new \notin S /\ new \in more /\ S \subseteq more
        /\ \A y \in more : y = new \/ y \in S
    OBVIOUS
  <1>. HIDE DEF S, more, new
  <1>4. adds \in Bijection(without, with)
    <2>1. adds \in [without -> with]
      BY <1>3
    <2>2. \A T, U \in without : adds[T] = adds[U] => T = U
      <3>. SUFFICES ASSUME NEW T \in without, NEW U \in without, adds[T] = adds[U]
                    PROVE  T = U
        OBVIOUS
      <3>1. T \cup {new} = U \cup {new} /\ new \notin T /\ new \notin U
        BY <1>3
      <3>. QED
        BY <3>1
    <2>3. \A T \in with : \E U \in without : adds[U] = T
      <3>. SUFFICES ASSUME NEW T \in with PROVE \E U \in without : adds[U] = T
        OBVIOUS
      <3>1. T \ {new} \in without
        BY <1>3
      <3>2. (T \ {new}) \cup {new} = T
        OBVIOUS
      <3>3. adds[T \ {new}] = T
        BY <3>1, <3>2
      <3>. QED
        BY <3>1, <3>3
    <2>. HIDE DEF adds, with, without
    <2>. QED
      BY <2>1, <2>2, <2>3 DEF Bijection, Injection, Surjection, IsInjective
  <1>5. IsFiniteSet(with) /\ Cardinality(with) = 2 ^ n
    <2>1. ExistsBijection(without, with)
      BY <1>4 DEF ExistsBijection
    <2>. HIDE DEF with, without
    <2>. QED
      BY <1>2, <2>1, FS_Bijection
  <1>6. SUBSET more = without \cup with /\ without \cap with = {}
    BY <1>3
  <1>7. Cardinality(without \cup with)
          = Cardinality(without) + Cardinality(with) - Cardinality(without \cap with)
    <2>. HIDE DEF with, without
    <2>. QED
      BY <1>2, <1>5, FS_Union
  <1>8. Cardinality(without \cap with) = 0 /\ Cardinality(without) \in Nat
    <2>. HIDE DEF with, without
    <2>. QED
      BY <1>2, <1>6, FS_EmptySet, FS_CardinalityType
  <1>. DEFINE small == 2 ^ n
              large == 2 ^ (n + 1)
  <1>. HIDE DEF with, without
  <1>9. /\ Cardinality(without) = small /\ Cardinality(with) = small
        /\ Cardinality(SUBSET more) = large
    BY <1>2, <1>5
  <1>. HIDE DEF small, large
  <1>10. Cardinality(without \cup with) = large
    BY <1>6, <1>9, Zenon
  <1>11. large = small + small - Cardinality(without \cap with)
    BY <1>7, <1>9, <1>10, Zenon
  <1>12. small \in Nat
    BY <1>8, <1>9, Zenon
  <1>13. large = 2 * small
    BY <1>8, <1>11, <1>12
  <1>. QED
    BY <1>12, <1>13, Zenon DEF small, large

-----------------------------------------------------------------------------
(* Sequences: an element appended to the second of two joined ones.        *)

LEMMA AppendToJoined ==
  ASSUME NEW S, NEW s \in Seq(S), NEW t \in Seq(S), NEW x \in S
  PROVE  s \o Append(t, x) = Append(s \o t, x) /\ s \o t \in Seq(S) /\ Append(t, x) \in Seq(S)
  <1>1. s \o t \in Seq(S)
    BY ConcatProperties
  <1>2. Append(t, x) \in Seq(S) /\ Append(s \o t, x) \in Seq(S) /\ s \o Append(t, x) \in Seq(S)
    BY <1>1, ConcatProperties, AppendProperties
  <1>3. Len(s \o Append(t, x)) = Len(Append(s \o t, x))
    BY <1>1
  <1>4. ASSUME NEW n \in 1..Len(s \o Append(t, x))
        PROVE  (s \o Append(t, x))[n] = Append(s \o t, x)[n]
    BY <1>1
  <1>. QED
    BY <1>1, <1>2, <1>3, <1>4, SeqEqual

-----------------------------------------------------------------------------
(* FlattenSeq: what has been joined up to the k-th sequence.               *)

Joins(f, ss, n) == f[0] = <<>> /\ \A k \in 1..n : f[k] = f[k - 1] \o ss[k]

LEMMA FlattenJoins ==
  ASSUME NEW T, NEW n \in Nat, NEW ss \in [1..n -> Seq(T)]
  PROVE  \E f \in [0..n -> Seq(T)] : Joins(f, ss, n) /\ FlattenSeq(ss) = f[n]
  <1>. DEFINE step == [k \in 1..n |-> [s \in Seq(T) |-> s \o ss[k]]]
              none == <<>>
              Flattens(g) == g = [i \in 1..n |-> IF i = 1 THEN ss[i] ELSE g[i - 1] \o ss[i]]
              flatten == CHOOSE g : Flattens(g)
  <1>1. ss \in Seq(Seq(T)) /\ Len(ss) = n
    <2>1. ss \in Seq(Seq(T))
      BY SeqDef
    <2>2. Len(ss) \in Nat /\ 1..n = 1..Len(ss)
      BY <2>1, LenProperties
    <2>. QED
      BY <2>1, <2>2
  <1>2. none \in Seq(T) /\ step \in [1..n -> [Seq(T) -> Seq(T)]]
    BY ConcatProperties
  <1>3. PICK f \in [0..n -> Seq(T)] :
          f[0] = none /\ \A k \in 1..n : f[k] = step[k][f[k - 1]]
    <2>. HIDE DEF step, none
    <2>1. \E f \in [0..n -> Seq(T)] : Iterates(f, none, step, n)
      BY <1>2, RecursionExists
    <2>. QED
      BY <2>1 DEF Iterates
  <1>4. Joins(f, ss, n)
    <2>1. \A k \in 1..n : f[k - 1] \in Seq(T)
      BY <1>3
    <2>. QED
      BY <1>3, <2>1 DEF Joins
  <1>5. CASE n = 0
    <2>1. FlattenSeq(ss) = ss
      BY <1>1, <1>5 DEF FlattenSeq
    <2>2. ss = <<>>
      BY <1>1, <1>5, EmptySeq
    <2>. QED
      BY <1>3, <1>4, <1>5, <2>1, <2>2 DEF Joins
  <1>6. CASE n # 0
    <2>. DEFINE g == [i \in 1..n |-> f[i]]
    <2>1. Flattens(g)
      <3>1. ASSUME NEW i \in 1..n
            PROVE  f[i] = IF i = 1 THEN ss[i] ELSE g[i - 1] \o ss[i]
        <4>1. CASE i = 1
          <5>1. f[i] = f[i - 1] \o ss[i] /\ ss[i] \in Seq(T)
            <6>1. f[i] = f[i - 1] \o ss[i]
              BY <1>4, Zenon DEF Joins
            <6>2. ss[i] \in Seq(T)
              OBVIOUS
            <6>. QED
              BY <6>1, <6>2
          <5>2. f[i - 1] = <<>>
            BY <1>3, <4>1
          <5>. QED
            BY <4>1, <5>1, <5>2, ConcatEmptySeq
        <4>2. CASE i # 1
          <5>1. i - 1 \in 1..n
            BY <4>2
          <5>2. f[i] = f[i - 1] \o ss[i]
            BY <1>4 DEF Joins
          <5>. QED
            BY <4>2, <5>1, <5>2
        <4>. QED
          BY <4>1, <4>2
      <3>. QED
        BY <3>1
    <2>. HIDE DEF g
    <2>2. Flattens(flatten)
      BY <2>1, Zenon
    <2>3. FlattenSeq(ss) = flatten[n]
      BY <1>1, <1>6, Zenon DEF FlattenSeq
    <2>. HIDE DEF flatten
    <2>4. \A i \in 1..n : flatten[i] = IF i = 1 THEN ss[i] ELSE flatten[i - 1] \o ss[i]
      BY <2>2
    <2>. DEFINE e == [k \in 0..n |-> IF k = 0 THEN f[0] ELSE flatten[k]]
    <2>5. \A k \in 0..n : f[k] = e[k]
      <3>1. f[0] = e[0]
        OBVIOUS
      <3>2. ASSUME NEW k \in 1..n, f[k - 1] = e[k - 1] PROVE f[k] = e[k]
        <4>1. e[k] = flatten[k] /\ f[k] = f[k - 1] \o ss[k] /\ ss[k] \in Seq(T)
          <5>1. f[k] = f[k - 1] \o ss[k] /\ ss[k] \in Seq(T)
            <6>1. f[k] = f[k - 1] \o ss[k]
              BY <1>4, Zenon DEF Joins
            <6>2. ss[k] \in Seq(T)
              OBVIOUS
            <6>. QED
              BY <6>1, <6>2
          <5>2. e[k] = flatten[k]
            OBVIOUS
          <5>. QED
            BY <5>1, <5>2
        <4>2. CASE k = 1
          <5>1. f[k - 1] = <<>>
            BY <1>3, <4>2
          <5>2. flatten[k] = ss[k]
            BY <2>4, <4>2
          <5>. QED
            BY <4>1, <5>1, <5>2, ConcatEmptySeq
        <4>3. CASE k # 1
          <5>1. k - 1 \in 1..n /\ e[k - 1] = flatten[k - 1]
            BY <4>3
          <5>2. flatten[k] = flatten[k - 1] \o ss[k]
            BY <2>4, <4>3
          <5>. QED
            BY <3>2, <4>1, <5>1, <5>2
        <4>. QED
          BY <4>2, <4>3
      <3>. HIDE DEF e
      <3>. DEFINE same == {k \in 0..n : f[k] = e[k]}
      <3>3. 0 \in same /\ \A k \in 1..n : k - 1 \in same => k \in same
        BY <3>1, <3>2
      <3>. HIDE DEF same
      <3>4. 0..n \subseteq same
        BY <3>3, InductionUpTo
      <3>. QED
        BY <3>4 DEF same
    <2>6. flatten[n] = f[n]
      BY <1>6, <2>5
    <2>. QED
      BY <1>3, <1>4, <2>3, <2>6
  <1>. QED
    BY <1>5, <1>6

(* It holds what the sequences hold.                                       *)
Sequences(ss, n, T) == n \in Nat /\ ss \in [1..n -> Seq(T)]

HoldsAll(list, ss, n) ==
  /\ \A i \in DOMAIN list : \E k \in 1..n : \E j \in DOMAIN ss[k] : list[i] = ss[k][j]
  /\ \A k \in 1..n : \A j \in DOMAIN ss[k] : \E i \in DOMAIN list : list[i] = ss[k][j]

LEMMA FlattenHolds ==
  ASSUME NEW T, NEW n, NEW ss, Sequences(ss, n, T)
  PROVE  FlattenSeq(ss) \in Seq(T) /\ HoldsAll(FlattenSeq(ss), ss, n)
  <1>. n \in Nat /\ ss \in [1..n -> Seq(T)]
    BY DEF Sequences
  <1>1. PICK f \in [0..n -> Seq(T)] : Joins(f, ss, n) /\ FlattenSeq(ss) = f[n]
    BY FlattenJoins
  <1>. DEFINE Holds(m) ==
                /\ \A i \in DOMAIN f[m] : \E k \in 1..m : \E j \in DOMAIN ss[k] : f[m][i] = ss[k][j]
                /\ \A k \in 1..m : \A j \in DOMAIN ss[k] : \E i \in DOMAIN f[m] : f[m][i] = ss[k][j]
              M == {m \in 0..n : Holds(m)}
  <1>2. 0 \in M
    BY <1>1 DEF Joins
  <1>3. ASSUME NEW m \in 1..n, m - 1 \in M PROVE m \in M
    <2>. DEFINE old == f[m - 1]
                new == ss[m]
    <2>1. old \in Seq(T) /\ new \in Seq(T) /\ f[m] = old \o new
      <3>1. f[m] = f[m - 1] \o ss[m]
        BY <1>1, Zenon DEF Joins
      <3>2. m - 1 \in 0..n /\ ss[m] \in Seq(T)
        OBVIOUS
      <3>3. f[m - 1] \in Seq(T)
        BY <3>2
      <3>. QED
        BY <3>1, <3>2, <3>3
    <2>2. /\ Len(old) \in Nat /\ Len(new) \in Nat
          /\ DOMAIN old = 1..Len(old) /\ DOMAIN new = 1..Len(new)
          /\ DOMAIN (old \o new) = 1..(Len(old) + Len(new))
          /\ \A i \in 1..(Len(old) + Len(new)) :
               (old \o new)[i] = IF i <= Len(old) THEN old[i] ELSE new[i - Len(old)]
      BY <2>1, LenProperties, ConcatProperties
    <2>3. ASSUME NEW i \in DOMAIN f[m]
          PROVE  \E k \in 1..m : \E j \in DOMAIN ss[k] : f[m][i] = ss[k][j]
      <3>1. CASE i <= Len(old)
        <4>1. i \in DOMAIN old /\ f[m][i] = old[i]
          BY <2>1, <2>2, <2>3, <3>1
        <4>2. PICK k \in 1..(m - 1) : \E j \in DOMAIN ss[k] : old[i] = ss[k][j]
          BY <1>3, <4>1
        <4>3. k \in 1..m
          OBVIOUS
        <4>. QED
          BY <4>1, <4>2, <4>3
      <3>2. CASE ~(i <= Len(old))
        <4>1. i - Len(old) \in DOMAIN new /\ f[m][i] = new[i - Len(old)]
          BY <2>1, <2>2, <2>3, <3>2
        <4>2. m \in 1..m
          OBVIOUS
        <4>. QED
          BY <4>1, <4>2
      <3>. QED
        BY <3>1, <3>2
    <2>4. ASSUME NEW k \in 1..m, NEW j \in DOMAIN ss[k]
          PROVE  \E i \in DOMAIN f[m] : f[m][i] = ss[k][j]
      <3>1. CASE k = m
        <4>1. j + Len(old) \in DOMAIN (old \o new) /\ (old \o new)[j + Len(old)] = new[j]
          BY <2>2, <2>4, <3>1
        <4>. QED
          BY <2>1, <3>1, <4>1
      <3>2. CASE k # m
        <4>1. k \in 1..(m - 1)
          BY <3>2
        <4>2. PICK i \in DOMAIN old : old[i] = ss[k][j]
          BY <1>3, <2>4, <4>1
        <4>3. i \in DOMAIN (old \o new) /\ (old \o new)[i] = old[i]
          BY <2>2
        <4>. QED
          BY <2>1, <4>2, <4>3
      <3>. QED
        BY <3>1, <3>2
    <2>. QED
      BY <2>3, <2>4
  <1>. HIDE DEF M
  <1>4. 0..n \subseteq M
    BY <1>2, <1>3, InductionUpTo
  <1>5. n \in M
    BY <1>4
  <1>. QED
    BY <1>1, <1>5 DEF M, HoldsAll

AllPairs(ss, n) == \A k \in 1..n : Len(ss[k]) = 2

(* The two of the k-th pair come at 2k-1 and 2k.                           *)
PairsInOrder(list, ss, n) ==
  \A k \in 1..n : list[2 * k - 1] = ss[k][1] /\ list[2 * k] = ss[k][2]

LEMMA FlattenPairs ==
  ASSUME NEW T, NEW n, NEW ss, Sequences(ss, n, T), AllPairs(ss, n)
  PROVE  /\ FlattenSeq(ss) \in Seq(T) /\ Len(FlattenSeq(ss)) = 2 * n
         /\ PairsInOrder(FlattenSeq(ss), ss, n)
  <1>. n \in Nat /\ ss \in [1..n -> Seq(T)]
    BY DEF Sequences
  <1>1. PICK f \in [0..n -> Seq(T)] : Joins(f, ss, n) /\ FlattenSeq(ss) = f[n]
    BY FlattenJoins
  <1>. DEFINE M == {m \in 0..n : Len(f[m]) = 2 * m /\ PairsInOrder(f[m], ss, m)}
  <1>2. 0 \in M
    BY <1>1 DEF Joins, PairsInOrder
  <1>3. ASSUME NEW m \in 1..n, m - 1 \in M PROVE m \in M
    <2>. DEFINE old == f[m - 1]
                new == ss[m]
                size == 2 * (m - 1)
    <2>1. old \in Seq(T) /\ new \in Seq(T) /\ f[m] = old \o new
      <3>1. f[m] = f[m - 1] \o ss[m]
        BY <1>1, Zenon DEF Joins
      <3>2. m - 1 \in 0..n /\ ss[m] \in Seq(T)
        OBVIOUS
      <3>3. f[m - 1] \in Seq(T)
        BY <3>2
      <3>. QED
        BY <3>1, <3>2, <3>3
    <2>2. Len(old) = size /\ PairsInOrder(old, ss, m - 1) /\ Len(new) = 2 /\ size \in Nat
      BY <1>3 DEF AllPairs
    <2>3. /\ Len(old \o new) = size + 2
          /\ \A i \in 1..(size + 2) : (old \o new)[i] = IF i <= size THEN old[i] ELSE new[i - size]
      <3>1. /\ Len(old \o new) = Len(old) + Len(new)
            /\ \A i \in 1..(Len(old) + Len(new)) :
                 (old \o new)[i] = IF i <= Len(old) THEN old[i] ELSE new[i - Len(old)]
        BY <2>1, ConcatProperties
      <3>. HIDE DEF old, new, size
      <3>. QED
        BY <2>2, <3>1
    <2>4. size + 2 = 2 * m /\ size + 1 = 2 * m - 1
      OBVIOUS
    <2>. HIDE DEF old, new
    <2>5. ASSUME NEW k \in 1..m
          PROVE  (old \o new)[2 * k - 1] = ss[k][1] /\ (old \o new)[2 * k] = ss[k][2]
      <3>1. CASE k = m
        <4>1. (old \o new)[size + 1] = new[1] /\ (old \o new)[size + 2] = new[2]
          <5>. HIDE DEF size
          <5>1. size + 1 \in 1..(size + 2) /\ size + 2 \in 1..(size + 2)
                /\ ~(size + 1 <= size) /\ ~(size + 2 <= size)
                /\ (size + 1) - size = 1 /\ (size + 2) - size = 2
            BY <2>2
          <5>. QED
            BY <2>3, <5>1
        <4>. QED
          BY <2>4, <3>1, <4>1 DEF new
      <3>2. CASE k # m
        <4>1. /\ k \in 1..(m - 1)
              /\ 2 * k - 1 \in 1..(size + 2) /\ 2 * k - 1 <= size
              /\ 2 * k \in 1..(size + 2) /\ 2 * k <= size
          BY <3>2
        <4>2. old[2 * k - 1] = ss[k][1] /\ old[2 * k] = ss[k][2]
          BY <2>2, <4>1 DEF PairsInOrder
        <4>. HIDE DEF size
        <4>. QED
          BY <2>3, <4>1, <4>2
      <3>. QED
        BY <3>1, <3>2
    <2>6. m \in 0..n /\ Len(f[m]) = 2 * m
      BY <2>1, <2>3, <2>4
    <2>7. PairsInOrder(f[m], ss, m)
      BY <2>1, <2>5 DEF PairsInOrder
    <2>. QED
      BY <2>6, <2>7
  <1>. HIDE DEF M
  <1>4. 0..n \subseteq M
    BY <1>2, <1>3, InductionUpTo
  <1>5. n \in M
    BY <1>4
  <1>. QED
    BY <1>1, <1>5 DEF M

(* As many members as places, just when no two places hold the same.       *)
AllDiffer(list, size) == \A m, n \in 1..size : list[m] = list[n] => m = n

LEMMA MembersOfList ==
  ASSUME NEW T, NEW list \in Seq(T)
  PROVE  /\ ToSet(list) = {list[n] : n \in 1..Len(list)}
         /\ IsFiniteSet(ToSet(list)) /\ Cardinality(ToSet(list)) <= Len(list)
         /\ Cardinality(ToSet(list)) = Len(list) <=> AllDiffer(list, Len(list))
  <1>. DEFINE size == Len(list)
              S == 1..size
              R == ToSet(list)
              f == [n \in S |-> list[n]]
  <1>1. size \in Nat /\ DOMAIN list = 1..size
    BY LenProperties
  <1>2. R = {list[n] : n \in S}
    BY <1>1 DEF ToSet
  <1>3. IsFiniteSet(S) /\ Cardinality(S) = size
    <2>. HIDE DEF size
    <2>1. Cardinality(1..size) = IF 1 > size THEN 0 ELSE size - 1 + 1
      BY <1>1, FS_Interval
    <2>. QED
      BY <1>1, <2>1, FS_Interval
  <1>4. f \in [S -> R] /\ \A x \in R : \E n \in S : f[n] = x
    BY <1>2
  <1>5. (\A m, n \in S : f[m] = f[n] => m = n) <=> AllDiffer(list, size)
    BY DEF AllDiffer
  <1>. HIDE DEF f, R, S
  <1>6. f \in Surjection(S, R)
    BY <1>4 DEF Surjection
  <1>7. f \in Injection(S, R) <=> AllDiffer(list, size)
    BY <1>4, <1>5 DEF Injection, IsInjective
  <1>8. /\ IsFiniteSet(R) /\ Cardinality(R) <= Cardinality(S)
        /\ Cardinality(R) = Cardinality(S) <=> f \in Injection(S, R)
    BY <1>3, <1>6, FS_Surjection
  <1>9. /\ IsFiniteSet(R) /\ Cardinality(R) <= size
        /\ Cardinality(R) = size <=> AllDiffer(list, size)
    BY <1>3, <1>7, <1>8
  <1>. QED
    BY <1>2, <1>9 DEF R, S

-----------------------------------------------------------------------------
(* Sequences that list a set, each member once.                            *)

ListsOnce(list, S) ==
  /\ list \in Seq(S)
  /\ \A x \in S : \E n \in DOMAIN list : list[n] = x
  /\ \A m, n \in DOMAIN list : list[m] = list[n] => m = n

LEMMA NothingListed == ListsOnce(<<>>, {})
  BY DEF ListsOnce

LEMMA ListsJoin ==
  ASSUME NEW S, NEW T, S \cap T = {}, NEW s, NEW t, ListsOnce(s, S), ListsOnce(t, T)
  PROVE  ListsOnce(s \o t, S \cup T)
  <1>. DEFINE st == s \o t
  <1>1. s \in Seq(S \cup T) /\ t \in Seq(S \cup T)
    BY SeqMonotonic DEF ListsOnce
  <1>2. /\ Len(s) \in Nat /\ Len(t) \in Nat
        /\ DOMAIN s = 1..Len(s) /\ DOMAIN t = 1..Len(t)
    BY <1>1, LenProperties
  <1>3. /\ st \in Seq(S \cup T) /\ DOMAIN st = 1..(Len(s) + Len(t))
        /\ \A i \in 1..(Len(s) + Len(t)) :
             st[i] = IF i <= Len(s) THEN s[i] ELSE t[i - Len(s)]
    BY <1>1, <1>2, LenProperties, ConcatProperties
  <1>4. (\A i \in DOMAIN s : s[i] \in S) /\ (\A i \in DOMAIN t : t[i] \in T)
    BY <1>2, ElementOfSeq DEF ListsOnce
  <1>. HIDE DEF st
  <1>5. ASSUME NEW x \in S \cup T PROVE \E n \in DOMAIN st : st[n] = x
    <2>1. CASE x \in S
      <3>1. PICK n \in DOMAIN s : s[n] = x
        BY <2>1 DEF ListsOnce
      <3>2. n \in DOMAIN st /\ st[n] = s[n]
        BY <1>2, <1>3
      <3>. QED
        BY <3>1, <3>2
    <2>2. CASE x \in T
      <3>1. PICK n \in DOMAIN t : t[n] = x
        BY <2>2 DEF ListsOnce
      <3>2. n + Len(s) \in DOMAIN st /\ st[n + Len(s)] = t[n]
        BY <1>2, <1>3
      <3>. QED
        BY <3>1, <3>2
    <2>. QED
      BY <2>1, <2>2
  <1>6. ASSUME NEW m \in DOMAIN st, NEW n \in DOMAIN st, st[m] = st[n] PROVE m = n
    <2>1. CASE m <= Len(s) /\ n <= Len(s)
      <3>1. m \in DOMAIN s /\ n \in DOMAIN s /\ s[m] = s[n]
        BY <1>2, <1>3, <1>6, <2>1
      <3>. QED
        BY <3>1 DEF ListsOnce
    <2>2. CASE m > Len(s) /\ n > Len(s)
      <3>1. m - Len(s) \in DOMAIN t /\ n - Len(s) \in DOMAIN t
        BY <1>2, <1>3, <2>2
      <3>2. t[m - Len(s)] = t[n - Len(s)]
        BY <1>2, <1>3, <1>6, <2>2
      <3>3. m - Len(s) = n - Len(s)
        BY <3>1, <3>2 DEF ListsOnce
      <3>. QED
        BY <1>2, <1>3, <3>3
    <2>3. ASSUME NEW i \in DOMAIN st, NEW j \in DOMAIN st, i <= Len(s), j > Len(s)
          PROVE  st[i] # st[j]
      <3>1. i \in DOMAIN s /\ j - Len(s) \in DOMAIN t
        BY <1>2, <1>3, <2>3
      <3>2. st[i] = s[i] /\ st[j] = t[j - Len(s)]
        BY <1>2, <1>3, <2>3
      <3>. QED
        BY <1>4, <3>1, <3>2
    <2>4. m \in Nat /\ n \in Nat
      BY <1>2, <1>3
    <2>. QED
      BY <1>2, <1>6, <2>1, <2>2, <2>3, <2>4
  <1>. QED
    BY <1>3, <1>5, <1>6 DEF ListsOnce, st

(* The image of a list under a function that tells the members apart.      *)
LEMMA ListedImage ==
  ASSUME NEW S, NEW f, \A x, y \in S : f[x] = f[y] => x = y, NEW list, ListsOnce(list, S)
  PROVE  ListsOnce([n \in DOMAIN list |-> f[list[n]]], {f[x] : x \in S})
  <1>. DEFINE T == {f[x] : x \in S}
              image == [n \in DOMAIN list |-> f[list[n]]]
  <1>1. list \in Seq(S) /\ DOMAIN list = 1..Len(list) /\ Len(list) \in Nat
    BY LenProperties DEF ListsOnce
  <1>2. \A n \in DOMAIN list : list[n] \in S
    BY <1>1, ElementOfSeq
  <1>3. image \in [1..Len(list) -> T]
    BY <1>1, <1>2
  <1>4. image \in Seq(T)
    <2>. HIDE DEF T, image
    <2>. QED
      BY <1>1, <1>3, SeqDef
  <1>5. \A y \in T : \E n \in DOMAIN image : image[n] = y
    BY DEF ListsOnce
  <1>6. \A m, n \in DOMAIN image : image[m] = image[n] => m = n
    BY <1>2 DEF ListsOnce
  <1>. QED
    BY <1>4, <1>5, <1>6 DEF ListsOnce

(* Sequences that list sets apart from each other, joined, list them all.  *)
LEMMA FlattenLists ==
  ASSUME NEW T, NEW n, NEW ss, Sequences(ss, n, T), NEW parts,
         \A k \in 1..n : ListsOnce(ss[k], parts[k]),
         \A j, k \in 1..n : j # k => parts[j] \cap parts[k] = {}
  PROVE  ListsOnce(FlattenSeq(ss), UNION {parts[k] : k \in 1..n})
  <1>. n \in Nat /\ ss \in [1..n -> Seq(T)]
    BY DEF Sequences
  <1>1. PICK f \in [0..n -> Seq(T)] : Joins(f, ss, n) /\ FlattenSeq(ss) = f[n]
    BY FlattenJoins
  <1>. DEFINE Part(m) == UNION {parts[k] : k \in 1..m}
              M == {m \in 0..n : ListsOnce(f[m], Part(m))}
  <1>2. 0 \in M
    <2>1. f[0] = <<>>
      BY <1>1 DEF Joins
    <2>2. Part(0) = {}
      OBVIOUS
    <2>. HIDE DEF Part
    <2>. QED
      BY <2>1, <2>2, NothingListed
  <1>3. ASSUME NEW m \in 1..n, m - 1 \in M PROVE m \in M
    <2>1. f[m] = f[m - 1] \o ss[m]
      BY <1>1, Zenon DEF Joins
    <2>2. Part(m) = Part(m - 1) \cup parts[m]
      <3>1. 1..m = (1..(m - 1)) \cup {m}
        OBVIOUS
      <3>. QED
        BY <3>1
    <2>3. Part(m - 1) \cap parts[m] = {}
      <3>1. \A k \in 1..(m - 1) : k \in 1..n /\ k # m
        OBVIOUS
      <3>. QED
        BY <3>1
    <2>. HIDE DEF Part
    <2>4. ListsOnce(f[m - 1], Part(m - 1)) /\ ListsOnce(ss[m], parts[m])
      BY <1>3
    <2>5. ListsOnce(f[m - 1] \o ss[m], Part(m - 1) \cup parts[m])
      <3>. HIDE DEF M
      <3>. QED
        BY <2>3, <2>4, ListsJoin, Zenon
    <2>6. ListsOnce(f[m], Part(m))
      BY <2>1, <2>2, <2>5, Zenon
    <2>7. m \in 0..n
      OBVIOUS
    <2>. QED
      BY <2>6, <2>7
  <1>. HIDE DEF M
  <1>4. 0..n \subseteq M
    BY <1>2, <1>3, InductionUpTo
  <1>5. n \in M
    BY <1>4
  <1>. QED
    BY <1>1, <1>5 DEF M

-----------------------------------------------------------------------------
(* The members of a finite set, listed by their ranks.                     *)

Listed(S, R) == [n \in 1..Cardinality(S) |-> CHOOSE x \in S : Rank(R, S, x) = n - 1]

InRankOrder(list, R) ==
  \A m, n \in DOMAIN list : m < n <=> <<list[m], list[n]>> \in R

LEMMA ListedByRank ==
  ASSUME NEW S, IsFiniteSet(S), NEW R, StrictlyOrders(R, S)
  PROVE  /\ Listed(S, R) \in [1..Cardinality(S) -> S]
         /\ ListsOnce(Listed(S, R), S) /\ InRankOrder(Listed(S, R), R)
  <1>. DEFINE size == Cardinality(S)
              Nth(n) == CHOOSE x \in S : Rank(R, S, x) = n - 1
              list == Listed(S, R)
  <1>1. size \in Nat
    BY FS_CardinalityType
  <1>2. list = [n \in 1..size |-> Nth(n)]
    BY Zenon DEF Listed
  <1>3. \A n \in 1..size : \E x \in S : Rank(R, S, x) = n - 1
    BY EveryRankIsTaken
  <1>4. \A n \in 1..size : Nth(n) \in S /\ Rank(R, S, Nth(n)) = n - 1
    <2>. HIDE DEF size
    <2>. QED
      BY <1>3
  <1>. HIDE DEF Nth
  <1>5. list \in [1..size -> S] /\ \A n \in 1..size : Rank(R, S, list[n]) = n - 1
    BY <1>2, <1>4
  <1>. HIDE DEF list
  <1>6. /\ \A m, n \in 1..size : m < n <=> <<list[m], list[n]>> \in R
        /\ \A x \in S : \E n \in 1..size : list[n] = x
    <2>2. Ranked(list, R, S)
      BY <1>5 DEF Ranked
    <2>3. /\ \A m, n \in 1..Cardinality(S) : m < n <=> <<list[m], list[n]>> \in R
          /\ \A x \in S : \E n \in 1..Cardinality(S) : list[n] = x
      <3>. HIDE DEF size
      <3>. QED
        BY <2>2, ListsInOrder
    <2>. QED
      BY <2>3
  <1>7. \A m, n \in 1..size : list[m] = list[n] => m = n
    <2>. SUFFICES ASSUME NEW m \in 1..size, NEW n \in 1..size, list[m] = list[n]
                  PROVE  m = n
      OBVIOUS
    <2>1. m - 1 = n - 1
      BY <1>5
    <2>. QED
      BY <1>1, <2>1
  <1>8. list \in Seq(S) /\ DOMAIN list = 1..size
    <2>. HIDE DEF size
    <2>. QED
      BY <1>1, <1>5, SeqDef
  <1>. HIDE DEF size
  <1>. QED
    BY <1>5, <1>6, <1>7, <1>8 DEF ListsOnce, InRankOrder, list, size

(* A list of a set, rearranged by an order of its members.                 *)
OrderOfPlaces(list, R) == {p \in (DOMAIN list) \X (DOMAIN list) : <<list[p[1]], list[p[2]]>> \in R}

Arranged(list, R) ==
  [n \in DOMAIN list |->
     list[CHOOSE i \in DOMAIN list : Rank(OrderOfPlaces(list, R), DOMAIN list, i) = n - 1]]

LEMMA ArrangedByOrder ==
  ASSUME NEW S, NEW R, StrictlyOrders(R, S), NEW list, ListsOnce(list, S)
  PROVE  ListsOnce(Arranged(list, R), S) /\ InRankOrder(Arranged(list, R), R)
  <1>. DEFINE D == DOMAIN list
              Q == OrderOfPlaces(list, R)
              perm == Listed(D, Q)
              arranged == Arranged(list, R)
  <1>1. list \in Seq(S) /\ D = 1..Len(list) /\ Len(list) \in Nat
    BY LenProperties DEF ListsOnce
  <1>2. IsFiniteSet(D) /\ Cardinality(D) = Len(list)
    BY <1>1, FS_Interval
  <1>3. /\ \A i \in D : list[i] \in S
        /\ \A i, j \in D : <<i, j>> \in Q <=> <<list[i], list[j]>> \in R
        /\ \A i, j \in D : i # j => list[i] # list[j]
    BY <1>1, ElementOfSeq DEF ListsOnce, OrderOfPlaces
  <1>. HIDE DEF Q, D
  <1>4. StrictlyOrders(Q, D)
    BY <1>3 DEF StrictlyOrders
  <1>5. perm \in [1..Cardinality(D) -> D] /\ ListsOnce(perm, D) /\ InRankOrder(perm, Q)
    BY <1>2, <1>4, ListedByRank
  <1>6. D = 1..Cardinality(D)
    BY <1>1, <1>2
  <1>7. arranged = [n \in D |-> list[perm[n]]]
    <2>1. \A n \in D : perm[n] = CHOOSE i \in D : Rank(Q, D, i) = n - 1
      BY <1>6 DEF Listed
    <2>2. arranged = [n \in D |-> list[CHOOSE i \in D : Rank(Q, D, i) = n - 1]]
      BY Zenon DEF Arranged, Q, D
    <2>. HIDE DEF arranged, perm
    <2>. QED
      BY <2>1, <2>2
  <1>. HIDE DEF perm, arranged
  <1>8. \A n \in D : perm[n] \in D
    BY <1>5, <1>6
  <1>9. arranged \in [1..Len(list) -> S]
    BY <1>1, <1>3, <1>7, <1>8
  <1>10. arranged \in Seq(S)
    BY <1>1, <1>9, SeqDef
  <1>11. ASSUME NEW x \in S PROVE \E n \in DOMAIN arranged : arranged[n] = x
    <2>1. PICK i \in D : list[i] = x
      BY DEF ListsOnce, D
    <2>2. PICK n \in D : perm[n] = i
      <3>1. DOMAIN perm = D
        BY <1>5, <1>6
      <3>. QED
        BY <1>5, <3>1 DEF ListsOnce
    <2>. QED
      BY <1>7, <2>1, <2>2
  <1>12. ASSUME NEW m \in D, NEW n \in D
         PROVE  m < n <=> <<arranged[m], arranged[n]>> \in R
    <2>1. m < n <=> <<perm[m], perm[n]>> \in Q
      <3>1. DOMAIN perm = D
        BY <1>5, <1>6
      <3>. QED
        BY <1>5, <3>1 DEF InRankOrder
    <2>. QED
      BY <1>3, <1>7, <1>8, <2>1
  <1>13. \A m, n \in D : arranged[m] = arranged[n] => m = n
    <2>. SUFFICES ASSUME NEW m \in D, NEW n \in D, arranged[m] = arranged[n] PROVE m = n
      OBVIOUS
    <2>1. arranged[m] \in S /\ <<arranged[m], arranged[n]>> \notin R
          /\ <<arranged[n], arranged[m]>> \notin R
      BY <1>1, <1>9 DEF StrictlyOrders
    <2>2. ~(m < n) /\ ~(n < m)
      BY <1>12, <2>1
    <2>3. m \in Nat /\ n \in Nat
      BY <1>1
    <2>. QED
      BY <2>2, <2>3
  <1>14. DOMAIN arranged = D
    BY <1>7
  <1>. QED
    BY <1>10, <1>11, <1>12, <1>13, <1>14 DEF ListsOnce, InRankOrder, arranged

-----------------------------------------------------------------------------
(* Counting by parts.                                                      *)

LEMMA SameNumber ==
  ASSUME NEW S, IsFiniteSet(S), NEW T, NEW f, \A x \in S : f[x] \in T,
         \A x, y \in S : f[x] = f[y] => x = y, \A z \in T : \E x \in S : f[x] = z
  PROVE  IsFiniteSet(T) /\ Cardinality(T) = Cardinality(S)
  <1>. DEFINE g == [x \in S |-> f[x]]
  <1>1. g \in [S -> T] /\ \A x \in S : g[x] = f[x]
    OBVIOUS
  <1>. HIDE DEF g
  <1>2. g \in Bijection(S, T)
    BY <1>1 DEF Bijection, Injection, Surjection, IsInjective
  <1>. QED
    BY <1>2, FS_Bijection DEF ExistsBijection

LEMMA TwoParts ==
  ASSUME NEW X, IsFiniteSet(X), NEW Y, IsFiniteSet(Y), X \cap Y = {}
  PROVE  /\ IsFiniteSet(X \cup Y)
         /\ Cardinality(X \cup Y) = Cardinality(X) + Cardinality(Y)
         /\ Cardinality(X) \in Nat /\ Cardinality(Y) \in Nat
  BY FS_Union, FS_EmptySet, FS_CardinalityType

(* A sum over other names of the same values.                              *)
LEMMA SumRenamed ==
  ASSUME NEW S, IsFiniteSet(S), NEW name, \A x, y \in S : name[x] = name[y] => x = y,
         NEW f, NEW e, \A x \in S : e[x] \in Int /\ e[x] = f[name[x]]
  PROVE  SumOver(f, {name[x] : x \in S}) = SumOver(e, S)
  <1>. DEFINE Named(R) == {name[x] : x \in R}
              T == {R \in SUBSET S : IsFiniteSet(Named(R)) /\ SumOver(f, Named(R)) = SumOver(e, R)}
  <1>1. {} \in T
    <2>1. Named({}) = {}
      OBVIOUS
    <2>. QED
      BY <2>1, SumOverNone, FS_EmptySet
  <1>2. ASSUME NEW R \in SUBSET S, NEW x \in S \ R, R \in T PROVE R \cup {x} \in T
    <2>1. IsFiniteSet(R)
      BY FS_Subset
    <2>2. Named(R \cup {x}) = Named(R) \cup {name[x]} /\ name[x] \notin Named(R)
      OBVIOUS
    <2>3. IsFiniteSet(Named(R)) /\ SumOver(f, Named(R)) = SumOver(e, R)
      BY <1>2
    <2>4. \A y \in Named(R) \cup {name[x]} : f[y] \in Int
      OBVIOUS
    <2>. HIDE DEF Named
    <2>5. IsFiniteSet(Named(R) \cup {name[x]})
      BY <2>3, FS_AddElement
    <2>6. SumOver(f, Named(R) \cup {name[x]}) = f[name[x]] + SumOver(f, Named(R))
      BY <2>2, <2>3, <2>4, SumTakesIn
    <2>7. SumOver(e, R \cup {x}) = e[x] + SumOver(e, R)
      <3>1. \A y \in R \cup {x} : e[y] \in Int
        OBVIOUS
      <3>. QED
        BY <2>1, <3>1, SumTakesIn
    <2>8. SumOver(f, Named(R \cup {x})) = SumOver(e, R \cup {x})
      BY <2>2, <2>3, <2>6, <2>7
    <2>. QED
      BY <2>2, <2>5, <2>8
  <1>. HIDE DEF T
  <1>3. S \in T
    BY <1>1, <1>2, InductionOnFinite
  <1>. QED
    BY <1>3 DEF T

(* The members of disjoint sets.                                           *)
LEMMA CountByParts ==
  ASSUME NEW V, IsFiniteSet(V), NEW part, \A v \in V : IsFiniteSet(part[v]),
         \A v, w \in V : v # w => part[v] \cap part[w] = {},
         NEW size, \A v \in V : size[v] = Cardinality(part[v])
  PROVE  /\ IsFiniteSet(UNION {part[v] : v \in V})
         /\ Cardinality(UNION {part[v] : v \in V}) = SumOver(size, V)
  <1>. DEFINE All(R) == UNION {part[v] : v \in R}
              T == {R \in SUBSET V : IsFiniteSet(All(R)) /\ Cardinality(All(R)) = SumOver(size, R)}
  <1>1. {} \in T
    <2>1. All({}) = {}
      OBVIOUS
    <2>. QED
      BY <2>1, SumOverNone, FS_EmptySet
  <1>2. ASSUME NEW R \in SUBSET V, NEW x \in V \ R, R \in T PROVE R \cup {x} \in T
    <2>1. IsFiniteSet(R)
      BY FS_Subset
    <2>2. All(R \cup {x}) = All(R) \cup part[x] /\ All(R) \cap part[x] = {}
      OBVIOUS
    <2>3. IsFiniteSet(All(R)) /\ Cardinality(All(R)) = SumOver(size, R)
      BY <1>2
    <2>. HIDE DEF All
    <2>4. IsFiniteSet(part[x]) /\ size[x] = Cardinality(part[x])
      OBVIOUS
    <2>5. /\ IsFiniteSet(All(R) \cup part[x])
          /\ Cardinality(All(R) \cup part[x]) = Cardinality(All(R)) + Cardinality(part[x])
      BY <2>2, <2>3, <2>4, TwoParts
    <2>6. SumOver(size, R \cup {x}) = size[x] + SumOver(size, R) /\ SumOver(size, R) \in Int
      <3>1. \A y \in R \cup {x} : size[y] \in Int
        BY FS_CardinalityType
      <3>. QED
        BY <2>1, <3>1, SumTakesIn
    <2>7. size[x] \in Int
      <3>1. Cardinality(part[x]) \in Nat
        BY <2>4, FS_CardinalityType
      <3>. QED
        BY <2>4, <3>1
    <2>8. Cardinality(All(R \cup {x})) = SumOver(size, R \cup {x})
      <3>1. Cardinality(All(R \cup {x})) = SumOver(size, R) + size[x]
        BY <2>2, <2>3, <2>4, <2>5
      <3>. QED
        BY <2>6, <2>7, <3>1
    <2>. QED
      BY <2>2, <2>5, <2>8
  <1>. HIDE DEF T
  <1>3. V \in T
    BY <1>1, <1>2, InductionOnFinite
  <1>. QED
    BY <1>3 DEF T

(* The pairs of a set of numbers, the smaller one first.                   *)
PairsBelow(X) == {p \in X \X X : p[1] < p[2]}

LEMMA CountOfPairs ==
  ASSUME NEW X, IsFiniteSet(X), X \subseteq Int
  PROVE  /\ IsFiniteSet(PairsBelow(X))
         /\ Cardinality(PairsBelow(X)) = (Cardinality(X) * (Cardinality(X) - 1)) \div 2
  <1>. DEFINE T == {R \in SUBSET X : /\ IsFiniteSet(PairsBelow(R))
                                     /\ 2 * Cardinality(PairsBelow(R))
                                          = Cardinality(R) * (Cardinality(R) - 1)}
  <1>1. {} \in T
    <2>1. PairsBelow({}) = {}
      BY DEF PairsBelow
    <2>. QED
      BY <2>1, FS_EmptySet
  <1>2. ASSUME NEW R \in SUBSET X, NEW x \in X \ R, R \in T PROVE R \cup {x} \in T
    <2>. DEFINE to == [y \in R |-> IF y < x THEN <<y, x>> ELSE <<x, y>>]
                more == {to[y] : y \in R}
    <2>1. IsFiniteSet(R) /\ Cardinality(R) \in Nat /\ Cardinality(R \cup {x}) = Cardinality(R) + 1
      BY FS_Subset, FS_CardinalityType, FS_AddElement
    <2>2. \A y \in R : y # x /\ y \in Int /\ x \in Int
      OBVIOUS
    <2>3. PairsBelow(R \cup {x}) = PairsBelow(R) \cup more /\ PairsBelow(R) \cap more = {}
      <3>1. \A p \in more : p \in PairsBelow(R \cup {x}) /\ p \notin PairsBelow(R)
        BY <2>2 DEF PairsBelow
      <3>2. ASSUME NEW p \in PairsBelow(R \cup {x}), p \notin PairsBelow(R) PROVE p \in more
        <4>1. /\ p = <<p[1], p[2]>> /\ p[1] < p[2]
              /\ p[1] \in R \cup {x} /\ p[2] \in R \cup {x}
              /\ ~(p[1] \in R /\ p[2] \in R)
          BY <3>2 DEF PairsBelow
        <4>2. CASE p[1] = x
          <5>1. p[2] \in R /\ ~(p[2] < x)
            BY <2>2, <4>1, <4>2
          <5>. QED
            BY <4>1, <4>2, <5>1
        <4>3. CASE p[1] # x
          BY <4>1, <4>3
        <4>. QED
          BY <4>2, <4>3
      <3>3. PairsBelow(R) \subseteq PairsBelow(R \cup {x})
        BY DEF PairsBelow
      <3>. HIDE DEF more
      <3>. QED
        BY <3>1, <3>2, <3>3
    <2>4. IsFiniteSet(more) /\ Cardinality(more) = Cardinality(R)
      <3>1. \A y, z \in R : to[y] = to[z] => y = z
        BY <2>2
      <3>2. \A y \in R : to[y] \in more
        OBVIOUS
      <3>3. \A p \in more : \E y \in R : to[y] = p
        OBVIOUS
      <3>. HIDE DEF to, more
      <3>. QED
        BY <2>1, <3>1, <3>2, <3>3, SameNumber
    <2>5. /\ IsFiniteSet(PairsBelow(R))
          /\ 2 * Cardinality(PairsBelow(R)) = Cardinality(R) * (Cardinality(R) - 1)
      BY <1>2
    <2>. HIDE DEF more
    <2>6. /\ IsFiniteSet(PairsBelow(R \cup {x}))
          /\ Cardinality(PairsBelow(R \cup {x})) = Cardinality(PairsBelow(R)) + Cardinality(R)
          /\ Cardinality(PairsBelow(R)) \in Nat
      BY <2>3, <2>4, <2>5, TwoParts
    <2>7. 2 * Cardinality(PairsBelow(R \cup {x}))
            = Cardinality(R \cup {x}) * (Cardinality(R \cup {x}) - 1)
      <3>1. \A c, n \in Nat : 2 * n = c * (c - 1) => 2 * (n + c) = (c + 1) * ((c + 1) - 1)
        OBVIOUS
      <3>. QED
        BY <2>1, <2>5, <2>6, <3>1
    <2>. QED
      BY <2>6, <2>7
  <1>. HIDE DEF T
  <1>3. X \in T
    BY <1>1, <1>2, InductionOnFinite
  <1>4. /\ IsFiniteSet(PairsBelow(X))
        /\ 2 * Cardinality(PairsBelow(X)) = Cardinality(X) * (Cardinality(X) - 1)
    BY <1>3 DEF T
  <1>5. Cardinality(PairsBelow(X)) \in Nat
    BY <1>4, FS_CardinalityType
  <1>6. \A n \in Nat : (2 * n) \div 2 = n
    OBVIOUS
  <1>7. (Cardinality(X) * (Cardinality(X) - 1)) \div 2 = (2 * Cardinality(PairsBelow(X))) \div 2
    BY <1>4
  <1>. QED
    BY <1>4, <1>5, <1>6, <1>7

(* Numbers of one class, and the classes of more than one number.          *)
TwinsBelow(X, class) == {p \in X \X X : p[1] < p[2] /\ class[p[1]] = class[p[2]]}
ClassesOf(X, class) == {{n \in X : class[n] = class[m]} : m \in X}
ClassNames(X, class) == {class[n] : n \in X}
Shared(X, class) == {g \in ClassesOf(X, class) : Cardinality(g) > 1}

(* What each class of more than one number adds to two counters: its       *)
(* numbers but one, and its pairs.                                         *)
PerClass(X, class, others, pairs) ==
  \A g \in Shared(X, class) :
    /\ others[g] = Cardinality(g) - 1
    /\ pairs[g] = (Cardinality(g) * (Cardinality(g) - 1)) \div 2

FiniteInts(X) == IsFiniteSet(X) /\ X \subseteq Int

LEMMA CountByClass ==
  ASSUME NEW X, FiniteInts(X), NEW class, NEW others, NEW pairs,
         PerClass(X, class, others, pairs)
  PROVE  /\ IsFiniteSet(Shared(X, class)) /\ IsFiniteSet(TwinsBelow(X, class))
         /\ IsFiniteSet(ClassNames(X, class))
         /\ \A g \in Shared(X, class) : others[g] \in Int /\ pairs[g] \in Int
         /\ SumOver(others, Shared(X, class)) = Cardinality(X) - Cardinality(ClassNames(X, class))
         /\ SumOver(pairs, Shared(X, class)) = Cardinality(TwinsBelow(X, class))
         /\ Cardinality(Shared(X, class))
              = Cardinality({v \in ClassNames(X, class) : \E p \in TwinsBelow(X, class) : class[p[1]] = v})
  <1>. DEFINE V == {class[n] : n \in X}
              part == [v \in V |-> {n \in X : class[n] = v}]
              size == [v \in V |-> Cardinality(part[v])]
              ones == [v \in V |-> 1]
              extra == [v \in V |-> size[v] - 1]
              below == [v \in V |-> PairsBelow(part[v])]
              number == [v \in V |-> Cardinality(below[v])]
              R == {v \in V : size[v] > 1}
  <1>. /\ IsFiniteSet(X) /\ X \subseteq Int
       /\ \A g \in Shared(X, class) :
            /\ others[g] = Cardinality(g) - 1
            /\ pairs[g] = (Cardinality(g) * (Cardinality(g) - 1)) \div 2
    BY DEF FiniteInts, PerClass
  <1>1. IsFiniteSet(V)
    <2>. DEFINE g == [n \in X |-> class[n]]
    <2>1. g \in Surjection(X, V)
      BY DEF Surjection
    <2>. HIDE DEF g, V
    <2>. QED
      BY <2>1, FS_Surjection
  <1>2. \A v \in V : part[v] = {n \in X : class[n] = v} /\ part[v] \in SUBSET X /\ part[v] # {}
    OBVIOUS
  <1>3. \A v, w \in V : v # w => part[v] \cap part[w] = {} /\ part[v] # part[w]
    OBVIOUS
  <1>4. UNION {part[v] : v \in V} = X
    <2>1. \A n \in X : class[n] \in V /\ n \in part[class[n]]
      OBVIOUS
    <2>. HIDE DEF V, part
    <2>2. \A n \in X : n \in UNION {part[v] : v \in V}
      BY <2>1
    <2>3. UNION {part[v] : v \in V} \subseteq X
      BY <1>2
    <2>. QED
      BY <2>2, <2>3
  <1>5. ClassesOf(X, class) = {part[v] : v \in V}
    <2>. DEFINE Alike(m) == {n \in X : class[n] = class[m]}
    <2>1. \A m \in X : class[m] \in V /\ Alike(m) = part[class[m]]
      OBVIOUS
    <2>2. \A v \in V : \E m \in X : v = class[m]
      OBVIOUS
    <2>3. ClassesOf(X, class) = {Alike(m) : m \in X}
      BY DEF ClassesOf
    <2>. HIDE DEF V, part, Alike
    <2>. QED
      BY <2>1, <2>2, <2>3
  <1>6. \A v \in V : /\ size[v] = Cardinality(part[v]) /\ ones[v] = 1
                     /\ extra[v] = size[v] - 1
                     /\ below[v] = PairsBelow(part[v]) /\ number[v] = Cardinality(below[v])
    OBVIOUS
  <1>7. \A p \in X \X X : class[p[1]] \in V /\ class[p[2]] \in V
    OBVIOUS
  <1>. HIDE DEF V, part, size, ones, extra, below, number
  <1>8. \A v \in V : IsFiniteSet(part[v]) /\ size[v] \in Nat \ {0}
    BY <1>2, <1>6, FS_Subset, FS_CardinalityType, FS_EmptySet
  <1>9. \A v \in V : IsFiniteSet(below[v]) /\ number[v] = (size[v] * (size[v] - 1)) \div 2
    <2>. SUFFICES ASSUME NEW v \in V
                  PROVE IsFiniteSet(below[v]) /\ number[v] = (size[v] * (size[v] - 1)) \div 2
      OBVIOUS
    <2>1. IsFiniteSet(part[v]) /\ part[v] \subseteq Int
      BY <1>2, <1>8
    <2>. QED
      BY <1>6, <2>1, CountOfPairs
  <1>10. \A v \in V : number[v] \in Nat
    BY <1>6, <1>9, FS_CardinalityType
  <1>11. Cardinality(X) = SumOver(size, V)
    <2>1. Cardinality(UNION {part[v] : v \in V}) = SumOver(size, V)
      <3>1. \A v, w \in V : v # w => part[v] \cap part[w] = {}
        BY <1>3
      <3>2. \A v \in V : IsFiniteSet(part[v])
        BY <1>8
      <3>3. \A v \in V : size[v] = Cardinality(part[v])
        BY <1>6
      <3>. QED
        BY <1>1, <3>1, <3>2, <3>3, CountByParts
    <2>. QED
      BY <1>4, <2>1
  <1>12. Cardinality(V) = SumOver(ones, V)
    <2>. DEFINE own == [v \in V |-> {v}]
    <2>1. \A v \in V : own[v] = {v} /\ IsFiniteSet(own[v]) /\ ones[v] = Cardinality(own[v])
      BY <1>6, FS_Singleton
    <2>2. UNION {own[v] : v \in V} = V
      BY <2>1
    <2>3. \A v, w \in V : v # w => own[v] \cap own[w] = {}
      BY <2>1
    <2>. HIDE DEF own
    <2>. QED
      BY <1>1, <2>1, <2>2, <2>3, CountByParts
  <1>13. SumOver(size, V) = SumOver(ones, V) + SumOver(extra, V)
    <2>1. \A v \in V : ones[v] \in Int /\ extra[v] \in Int /\ size[v] = ones[v] + extra[v]
      BY <1>6, <1>8
    <2>. QED
      BY <1>1, <2>1, SumOfSums
  <1>14. R \in SUBSET V /\ IsFiniteSet(R)
    BY <1>1, FS_Subset
  <1>15. SumOver(extra, V) = SumOver(extra, R) /\ SumOver(extra, V) \in Int
    <2>1. \A v \in V : extra[v] \in Int
      BY <1>6, <1>8
    <2>2. \A v \in V \ R : extra[v] = 0
      BY <1>6, <1>8
    <2>3. SumOver(extra, V) \in Int
      BY <1>1, <2>1, SameSum
    <2>. HIDE DEF R
    <2>. QED
      BY <1>1, <1>14, <2>1, <2>2, <2>3, SumOfRest
  <1>16. Shared(X, class) = {part[v] : v \in R}
    BY <1>5, <1>6 DEF Shared
  <1>17. \A v \in R : part[v] \in Shared(X, class) /\ v \in V /\ size[v] = Cardinality(part[v])
    BY <1>6, <1>16
  <1>. HIDE DEF R
  <1>18. \A v, w \in R : part[v] = part[w] => v = w
    BY <1>3, <1>14
  <1>19. IsFiniteSet(Shared(X, class)) /\ Cardinality(Shared(X, class)) = Cardinality(R)
    <2>1. \A g \in Shared(X, class) : \E v \in R : part[v] = g
      BY <1>16
    <2>. QED
      <3>1. \A v \in R : part[v] \in Shared(X, class)
        BY <1>17
      <3>. QED
        BY <1>14, <1>18, <2>1, <3>1, SameNumber
  <1>20. SumOver(others, Shared(X, class)) = SumOver(extra, R)
    <2>1. \A v \in R : extra[v] \in Int /\ extra[v] = others[part[v]]
      BY <1>6, <1>8, <1>17
    <2>. QED
      BY <1>14, <1>16, <1>18, <2>1, SumRenamed
  <1>21. /\ IsFiniteSet(TwinsBelow(X, class))
         /\ Cardinality(TwinsBelow(X, class)) = SumOver(number, V)
    <2>1. UNION {below[v] : v \in V} = TwinsBelow(X, class)
      <3>1. ASSUME NEW p \in TwinsBelow(X, class) PROVE p \in below[class[p[1]]] /\ class[p[1]] \in V
        BY <1>2, <1>6, <1>7 DEF TwinsBelow, PairsBelow
      <3>2. ASSUME NEW v \in V, NEW p \in below[v] PROVE p \in TwinsBelow(X, class)
        BY <1>2, <1>6 DEF TwinsBelow, PairsBelow
      <3>. QED
        BY <3>1, <3>2
    <2>2. \A v, w \in V : v # w => below[v] \cap below[w] = {}
      BY <1>3, <1>6 DEF PairsBelow
    <2>. QED
      <3>1. \A v \in V : IsFiniteSet(below[v])
        BY <1>9
      <3>2. \A v \in V : number[v] = Cardinality(below[v])
        BY <1>6
      <3>3. /\ IsFiniteSet(UNION {below[v] : v \in V})
            /\ Cardinality(UNION {below[v] : v \in V}) = SumOver(number, V)
        BY <1>1, <2>2, <3>1, <3>2, CountByParts
      <3>. QED
        BY <2>1, <3>3
  <1>22. SumOver(number, V) = SumOver(number, R)
    <2>1. \A v \in V \ R : number[v] = 0
      <3>1. \A v \in V \ R : size[v] = 1
        BY <1>8 DEF R
      <3>2. (1 * (1 - 1)) \div 2 = 0
        OBVIOUS
      <3>. QED
        BY <1>9, <3>1, <3>2
    <2>2. \A v \in V : number[v] \in Int
      BY <1>10
    <2>. QED
      BY <1>1, <1>14, <2>1, <2>2, SumOfRest
  <1>23. SumOver(pairs, Shared(X, class)) = SumOver(number, R)
    <2>1. \A v \in R : number[v] \in Int /\ number[v] = pairs[part[v]]
      BY <1>9, <1>10, <1>17
    <2>. QED
      BY <1>14, <1>16, <1>18, <2>1, SumRenamed
  <1>24. R = {v \in V : \E p \in TwinsBelow(X, class) : class[p[1]] = v}
    <2>1. ASSUME NEW v \in R PROVE \E p \in TwinsBelow(X, class) : class[p[1]] = v
      <3>1. v \in V /\ Cardinality(part[v]) > 1
        BY <1>6 DEF R
      <3>2. PICK m \in part[v] : TRUE
        BY <1>2, <3>1
      <3>3. part[v] # {m}
        <4>. SUFFICES ASSUME part[v] = {m} PROVE Cardinality(part[v]) = 1
          BY <3>1
        <4>. QED
          BY FS_Singleton
      <3>4. PICK n \in part[v] : n # m
        BY <3>2, <3>3
      <3>5. /\ m \in X /\ n \in X /\ class[m] = v /\ class[n] = v
            /\ m \in Int /\ n \in Int
        BY <1>2, <3>1
      <3>6. CASE m < n
        <4>1. <<m, n>> \in TwinsBelow(X, class)
          BY <3>5, <3>6 DEF TwinsBelow
        <4>. QED
          BY <3>5, <4>1
      <3>7. CASE n < m
        <4>1. <<n, m>> \in TwinsBelow(X, class)
          BY <3>5, <3>7 DEF TwinsBelow
        <4>. QED
          BY <3>5, <4>1
      <3>. QED
        BY <3>4, <3>5, <3>6, <3>7
    <2>2. ASSUME NEW p \in TwinsBelow(X, class) PROVE class[p[1]] \in R
      <3>. DEFINE v == class[p[1]]
      <3>1. /\ v \in V /\ p[1] \in part[v] /\ p[2] \in part[v] /\ p[1] < p[2]
            /\ p[1] \in Int /\ p[2] \in Int
        BY <1>2, <1>7 DEF TwinsBelow
      <3>. HIDE DEF v
      <3>2. size[v] # 1
        BY <1>6, <1>8, <3>1, FS_Singleton
      <3>3. size[v] > 1
        BY <1>8, <3>1, <3>2
      <3>4. v \in R
        BY <3>1, <3>3 DEF R
      <3>. QED
        BY <3>4 DEF v
    <2>. QED
      BY <1>14, <2>1, <2>2
  <1>25. \A g \in Shared(X, class) : others[g] \in Int /\ pairs[g] \in Int
    <2>. SUFFICES ASSUME NEW g \in Shared(X, class) PROVE others[g] \in Int /\ pairs[g] \in Int
      OBVIOUS
    <2>1. PICK v \in R : g = part[v]
      BY <1>16
    <2>. QED
      BY <1>8, <1>9, <1>10, <1>17, <2>1
  <1>26. Cardinality(V) \in Nat
    BY <1>1, FS_CardinalityType
  <1>27. SumOver(others, Shared(X, class)) = Cardinality(X) - Cardinality(V)
    BY <1>11, <1>12, <1>13, <1>15, <1>20, <1>26
  <1>. QED
    BY <1>1, <1>19, <1>21, <1>22, <1>23, <1>24, <1>25, <1>27 DEF V, ClassNames

LEMMA TwinsByClass ==
  ASSUME NEW X, FiniteInts(X), NEW class
  PROVE  /\ \A g \in Shared(X, class) : g \in SUBSET X /\ PairsBelow(g) \subseteq TwinsBelow(X, class)
         /\ \A p \in TwinsBelow(X, class) : \E g \in Shared(X, class) : p \in PairsBelow(g)
  <1>. IsFiniteSet(X) /\ X \subseteq Int
    BY DEF FiniteInts
  <1>1. ASSUME NEW g \in Shared(X, class)
        PROVE  g \in SUBSET X /\ PairsBelow(g) \subseteq TwinsBelow(X, class)
    <2>1. PICK m \in X : g = {n \in X : class[n] = class[m]}
      BY <1>1 DEF Shared, ClassesOf
    <2>. QED
      BY <2>1 DEF PairsBelow, TwinsBelow
  <1>2. ASSUME NEW p \in TwinsBelow(X, class) PROVE \E g \in Shared(X, class) : p \in PairsBelow(g)
    <2>. DEFINE g == {n \in X : class[n] = class[p[1]]}
    <2>1. /\ p \in X \X X /\ p[1] \in X /\ p[2] \in X /\ p[1] < p[2] /\ p[1] \in Int /\ p[2] \in Int
          /\ class[p[1]] = class[p[2]]
      BY DEF TwinsBelow
    <2>2. p[1] \in g /\ p[2] \in g /\ g \in SUBSET X /\ g \in ClassesOf(X, class)
      BY <2>1 DEF ClassesOf
    <2>. HIDE DEF g
    <2>3. IsFiniteSet(g)
      BY <2>2, FS_Subset
    <2>4. Cardinality(g) \in Nat /\ Cardinality(g) # 0 /\ Cardinality(g) # 1
      BY <2>1, <2>2, <2>3, FS_CardinalityType, FS_EmptySet, FS_Singleton
    <2>5. g \in Shared(X, class)
      BY <2>2, <2>4 DEF Shared
    <2>6. p \in PairsBelow(g)
      BY <2>1, <2>2 DEF PairsBelow
    <2>. QED
      BY <2>5, <2>6
  <1>. QED
    BY <1>1, <1>2

(* Fewer values than members, just when two members have one.              *)
LEMMA FewerValues ==
  ASSUME NEW S, IsFiniteSet(S), NEW f, DOMAIN f = S
  PROVE  /\ Cardinality({f[x] : x \in S}) \in Nat
         /\ Cardinality({f[x] : x \in S}) # Cardinality(S) <=> \E a, b \in S : a # b /\ f[a] = f[b]
  <1>. DEFINE R == {f[x] : x \in S}
              g == [x \in S |-> f[x]]
  <1>1. g \in [S -> R] /\ (\A z \in R : \E x \in S : g[x] = z) /\ \A x \in S : g[x] = f[x]
    OBVIOUS
  <1>. HIDE DEF g, R
  <1>2. g \in Surjection(S, R)
    BY <1>1 DEF Surjection
  <1>3. g \in Injection(S, R) <=> ~\E a, b \in S : a # b /\ f[a] = f[b]
    BY <1>1 DEF Injection, IsInjective
  <1>4. IsFiniteSet(R) /\ (Cardinality(R) = Cardinality(S) <=> g \in Injection(S, R))
    BY <1>2, FS_Surjection
  <1>5. Cardinality(R) \in Nat
    BY <1>4, FS_CardinalityType
  <1>. QED
    BY <1>3, <1>4, <1>5 DEF R

-----------------------------------------------------------------------------
(* A fold over a sequence, from the left.                                  *)

Runs(step, state, symbols) == FoldLeft(LAMBDA s, x : step[s][x], state, symbols)

LEMMA MaxOfNumbers ==
  ASSUME NEW S, S \subseteq Int, IsFiniteSet(S), S # {}
  PROVE  Max(S) \in S /\ \A x \in S : x <= Max(S)
  <1>. DEFINE Highest(R) == {x \in R : \A y \in R : y <= x}
              T == {R \in SUBSET S : R = {} \/ Highest(R) # {}}
  <1>1. {} \in T
    OBVIOUS
  <1>2. \A R \in SUBSET S : \A x \in S \ R : R \in T => R \cup {x} \in T
    <2>. SUFFICES ASSUME NEW R \in SUBSET S, NEW x \in S \ R, R = {} \/ Highest(R) # {}
                  PROVE  Highest(R \cup {x}) # {}
      OBVIOUS
    <2>1. CASE R = {}
      <3>1. x \in Highest(R \cup {x})
        BY <2>1
      <3>. QED
        BY <3>1
    <2>2. CASE Highest(R) # {}
      <3>1. PICK y \in R : \A z \in R : z <= y
        BY <2>2
      <3>2. CASE x <= y
        <4>1. y \in Highest(R \cup {x})
          BY <3>1, <3>2
        <4>. QED
          BY <4>1
      <3>3. CASE ~(x <= y)
        <4>1. x \in Highest(R \cup {x})
          BY <3>1, <3>3
        <4>. QED
          BY <4>1
      <3>. QED
        BY <3>2, <3>3
    <2>. QED
      BY <2>1, <2>2
  <1>3. S \in T
    <2>. HIDE DEF T
    <2>. QED
      BY <1>1, <1>2, InductionOnFinite
  <1>4. PICK x \in S : \A y \in S : y <= x
    BY <1>3
  <1>. QED
    BY <1>4 DEF Max

(* The fold over the positions of the symbols, which takes out the last.   *)
FoldsTo(g, step, state, symbols) ==
  /\ g[{}] = state
  /\ \A S \in (SUBSET (1..Len(symbols))) \ {{}} :
       g[S] = step[g[S \ {Max(S)}]][symbols[Max(S)]]
  /\ Runs(step, state, symbols) = g[1..Len(symbols)]

LEMMA FoldsAlong ==
  ASSUME NEW T, NEW B, NEW step \in [T -> [B -> T]], NEW state \in T, NEW symbols \in Seq(B)
  PROVE  \E g \in [SUBSET (1..Len(symbols)) -> T] : FoldsTo(g, step, state, symbols)
  <1>. DEFINE n == Len(symbols)
              D == 1..n
              choice == [S \in (SUBSET D) \ {{}} |-> Max(S)]
              move == [i \in D |-> [s \in T |-> step[s][symbols[i]]]]
              Along(g) == g = [S \in SUBSET D |->
                                 IF S = {} THEN state
                                 ELSE step[g[S \ {Max(S)}]][symbols[Max(S)]]]
              iter == CHOOSE g : Along(g)
  <1>1. n \in Nat /\ D = DOMAIN symbols /\ \A i \in D : symbols[i] \in B
    OBVIOUS
  <1>2. IsFiniteSet(D) /\ D \subseteq Int
    BY <1>1, FS_Interval
  <1>3. \A S \in (SUBSET D) \ {{}} : Max(S) \in S
    <2>. HIDE DEF D
    <2>. QED
      BY <1>2, FS_Subset, MaxOfNumbers
  <1>4. choice \in Selections(D)
    <2>. HIDE DEF D
    <2>. QED
      BY <1>3 DEF Selections
  <1>5. move \in [D -> [T -> T]]
    BY <1>1
  <1>6. PICK g \in [SUBSET D -> T] : Folds(g, state, choice, move, D)
    <2>. HIDE DEF choice, move, D
    <2>. QED
      BY <1>2, <1>4, <1>5, FoldExists
  <1>7. /\ g[{}] = state
        /\ \A S \in (SUBSET D) \ {{}} : g[S] = step[g[S \ {Max(S)}]][symbols[Max(S)]]
    <2>1. g[{}] = state
      BY <1>6 DEF Folds
    <2>2. ASSUME NEW S \in (SUBSET D) \ {{}}
          PROVE  g[S] = step[g[S \ {Max(S)}]][symbols[Max(S)]]
      <3>1. choice[S] = Max(S) /\ Max(S) \in D /\ S \ {Max(S)} \in SUBSET D
        BY <1>3
      <3>2. g[S] = move[Max(S)][g[S \ {Max(S)}]]
        BY <1>6, <3>1 DEF Folds
      <3>3. g[S \ {Max(S)}] \in T
        BY <3>1
      <3>. HIDE DEF D
      <3>. QED
        BY <3>1, <3>2, <3>3
    <2>. QED
      BY <2>1, <2>2
  <1>8. Along(g)
    BY <1>6, <1>7
  <1>9. Along(iter)
    BY <1>8, Zenon
  <1>10. Runs(step, state, symbols) = iter[DOMAIN symbols]
    BY <1>1, Zenon DEF Runs, FoldLeft, MapThenFoldSet
  <1>11. iter[{}] = state
         /\ \A S \in (SUBSET D) \ {{}} :
              iter[S] = step[iter[S \ {Max(S)}]][symbols[Max(S)]]
    <2>. HIDE DEF iter
    <2>. QED
      BY <1>9
  <1>12. g[D] = iter[D]
    <2>. HIDE DEF iter, D
    <2>1. \A S \in (SUBSET D) \ {{}} : choice[S] = Max(S)
      OBVIOUS
    <2>2. \A S \in (SUBSET D) \ {{}} :
            g[S \ {choice[S]}] = iter[S \ {choice[S]}] => g[S] = iter[S]
      BY <1>7, <1>11, <2>1
    <2>3. StepsAlike(g, iter, choice, D)
      BY <1>7, <1>11, <2>2 DEF StepsAlike
    <2>. HIDE DEF choice
    <2>4. \A S \in SUBSET D : g[S] = iter[S]
      <3>1. IsFiniteSet(D) /\ choice \in Selections(D) /\ StepsAlike(g, iter, choice, D)
        BY <1>2, <1>4, <2>3
      <3>. HIDE DEF move, Along
      <3>. QED
        BY <3>1, FoldIsUnique
    <2>. QED
      BY <2>4
  <1>13. Runs(step, state, symbols) = g[D]
    <2>. HIDE DEF iter
    <2>. QED
      BY <1>1, <1>10, <1>12
  <1>. QED
    BY <1>6, <1>7, <1>13 DEF FoldsTo

(* The last of the first n + 1 numbers, and what is left without it.       *)
LEMMA LastOfInterval ==
  ASSUME NEW n \in Nat
  PROVE  /\ Max(1..(n + 1)) = n + 1
         /\ (1..(n + 1)) \ {n + 1} = 1..n
         /\ 1..(n + 1) # {}
  <1>. DEFINE all == 1..(n + 1)
  <1>1. IsFiniteSet(all) /\ all \subseteq Int /\ all # {} /\ n + 1 \in all
    <2>1. n + 1 \in Int /\ n + 1 \in all
      OBVIOUS
    <2>2. IsFiniteSet(all)
      BY <2>1, FS_Interval
    <2>. QED
      BY <2>1, <2>2
  <1>2. \A x \in all : x <= n + 1 /\ x \in Int
    OBVIOUS
  <1>3. Max(all) \in all /\ \A x \in all : x <= Max(all)
    <2>. HIDE DEF all
    <2>. QED
      BY <1>1, MaxOfNumbers
  <1>4. Max(all) = n + 1
    <2>. DEFINE last == Max(all)
    <2>1. last \in all /\ n + 1 <= last
      BY <1>1, <1>3
    <2>. HIDE DEF last, all
    <2>2. last <= n + 1 /\ last \in Int
      BY <1>2, <2>1
    <2>3. last = n + 1
      BY <2>1, <2>2
    <2>. QED
      BY <2>3 DEF last
  <1>. QED
    BY <1>4

LEMMA StepsAlikeMeet ==
  ASSUME NEW S, IsFiniteSet(S), NEW choice, choice \in Selections(S), NEW g, NEW h,
         StepsAlike(g, h, choice, S)
  PROVE  g[S] = h[S]
  <1>1. \A s \in SUBSET S : g[s] = h[s]
    BY FoldIsUnique
  <1>. QED
    BY <1>1

(* Two foldings of symbols that agree on D agree there.                    *)
FoldsWithin(g, step, symbols, D) ==
  \A S \in (SUBSET D) \ {{}} : g[S] = step[g[S \ {Max(S)}]][symbols[Max(S)]]

SameWithin(more, symbols, D) == \A i \in D : more[i] = symbols[i]

LEMMA FoldsAgree ==
  ASSUME NEW D, NEW more, NEW symbols, NEW step, NEW g, NEW e,
         IsFiniteSet(D), D \subseteq Int, g[{}] = e[{}],
         FoldsWithin(g, step, symbols, D), FoldsWithin(e, step, more, D),
         SameWithin(more, symbols, D)
  PROVE  g[D] = e[D]
  <1>. DEFINE choice == [S \in (SUBSET D) \ {{}} |-> Max(S)]
  <1>1. \A S \in (SUBSET D) \ {{}} : Max(S) \in S
    BY FS_Subset, MaxOfNumbers
  <1>2. choice \in Selections(D)
    BY <1>1 DEF Selections
  <1>3. \A S \in (SUBSET D) \ {{}} :
          g[S \ {choice[S]}] = e[S \ {choice[S]}] => g[S] = e[S]
    <2>. SUFFICES ASSUME NEW S \in (SUBSET D) \ {{}},
                         g[S \ {choice[S]}] = e[S \ {choice[S]}]
                  PROVE  g[S] = e[S]
      OBVIOUS
    <2>1. choice[S] = Max(S) /\ Max(S) \in D
      BY <1>1
    <2>2. more[Max(S)] = symbols[Max(S)]
      BY <2>1 DEF SameWithin
    <2>3. g[S] = step[g[S \ {Max(S)}]][symbols[Max(S)]]
      BY Zenon DEF FoldsWithin
    <2>4. e[S] = step[e[S \ {Max(S)}]][more[Max(S)]]
      BY Zenon DEF FoldsWithin
    <2>. QED
      BY <2>1, <2>2, <2>3, <2>4
  <1>4. StepsAlike(g, e, choice, D)
    BY <1>3 DEF StepsAlike
  <1>. HIDE DEF choice
  <1>. QED
    BY <1>2, <1>4, StepsAlikeMeet

(* No symbols change nothing; one more is absorbed last.                   *)
LEMMA RunsNone ==
  ASSUME NEW T, NEW B, NEW step \in [T -> [B -> T]], NEW state \in T
  PROVE  Runs(step, state, <<>>) = state
  <1>. DEFINE none == <<>>
  <1>1. none \in Seq(B) /\ Len(none) = 0
    OBVIOUS
  <1>. HIDE DEF none
  <1>2. PICK g \in [SUBSET (1..Len(none)) -> T] :
          FoldsTo(g, step, state, none)
    BY <1>1, FoldsAlong
  <1>3. 1..Len(none) = {}
    BY <1>1
  <1>. QED
    BY <1>2, <1>3 DEF none, FoldsTo

IsStep(step, T, B) == step \in [T -> [B -> T]]

LEMMA RunsOn ==
  ASSUME NEW T, NEW B, NEW step, IsStep(step, T, B), NEW state \in T,
         NEW symbols \in Seq(B), NEW symbol \in B
  PROVE  /\ Runs(step, state, symbols) \in T
         /\ Runs(step, state, Append(symbols, symbol))
              = step[Runs(step, state, symbols)][symbol]
  <1>. DEFINE more == Append(symbols, symbol)
              n == Len(symbols)
  <1>1. /\ n \in Nat /\ more \in Seq(B) /\ Len(more) = n + 1
        /\ more[n + 1] = symbol /\ \A i \in 1..n : more[i] = symbols[i]
    OBVIOUS
  <1>11. step \in [T -> [B -> T]]
    BY DEF IsStep
  <1>2. PICK g \in [SUBSET (1..n) -> T] : FoldsTo(g, step, state, symbols)
    BY <1>11, FoldsAlong
  <1>. HIDE DEF more
  <1>3. PICK e \in [SUBSET (1..Len(more)) -> T] : FoldsTo(e, step, state, more)
    BY <1>1, <1>11, FoldsAlong
  <1>4. /\ g[{}] = state
        /\ \A S \in (SUBSET (1..n)) \ {{}} :
             g[S] = step[g[S \ {Max(S)}]][symbols[Max(S)]]
        /\ Runs(step, state, symbols) = g[1..n]
    BY <1>2, Zenon DEF FoldsTo
  <1>5. /\ e[{}] = state
        /\ \A S \in (SUBSET (1..(n + 1))) \ {{}} :
             e[S] = step[e[S \ {Max(S)}]][more[Max(S)]]
        /\ Runs(step, state, more) = e[1..(n + 1)]
    <2>1. Len(more) = n + 1
      BY <1>1
    <2>. HIDE DEF n
    <2>. QED
      BY <1>3, <2>1, Zenon DEF FoldsTo
  <1>6. g[1..n] \in T
    BY <1>2
  <1>. HIDE DEF n
  <1>7. /\ Max(1..(n + 1)) = n + 1 /\ (1..(n + 1)) \ {n + 1} = 1..n
        /\ 1..(n + 1) # {}
    BY <1>1, LastOfInterval
  <1>8. g[1..n] = e[1..n]
    <2>. DEFINE D == 1..n
    <2>1. IsFiniteSet(D) /\ D \subseteq Int
      BY <1>1, FS_Interval
    <2>2. D \subseteq 1..(n + 1)
      BY <1>1
    <2>3. SUBSET D \subseteq SUBSET (1..(n + 1))
      BY <2>2
    <2>4. g[{}] = e[{}]
      BY <1>4, <1>5
    <2>5. FoldsWithin(g, step, symbols, D)
      BY <1>4, Zenon DEF FoldsWithin
    <2>6. FoldsWithin(e, step, more, D)
      <3>. SUFFICES ASSUME NEW S \in (SUBSET D) \ {{}}
                    PROVE  e[S] = step[e[S \ {Max(S)}]][more[Max(S)]]
        BY DEF FoldsWithin
      <3>1. S \in (SUBSET (1..(n + 1))) \ {{}}
        BY <2>3
      <3>. QED
        BY <1>5, <3>1, Zenon
    <2>7. SameWithin(more, symbols, D)
      BY <1>1 DEF SameWithin
    <2>. HIDE DEF D
    <2>8. g[D] = e[D]
      BY <2>1, <2>4, <2>5, <2>6, <2>7, FoldsAgree
    <2>. QED
      BY <2>8 DEF D
  <1>9. e[1..(n + 1)] = step[e[1..n]][symbol]
    <2>1. 1..(n + 1) \in (SUBSET (1..(n + 1))) \ {{}}
      BY <1>7
    <2>2. e[1..(n + 1)]
            = step[e[(1..(n + 1)) \ {Max(1..(n + 1))}]][more[Max(1..(n + 1))]]
      BY <1>5, <2>1, Zenon
    <2>. QED
      BY <1>1, <1>7, <2>2
  <1>10. Runs(step, state, more) = step[Runs(step, state, symbols)][symbol]
    BY <1>4, <1>5, <1>8, <1>9
  <1>. QED
    BY <1>4, <1>6, <1>10 DEF more

(* Runs over a part of the symbols, and over two lists.                    *)
LEMMA RunsInto ==
  ASSUME NEW T, NEW B, NEW step, IsStep(step, T, B), NEW state \in T, NEW symbols \in Seq(B)
  PROVE  Runs(step, state, symbols) \in T
  <1>1. step \in [T -> [B -> T]]
    BY DEF IsStep
  <1>2. PICK g \in [SUBSET (1..Len(symbols)) -> T] : FoldsTo(g, step, state, symbols)
    BY <1>1, FoldsAlong
  <1>. QED
    BY <1>2 DEF FoldsTo

LEMMA PartsGrow ==
  ASSUME NEW B, NEW s \in Seq(B), NEW k \in 1..Len(s)
  PROVE  /\ SubSeq(s, 1, k - 1) \in Seq(B) /\ s[k] \in B
         /\ SubSeq(s, 1, k) = Append(SubSeq(s, 1, k - 1), s[k])
  <1>. DEFINE a == SubSeq(s, 1, k - 1)
              b == SubSeq(s, 1, k)
              c == Append(a, s[k])
  <1>1. k \in Nat /\ k - 1 \in Nat /\ Len(s) \in Nat /\ \A i \in 1..k : i \in 1..Len(s) /\ s[i] \in B
    BY LenProperties, ElementOfSeq
  <1>2. a \in Seq(B) /\ Len(a) = k - 1 /\ \A i \in 1..(k - 1) : a[i] = s[i]
    BY <1>1
  <1>3. b \in Seq(B) /\ Len(b) = k /\ \A i \in 1..k : b[i] = s[i]
    BY <1>1
  <1>. HIDE DEF a, b
  <1>4. c \in Seq(B) /\ Len(c) = k /\ \A i \in 1..(k - 1) : c[i] = a[i]
    BY <1>1, <1>2
  <1>5. c[k] = s[k]
    BY <1>1, <1>2
  <1>. HIDE DEF c
  <1>6. b = c
    BY <1>1, <1>2, <1>3, <1>4, <1>5, SeqEqual
  <1>. QED
    BY <1>1, <1>2, <1>6 DEF a, b, c

LEMMA RunsGoOn ==
  ASSUME NEW T, NEW B, NEW step, IsStep(step, T, B), NEW state \in T, NEW s \in Seq(B),
         NEW k \in 1..Len(s)
  PROVE  Runs(step, state, SubSeq(s, 1, k)) = step[Runs(step, state, SubSeq(s, 1, k - 1))][s[k]]
  <1>. DEFINE a == SubSeq(s, 1, k - 1)
  <1>1. a \in Seq(B) /\ s[k] \in B /\ SubSeq(s, 1, k) = Append(a, s[k])
    BY PartsGrow
  <1>. HIDE DEF a
  <1>2. Runs(step, state, Append(a, s[k])) = step[Runs(step, state, a)][s[k]]
    BY <1>1, RunsOn
  <1>. QED
    BY <1>1, <1>2 DEF a

LEMMA JoinedGrow ==
  ASSUME NEW B, NEW s \in Seq(B), NEW t \in Seq(B), NEW x \in B
  PROVE  s \o t \in Seq(B) /\ s \o Append(t, x) = Append(s \o t, x)
  OBVIOUS

LEMMA RunsJoin ==
  ASSUME NEW T, NEW B, NEW step, IsStep(step, T, B), NEW state \in T,
         NEW s \in Seq(B), NEW t \in Seq(B)
  PROVE  Runs(step, state, s \o t) = Runs(step, Runs(step, state, s), t)
  <1>. DEFINE behind == Runs(step, state, s)
              Part(k) == SubSeq(t, 1, k)
              good == {k \in 0..Len(t) : Runs(step, state, s \o Part(k)) = Runs(step, behind, Part(k))}
  <1>1. behind \in T /\ Len(t) \in Nat
    BY RunsInto, LenProperties
  <1>2. 0 \in good
    <2>1. Part(0) = <<>> /\ s \o <<>> = s
      OBVIOUS
    <2>2. Runs(step, behind, <<>>) = behind
      <3>. HIDE DEF behind
      <3>. QED
        BY <1>1, RunsNone DEF IsStep
    <2>3. Runs(step, state, s \o Part(0)) = Runs(step, behind, Part(0))
      <3>1. Runs(step, state, s \o <<>>) = behind
        BY <2>1
      <3>. HIDE DEF behind
      <3>. QED
        BY <2>1, <2>2, <3>1
    <2>. QED
      BY <1>1, <2>3
  <1>3. ASSUME NEW k \in 1..Len(t), k - 1 \in good PROVE k \in good
    <2>. DEFINE a == Part(k - 1)
    <2>1. a \in Seq(B) /\ t[k] \in B /\ Part(k) = Append(a, t[k])
      BY PartsGrow
    <2>2. Runs(step, state, s \o a) = Runs(step, behind, a)
      BY <1>3
    <2>. HIDE DEF a, behind, Part
    <2>3. s \o a \in Seq(B) /\ s \o Part(k) = Append(s \o a, t[k])
      BY <2>1, JoinedGrow
    <2>. DEFINE joined == s \o a
    <2>7. joined \in Seq(B)
      BY <2>3
    <2>. HIDE DEF joined
    <2>4. Runs(step, state, Append(joined, t[k])) = step[Runs(step, state, joined)][t[k]]
      BY <2>1, <2>7, RunsOn
    <2>5. Runs(step, behind, Append(a, t[k])) = step[Runs(step, behind, a)][t[k]]
      BY <1>1, <2>1, RunsOn
    <2>6. Runs(step, state, s \o Part(k)) = Runs(step, behind, Part(k))
      <3>1. joined = s \o a
        BY DEF joined
      <3>. QED
        BY <2>1, <2>2, <2>3, <2>4, <2>5, <3>1
    <2>. QED
      BY <2>6
  <1>4. Len(t) \in good
    <2>. HIDE DEF good
    <2>1. 0..Len(t) \subseteq good
      BY <1>1, <1>2, <1>3, InductionUpTo
    <2>. QED
      BY <1>1, <2>1
  <1>5. Part(Len(t)) = t
    BY SubSeqFull
  <1>. QED
    BY <1>4, <1>5

-----------------------------------------------------------------------------
(* The order of std::vector is a strict total one.                         *)

AgreeUpTo(a, b, n) == n <= Len(a) /\ n <= Len(b) /\ \A m \in 1..n : a[m] = b[m]

Splits(a, b, n) ==
  AgreeUpTo(a, b, n) /\ n < Len(b) /\ (n = Len(a) \/ (n < Len(a) /\ a[n + 1] < b[n + 1]))

LEMMA PrefixIs ==
  ASSUME NEW a \in Seq(Nat), NEW b \in Seq(Nat)
  PROVE  IsStrictPrefix(a, b) <=> AgreeUpTo(a, b, Len(a)) /\ Len(a) < Len(b)
  <1>1. Len(a) \in Nat /\ Len(b) \in Nat
    BY LenProperties
  <1>2. SubSeq(a, 1, Len(a)) = a
    BY SubSeqFull
  <1>3. ASSUME Len(a) <= Len(b)
        PROVE  SubSeq(b, 1, Len(a)) = a <=> \A m \in 1..Len(a) : a[m] = b[m]
    <2>. DEFINE n == Len(a)
                cut == SubSeq(b, 1, n)
    <2>1. \A i \in 1..n : b[i] \in Nat
      BY <1>1, <1>3, ElementOfSeq
    <2>2. cut \in Seq(Nat) /\ Len(cut) = n /\ \A i \in 1..n : cut[i] = b[i]
      <3>1. n \in Nat
        BY <1>1
      <3>. HIDE DEF n
      <3>2. /\ cut \in Seq(Nat)
            /\ Len(cut) = IF 1 <= n THEN n - 1 + 1 ELSE 0
            /\ \A i \in 1..(n - 1 + 1) : cut[i] = b[1 + i - 1]
        BY <2>1, <3>1, SubSeqProperties
      <3>3. n - 1 + 1 = n /\ \A i \in 1..n : 1 + i - 1 = i
        BY <3>1
      <3>. QED
        BY <3>1, <3>2, <3>3
    <2>. HIDE DEF cut
    <2>. QED
      BY <2>2, SeqEqual
  <1>4. a = b <=> Len(a) = Len(b) /\ \A m \in 1..Len(a) : a[m] = b[m]
    BY SeqEqual
  <1>. QED
    BY <1>1, <1>2, <1>3, <1>4 DEF IsStrictPrefix, IsPrefix, AgreeUpTo

LEMMA BeforeSplits ==
  ASSUME NEW a \in Seq(Nat), NEW b \in Seq(Nat)
  PROVE  Before(a, b) <=> \E n \in Nat : Splits(a, b, n)
  <1>1. /\ Len(a) \in Nat /\ Len(b) \in Nat
        /\ DOMAIN a = 1..Len(a) /\ DOMAIN b = 1..Len(b)
    BY LenProperties
  <1>2. ASSUME NEW n \in DOMAIN a \cap DOMAIN b, a[n] < b[n], \A m \in 1..(n - 1) : a[m] = b[m]
        PROVE  n - 1 \in Nat /\ Splits(a, b, n - 1)
    BY <1>1, <1>2 DEF Splits, AgreeUpTo
  <1>3. ASSUME IsStrictPrefix(a, b) PROVE Splits(a, b, Len(a))
    BY <1>1, <1>3, PrefixIs DEF Splits
  <1>4. ASSUME NEW n \in Nat, Splits(a, b, n) PROVE Before(a, b)
    <2>1. CASE n = Len(a)
      <3>1. IsStrictPrefix(a, b)
        BY <1>4, <2>1, PrefixIs DEF Splits
      <3>. QED
        BY <3>1 DEF Before
    <2>2. CASE n # Len(a)
      <3>3. n < Len(a) /\ n < Len(b) /\ a[n + 1] < b[n + 1]
        BY <1>4, <2>2 DEF Splits
      <3>4. n + 1 \in DOMAIN a /\ n + 1 \in DOMAIN b
        BY <1>1, <3>3
      <3>1. n + 1 \in DOMAIN a \cap DOMAIN b /\ a[n + 1] < b[n + 1]
        BY <3>3, <3>4
      <3>2. \A m \in 1..((n + 1) - 1) : a[m] = b[m]
        BY <1>4 DEF Splits, AgreeUpTo
      <3>. QED
        BY <3>1, <3>2 DEF Before
    <2>. QED
      BY <2>1, <2>2
  <1>. QED
    BY <1>1, <1>2, <1>3, <1>4 DEF Before

LEMMA VectorsAreOrdered ==
  /\ \A a \in Seq(Nat) : ~Before(a, a)
  /\ \A a, b, c \in Seq(Nat) : Before(a, b) /\ Before(b, c) => Before(a, c)
  /\ \A a, b \in Seq(Nat) : a # b => Before(a, b) \/ Before(b, a)
  <1>1. ASSUME NEW a \in Seq(Nat) PROVE ~Before(a, a)
    <2>1. \A n \in Nat : ~Splits(a, a, n)
      <3>. SUFFICES ASSUME NEW n \in Nat, Splits(a, a, n) PROVE FALSE
        OBVIOUS
      <3>1. Len(a) \in Nat /\ n < Len(a) /\ a[n + 1] < a[n + 1]
        BY LenProperties DEF Splits
      <3>2. a[n + 1] \in Nat
        BY <3>1, ElementOfSeq
      <3>. QED
        BY <3>1, <3>2
    <2>. QED
      BY <2>1, BeforeSplits
  <1>2. ASSUME NEW a \in Seq(Nat), NEW b \in Seq(Nat), NEW c \in Seq(Nat),
               Before(a, b), Before(b, c)
        PROVE  Before(a, c)
    <2>1. PICK n \in Nat : Splits(a, b, n)
      BY <1>2, BeforeSplits
    <2>2. PICK m \in Nat : Splits(b, c, m)
      BY <1>2, BeforeSplits
    <2>3. /\ Len(a) \in Nat /\ Len(b) \in Nat /\ Len(c) \in Nat
          /\ \A i \in 1..Len(a) : a[i] \in Nat
          /\ \A i \in 1..Len(b) : b[i] \in Nat
          /\ \A i \in 1..Len(c) : c[i] \in Nat
      BY LenProperties, ElementOfSeq
    <2>4. CASE n < m
      <3>1. AgreeUpTo(a, c, n) /\ n < Len(c)
        BY <2>1, <2>2, <2>3, <2>4 DEF Splits, AgreeUpTo
      <3>2. b[n + 1] = c[n + 1]
        BY <2>2, <2>4 DEF Splits, AgreeUpTo
      <3>3. Splits(a, c, n)
        BY <2>1, <3>1, <3>2 DEF Splits
      <3>. QED
        BY <3>3, BeforeSplits
    <2>5. CASE n = m
      <3>1. AgreeUpTo(a, c, n) /\ n < Len(c)
        BY <2>1, <2>2, <2>3, <2>5 DEF Splits, AgreeUpTo
      <3>2. b[n + 1] < c[n + 1]
        BY <2>1, <2>2, <2>3, <2>5 DEF Splits
      <3>3. n < Len(a) => a[n + 1] < c[n + 1]
        <4>. SUFFICES ASSUME n < Len(a) PROVE a[n + 1] < c[n + 1]
          OBVIOUS
        <4>1. a[n + 1] < b[n + 1]
          BY <2>1, <2>3 DEF Splits
        <4>2. a[n + 1] \in Nat /\ b[n + 1] \in Nat /\ c[n + 1] \in Nat
          BY <2>1, <2>3, <3>1 DEF Splits
        <4>. QED
          BY <3>2, <4>1, <4>2
      <3>4. Splits(a, c, n)
        BY <2>1, <3>1, <3>3 DEF Splits
      <3>. QED
        BY <3>4, BeforeSplits
    <2>6. CASE m < n
      <3>1. AgreeUpTo(a, c, m) /\ m < Len(c) /\ m < Len(a) /\ m # Len(b)
        BY <2>1, <2>2, <2>3, <2>6, SMTT(30) DEF Splits, AgreeUpTo
      <3>2. a[m + 1] = b[m + 1]
        BY <2>1, <2>6 DEF Splits, AgreeUpTo
      <3>3. b[m + 1] < c[m + 1]
        BY <2>2, <3>1 DEF Splits
      <3>4. Splits(a, c, m)
        BY <3>1, <3>2, <3>3 DEF Splits
      <3>. QED
        BY <3>4, BeforeSplits
    <2>. QED
      BY <2>4, <2>5, <2>6
  <1>3. ASSUME NEW a \in Seq(Nat), NEW b \in Seq(Nat), a # b
        PROVE  Before(a, b) \/ Before(b, a)
    <2>. DEFINE T == {n \in Nat : n = Len(a) \/ n = Len(b) \/ a[n + 1] # b[n + 1]}
    <2>1. /\ Len(a) \in Nat /\ Len(b) \in Nat
          /\ \A i \in 1..Len(a) : a[i] \in Nat
          /\ \A i \in 1..Len(b) : b[i] \in Nat
      BY LenProperties, ElementOfSeq
    <2>2. T \subseteq Nat /\ T # {} /\ Len(a) \in T /\ Len(b) \in T
      BY <2>1
    <2>3. PICK n \in T : \A m \in T : n <= m
      <3>. HIDE DEF T
      <3>. QED
        BY <2>2, LeastNat
    <2>4. n \in Nat /\ n <= Len(a) /\ n <= Len(b)
      BY <2>2, <2>3
    <2>5. \A m \in 1..n : a[m] = b[m]
      <3>. SUFFICES ASSUME NEW m \in 1..n, a[m] # b[m] PROVE FALSE
        OBVIOUS
      <3>1. m - 1 \in Nat /\ (m - 1) + 1 = m /\ ~(n <= m - 1)
        BY <2>4
      <3>2. m - 1 \in T
        BY <3>1
      <3>. QED
        BY <2>3, <3>1, <3>2
    <2>6. AgreeUpTo(a, b, n) /\ AgreeUpTo(b, a, n)
      BY <2>4, <2>5 DEF AgreeUpTo
    <2>7. CASE n = Len(a)
      <3>1. n # Len(b)
        BY <1>3, <2>5, <2>7, SeqEqual
      <3>2. Splits(a, b, n)
        BY <2>1, <2>4, <2>6, <2>7, <3>1 DEF Splits
      <3>. QED
        BY <2>4, <3>2, BeforeSplits
    <2>8. CASE n = Len(b) /\ n # Len(a)
      <3>1. Splits(b, a, n)
        BY <2>1, <2>4, <2>6, <2>8 DEF Splits
      <3>. QED
        BY <2>4, <3>1, BeforeSplits
    <2>9. CASE n # Len(a) /\ n # Len(b)
      <3>1. n < Len(a) /\ n < Len(b) /\ a[n + 1] # b[n + 1]
        BY <2>1, <2>3, <2>4, <2>9
      <3>2. a[n + 1] \in Nat /\ b[n + 1] \in Nat
        BY <2>1, <2>4, <3>1
      <3>3. Splits(a, b, n) \/ Splits(b, a, n)
        BY <2>6, <3>1, <3>2 DEF Splits
      <3>. QED
        BY <2>4, <3>3, BeforeSplits
    <2>. QED
      BY <2>7, <2>8, <2>9
  <1>. QED
    BY <1>1, <1>2, <1>3

LEMMA LessOfTwo ==
  ASSUME NEW a \in Int, NEW b \in Int
  PROVE  Min({a, b}) = IF a <= b THEN a ELSE b
  <1>1. \E x \in {a, b} : \A y \in {a, b} : x <= y
    <2>1. CASE a <= b
      BY <2>1
    <2>2. CASE b <= a
      BY <2>2
    <2>. QED BY <2>1, <2>2
  <1>2. Min({a, b}) \in {a, b} /\ Min({a, b}) <= a /\ Min({a, b}) <= b
    BY <1>1 DEF Min
  <1>. QED
    BY <1>2

(* The first members of an ordered set, as many as fit a width.            *)
RankedBy(list, R, S) ==
  \A n \in 1..Cardinality(S) : list[n] \in S /\ Rank(R, S, list[n]) = n - 1

FirstRanked(first, R, S, width) ==
  /\ first \in Seq(S) /\ Len(first) = Min({width, Cardinality(S)}) /\ Len(first) >= 1
  /\ \A m, n \in 1..Len(first) : m # n => first[m] # first[n]
  /\ \A x \in S : <<x, first[1]>> \notin R

LEMMA FirstByRank ==
  ASSUME NEW S, IsFiniteSet(S), S # {}, NEW R, StrictlyOrders(R, S), NEW width \in Nat \ {0},
         NEW list, RankedBy(list, R, S)
  PROVE  FirstRanked(SubSeq(list, 1, Min({width, Cardinality(S)})), R, S, width)
  <1>. DEFINE size == Cardinality(S)
              many == Min({width, size})
              first == SubSeq(list, 1, many)
  <1>1. size \in Nat \ {0}
    BY FS_CardinalityType, FS_EmptySet
  <1>2. \A n \in 1..size : list[n] \in S /\ Rank(R, S, list[n]) = n - 1
    BY Zenon DEF RankedBy
  <1>. HIDE DEF size
  <1>3. many \in 1..size /\ many \in Nat
    <2>1. many = IF width <= size THEN width ELSE size
      BY <1>1, LessOfTwo
    <2>. HIDE DEF many
    <2>. QED
      BY <1>1, <2>1
  <1>. HIDE DEF many
  <1>4. first \in Seq(S) /\ Len(first) = many /\ \A n \in 1..many : first[n] = list[n]
    <2>1. \A n \in 1..many : list[n] \in S
      BY <1>1, <1>2, <1>3
    <2>. HIDE DEF first
    <2>2. /\ first \in Seq(S) /\ Len(first) = IF 1 <= many THEN many - 1 + 1 ELSE 0
          /\ \A n \in 1..(many - 1 + 1) : first[n] = list[1 + n - 1]
      BY <1>3, <2>1, SubSeqProperties DEF first
    <2>3. many - 1 + 1 = many /\ 1 <= many /\ \A n \in 1..many : 1 + n - 1 = n
      BY <1>1, <1>3
    <2>. QED
      BY <2>2, <2>3
  <1>. HIDE DEF first
  <1>5. ASSUME NEW m \in 1..many, NEW n \in 1..many, m # n PROVE first[m] # first[n]
    <2>1. m \in 1..size /\ n \in 1..size /\ m - 1 # n - 1
      BY <1>1, <1>3, <1>5
    <2>. QED
      BY <1>2, <1>4, <2>1
  <1>6. ASSUME NEW x \in S PROVE <<x, first[1]>> \notin R
    <2>1. 1 \in 1..size /\ 1 \in 1..many
      BY <1>1, <1>3
    <2>2. first[1] \in S /\ Rank(R, S, first[1]) = 0
      BY <1>2, <1>4, <2>1
    <2>3. Rank(R, S, x) \in 0..(Cardinality(S) - 1)
          /\ (<<x, first[1]>> \in R <=> Rank(R, S, x) < Rank(R, S, first[1]))
      BY <2>2, RanksAreOrdered
    <2>. QED
      BY <2>2, <2>3
  <1>7. Len(first) = many /\ many >= 1 /\ first \in Seq(S)
    BY <1>1, <1>3, <1>4
  <1>8. \A m, n \in 1..Len(first) : m # n => first[m] # first[n]
    BY <1>4, <1>5
  <1>. QED
    BY <1>6, <1>7, <1>8 DEF first, many, size, FirstRanked

-----------------------------------------------------------------------------
(* What a scan has met: the values of a function on 0..k-1, and the places *)
(* of each value.                                                          *)

Met(f, k) == {f[n] : n \in 0..(k - 1)}
Places(f, k, v) == {n \in 0..(k - 1) : f[n] = v}

IsLeast(m, S) == m \in S /\ \A x \in S : m <= x
IsMost(m, S) == m \in S /\ \A x \in S : x <= m

LEMMA LeastIsMin ==
  ASSUME NEW S, \A x \in S : x \in Int, NEW m, IsLeast(m, S)
  PROVE  Min(S) = m
  BY DEF IsLeast, Min

LEMMA MostIsMax ==
  ASSUME NEW S, \A x \in S : x \in Int, NEW m, IsMost(m, S)
  PROVE  Max(S) = m
  BY DEF IsMost, Max

Integral(S) == \A x \in S : x \in Int

(* One number more: the extreme is that of the old one and the number.     *)
LEMMA LeastTakesIn ==
  ASSUME NEW S, Integral(S), NEW m, IsLeast(m, S), NEW y \in Int
  PROVE  IsLeast(Min({m, y}), S \cup {y})
  <1>1. m \in Int /\ m \in S /\ \A x \in S : m <= x
    BY DEF IsLeast, Integral
  <1>2. CASE y < m
    <2>1. Min({m, y}) = y
      BY <1>1, <1>2, LeastIsMin DEF IsLeast
    <2>. QED
      BY <1>1, <1>2, <2>1 DEF IsLeast
  <1>3. CASE ~(y < m)
    <2>1. Min({m, y}) = m
      BY <1>1, <1>3, LeastIsMin DEF IsLeast
    <2>. QED
      BY <1>1, <1>3, <2>1 DEF IsLeast
  <1>. QED
    BY <1>2, <1>3

LEMMA MostTakesIn ==
  ASSUME NEW S, Integral(S), NEW m, IsMost(m, S), NEW y \in Int
  PROVE  IsMost(Max({m, y}), S \cup {y})
  <1>1. m \in Int /\ m \in S /\ \A x \in S : x <= m
    BY DEF IsMost, Integral
  <1>2. CASE m < y
    <2>1. Max({m, y}) = y
      BY <1>1, <1>2, MostIsMax DEF IsMost
    <2>. QED
      BY <1>1, <1>2, <2>1 DEF IsMost
  <1>3. CASE ~(m < y)
    <2>1. Max({m, y}) = m
      BY <1>1, <1>3, MostIsMax DEF IsMost
    <2>. QED
      BY <1>1, <1>3, <2>1 DEF IsMost
  <1>. QED
    BY <1>2, <1>3

LEMMA OneMorePlace ==
  ASSUME NEW f, NEW k \in Nat
  PROVE  /\ \A v : /\ IsFiniteSet(Places(f, k, v))
                   /\ Cardinality(Places(f, k, v)) \in Nat
                   /\ Places(f, k, v) \subseteq 0..(k - 1)
                   /\ v \in Met(f, k) <=> Places(f, k, v) # {}
                   /\ v \in Met(f, k) => Cardinality(Places(f, k, v)) > 0
                   /\ v # f[k] => Places(f, k + 1, v) = Places(f, k, v)
         /\ Places(f, k + 1, f[k]) = Places(f, k, f[k]) \cup {k}
         /\ Cardinality(Places(f, k + 1, f[k])) = Cardinality(Places(f, k, f[k])) + 1
         /\ f[k] \notin Met(f, k) => Cardinality(Places(f, k, f[k])) = 0
  <1>1. 0..k = 0..(k - 1) \cup {k} /\ k \notin 0..(k - 1) /\ IsFiniteSet(0..(k - 1))
    BY FS_Interval
  <1>2. ASSUME NEW v
        PROVE  /\ IsFiniteSet(Places(f, k, v))
               /\ Cardinality(Places(f, k, v)) \in Nat
               /\ Places(f, k, v) \subseteq 0..(k - 1)
               /\ v \in Met(f, k) <=> Places(f, k, v) # {}
               /\ v # f[k] => Places(f, k + 1, v) = Places(f, k, v)
    <2>1. Places(f, k, v) \subseteq 0..(k - 1)
      BY DEF Places
    <2>2. IsFiniteSet(Places(f, k, v)) /\ Cardinality(Places(f, k, v)) \in Nat
      BY <1>1, <2>1, FS_Subset, FS_CardinalityType
    <2>3. v \in Met(f, k) <=> Places(f, k, v) # {}
      BY DEF Met, Places
    <2>4. v # f[k] => Places(f, k + 1, v) = Places(f, k, v)
      BY <1>1 DEF Places
    <2>. QED
      BY <2>1, <2>2, <2>3, <2>4
  <1>3. ASSUME NEW v, v \in Met(f, k) PROVE Cardinality(Places(f, k, v)) > 0
    <2>1. Cardinality(Places(f, k, v)) # 0
      BY <1>2, <1>3, FS_EmptySet
    <2>. QED
      BY <1>2, <2>1
  <1>4. /\ Places(f, k + 1, f[k]) = Places(f, k, f[k]) \cup {k}
        /\ k \notin Places(f, k, f[k])
    BY <1>1 DEF Places
  <1>5. Cardinality(Places(f, k, f[k]) \cup {k}) = Cardinality(Places(f, k, f[k])) + 1
    BY <1>2, <1>4, FS_AddElement
  <1>6. f[k] \notin Met(f, k) => Cardinality(Places(f, k, f[k])) = 0
    BY <1>2, FS_EmptySet
  <1>. QED
    BY <1>2, <1>3, <1>4, <1>5, <1>6

LEMMA OneMoreMet ==
  ASSUME NEW f, NEW k \in Nat
  PROVE  /\ IsFiniteSet(Met(f, k)) /\ Cardinality(Met(f, k)) \in Nat
         /\ Met(f, k + 1) = Met(f, k) \cup {f[k]}
         /\ Cardinality(Met(f, k + 1))
              = Cardinality(Met(f, k)) + (IF f[k] \in Met(f, k) THEN 0 ELSE 1)
         /\ \A n \in 0..(k - 1) : f[n] \in Met(f, k)
  <1>1. 0..k = 0..(k - 1) \cup {k} /\ IsFiniteSet(0..(k - 1))
    BY FS_Interval
  <1>2. IsFiniteSet(Met(f, k)) /\ Cardinality(Met(f, k)) \in Nat
    <2>1. [n \in 0..(k - 1) |-> f[n]] \in Surjection(0..(k - 1), Met(f, k))
      BY DEF Met, Surjection
    <2>. QED
      BY <1>1, <2>1, FS_Surjection, FS_CardinalityType
  <1>3. Met(f, k + 1) = Met(f, k) \cup {f[k]}
    BY <1>1 DEF Met
  <1>4. CASE f[k] \in Met(f, k)
    BY <1>2, <1>3, <1>4 DEF Met
  <1>5. CASE f[k] \notin Met(f, k)
    <2>1. Cardinality(Met(f, k) \cup {f[k]}) = Cardinality(Met(f, k)) + 1
      BY <1>2, <1>5, FS_AddElement
    <2>. QED
      BY <1>2, <1>3, <1>5, <2>1 DEF Met
  <1>. QED
    BY <1>4, <1>5

LEMMA NothingMet == \A f : Met(f, 0) = {} /\ Cardinality(Met(f, 0)) = 0
  BY FS_EmptySet DEF Met

(* What is made of equal values is equal, so that there is no more of it.  *)
Decides(f, g, k) == \A m, n \in 0..(k - 1) : f[m] = f[n] => g[m] = g[n]

LEMMA FewerBehind ==
  ASSUME NEW f, NEW g, NEW k \in Nat, Decides(f, g, k)
  PROVE  Cardinality(Met(g, k)) <= Cardinality(Met(f, k))
  <1> DEFINE P(v) == CHOOSE n \in 0..(k - 1) : f[n] = v
             made == [v \in Met(f, k) |-> g[P(v)]]
  <1>1. Met(g, k) = {made[v] : v \in Met(f, k)}
    <2>1. ASSUME NEW n \in 0..(k - 1) PROVE f[n] \in Met(f, k) /\ made[f[n]] = g[n]
      <3>1. f[n] \in Met(f, k)
        BY DEF Met
      <3>2. P(f[n]) \in 0..(k - 1) /\ f[P(f[n])] = f[n]
        OBVIOUS
      <3>. QED
        BY <3>1, <3>2 DEF Decides
    <2>2. ASSUME NEW v \in Met(f, k) PROVE \E n \in 0..(k - 1) : made[v] = g[n]
      <3>1. \E n \in 0..(k - 1) : f[n] = v
        BY DEF Met
      <3>2. P(v) \in 0..(k - 1)
        BY <3>1
      <3>. QED
        BY <3>2
    <2>3. Met(g, k) = {g[n] : n \in 0..(k - 1)}
      BY DEF Met
    <2>. HIDE DEF made
    <2>. QED
      BY <2>1, <2>2, <2>3
  <1>2. IsFiniteSet(Met(f, k))
    BY OneMoreMet
  <1>3. made \in Surjection(Met(f, k), Met(g, k))
    BY <1>1 DEF Surjection
  <1>. HIDE DEF made
  <1>. QED
    BY <1>2, <1>3, FS_Surjection

-----------------------------------------------------------------------------
(* The places of a table with rows of one length.                          *)
LEMMA Divides ==
  ASSUME NEW n \in Nat, NEW d \in Nat \ {0}
  PROVE  n \div d \in Nat /\ n % d \in 0..(d - 1) /\ n = d * (n \div d) + (n % d)
  OBVIOUS

LEMMA OneQuotient ==
  ASSUME NEW d \in Nat \ {0}, NEW p \in Nat, NEW q \in Nat, NEW r \in 0..(d - 1), NEW s \in 0..(d - 1),
         d * p + r = d * q + s
  PROVE  p = q /\ r = s
  <1>1. \A a, b \in Nat : a < b => d * a + d <= d * b
    <2>. SUFFICES ASSUME NEW a \in Nat, NEW b \in Nat, a < b PROVE d * a + d <= d * b
      OBVIOUS
    <2>1. PICK c \in Nat : b = a + 1 + c
      <3>1. b - a - 1 \in Nat /\ b = a + 1 + (b - a - 1)
        OBVIOUS
      <3>. QED
        BY <3>1
    <2>2. d * b = d * a + d + d * c /\ d * c >= 0
      BY <2>1
    <2>. QED
      BY <2>2
  <1>2. d * p \in Nat /\ d * q \in Nat
    OBVIOUS
  <1>3. ~(p < q)
    <2>1. p < q => d * p + d <= d * q
      BY <1>1
    <2>. QED
      BY <1>2, <2>1
  <1>4. ~(q < p)
    <2>1. q < p => d * q + d <= d * p
      BY <1>1
    <2>. QED
      BY <1>2, <2>1
  <1>5. p = q
    BY <1>3, <1>4
  <1>. QED
    BY <1>2, <1>5

LEMMA QuotientIs ==
  ASSUME NEW d \in Nat \ {0}, NEW q \in Nat, NEW r \in 0..(d - 1)
  PROVE  (d * q + r) \div d = q /\ (d * q + r) % d = r
  <1>. DEFINE n == d * q + r
  <1>1. n \in Nat
    OBVIOUS
  <1>. HIDE DEF n
  <1>2. n \div d \in Nat /\ n % d \in 0..(d - 1) /\ n = d * (n \div d) + (n % d)
    BY <1>1, Divides
  <1>3. d * (n \div d) + (n % d) = d * q + r
    BY <1>2 DEF n
  <1>4. n \div d = q /\ n % d = r
    BY <1>2, <1>3, OneQuotient
  <1>. QED
    BY <1>4 DEF n

LEMMA PlaceInTable ==
  ASSUME NEW p \in Nat, NEW d \in Nat, NEW n \in 0..(p * d - 1)
  PROVE  n \in Nat /\ n \div d \in 0..(p - 1) /\ n % d \in 0..(d - 1)
  <1>. d # 0
    <2>1. p * 0 = 0
      OBVIOUS
    <2>. QED
      BY <2>1
  <1>1. n \in Nat /\ p * d \in Nat /\ n < p * d
    OBVIOUS
  <1>. DEFINE q == n \div d
              r == n % d
  <1>2. q \in Nat /\ r \in 0..(d - 1) /\ n = d * q + r
    BY <1>1, Divides
  <1>. HIDE DEF q, r
  <1>3. q < p
    <2>. SUFFICES ASSUME p <= q PROVE FALSE
      BY <1>2
    <2>1. PICK c \in Nat : q = p + c
      <3>1. q - p \in Nat /\ q = p + (q - p)
        BY <1>2
      <3>. QED
        BY <3>1
    <2>2. d * q = p * d + d * c /\ d * c >= 0
      BY <2>1
    <2>. QED
      BY <1>1, <1>2, <2>2
  <1>. QED
    BY <1>1, <1>2, <1>3 DEF q, r

=============================================================================
