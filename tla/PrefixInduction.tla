-------------------------- MODULE PrefixInduction --------------------------
(***************************************************************************)
(* Lemmas on natural numbers, and on functions that are defined one prefix *)
(* after another, which is how the loops of the program over a sequence    *)
(* are written in these modules: f[k \in 0..n], with f[0] what the loop    *)
(* starts from and f[k] made of f[k - 1] and the k-th element.             *)
(*                                                                         *)
(* The induction theorems of the library take an operator as a parameter;  *)
(* those here take a set or a function and rest on WFMin instead.          *)
(***************************************************************************)
EXTENDS Integers, Sequences, FiniteSetsExt, FiniteSetTheorems, WellFoundedInduction, TLAPS

\* A set of natural numbers that is not empty has a least element.
LEMMA LeastOfNaturals ==
    ASSUME NEW T, T \subseteq Nat, T # {}
    PROVE  \E x \in T : \A y \in T : x <= y
<1> DEFINE R == OpToRel(<, Nat)
<1>1. IsWellFoundedOn(R, Nat)
  BY NatLessThanWellFounded
<1>2. \A x, y \in Nat : x < y => <<x, y>> \in R
  BY DEF OpToRel
<1> HIDE DEF R
<1>3. PICK x \in T : \A y \in T : ~(<<y, x>> \in R)
  BY <1>1, WFMin
<1>4. \A y \in T : ~(y < x)
  BY <1>2, <1>3
<1>5. \A y \in T : x <= y
  BY <1>4
<1>6. QED
  BY <1>5

\* What Min returns is the least element.
LEMMA MinIsLeast ==
    ASSUME NEW T, T \subseteq Nat, T # {}
    PROVE  Min(T) \in T /\ \A y \in T : Min(T) <= y
BY LeastOfNaturals, Zenon DEF Min

\* As many numbers as there are from a to b, and no more, fit between them.
LEMMA AtMostInRange ==
    ASSUME NEW a \in Nat, NEW b \in Nat, a <= b + 1, NEW S, S \subseteq a..b
    PROVE  IsFiniteSet(S) /\ Cardinality(S) \in Nat /\ Cardinality(S) <= b - a + 1
<1>1. IsFiniteSet(a..b) /\ Cardinality(a..b) = IF a > b THEN 0 ELSE b - a + 1
  BY FS_Interval
<1>2. IsFiniteSet(S) /\ Cardinality(S) <= Cardinality(a..b)
  BY <1>1, FS_Subset
<1>3. QED
  BY <1>1, <1>2, FS_CardinalityType

\* A finite set that holds all from a to b is at least as large.
LEMMA AtLeastRange ==
    ASSUME NEW a \in Nat, NEW b \in Nat, a <= b + 1, NEW S, IsFiniteSet(S), a..b \subseteq S
    PROVE  Cardinality(S) >= b - a + 1
<1>1. IsFiniteSet(a..b) /\ Cardinality(a..b) = IF a > b THEN 0 ELSE b - a + 1
  BY FS_Interval
<1>2. Cardinality(a..b) <= Cardinality(S)
  BY FS_Subset
<1>3. QED
  BY <1>1, <1>2, FS_CardinalityType

-----------------------------------------------------------------------------
\* A set that holds 0 and with a number the next holds all.
LEMMA InductionOnNaturals ==
    ASSUME NEW T, 0 \in T, \A k \in Nat : k \in T => k + 1 \in T
    PROVE  \A k \in Nat : k \in T
<1> DEFINE U == {k \in Nat : k \notin T}
<1> SUFFICES ASSUME U # {} PROVE FALSE
  OBVIOUS
<1>1. PICK x \in U : \A y \in U : x <= y
  BY LeastOfNaturals
<1>2. x # 0
  BY <1>1
<1>3. x - 1 \in Nat /\ x - 1 \notin U
  BY <1>1, <1>2
<1>4. x - 1 \in T
  BY <1>3
<1>5. x \in T
  BY <1>3, <1>4
<1>6. QED
  BY <1>1, <1>5

\* The same up to a bound.
LEMMA InductionOnPrefixes ==
    ASSUME NEW n \in Nat, NEW T, 0 \in T,
           \A k \in 1..n : k - 1 \in T => k \in T
    PROVE  \A k \in 0..n : k \in T
<1> DEFINE U == {k \in Nat : k <= n => k \in T}
<1>1. 0 \in U
  OBVIOUS
<1>2. ASSUME NEW k \in Nat, k \in U PROVE k + 1 \in U
  <2>1. SUFFICES ASSUME k + 1 <= n PROVE k + 1 \in T
    OBVIOUS
  <2>2. k \in T /\ k + 1 \in 1..n /\ (k + 1) - 1 = k
    BY <1>2, <2>1
  <2>3. QED
    BY <2>2
<1>3. \A k \in Nat : k \in U
  <2> HIDE DEF U
  <2>1. QED
    BY <1>1, <1>2, InductionOnNaturals
<1>4. QED
  BY <1>3

\* The values of a function stay in the set its steps do not leave.
LEMMA PrefixesStayIn ==
    ASSUME NEW n \in Nat, NEW S, NEW f, f[0] \in S,
           \A k \in 1..n : f[k - 1] \in S => f[k] \in S
    PROVE  \A k \in 0..n : f[k] \in S
<1> DEFINE T == {k \in 0..n : f[k] \in S}
<1>1. 0 \in T
  OBVIOUS
<1>2. \A k \in 1..n : k - 1 \in T => k \in T
  OBVIOUS
<1>3. \A k \in 0..n : k \in T
  <2> HIDE DEF T
  <2>1. QED
    BY <1>1, <1>2, InductionOnPrefixes
<1>4. QED
  BY <1>3

\* There is a function that takes the steps it is told.
Takes(g, n, S, base, F) ==
    g \in [0..n -> S] /\ g[0] = base /\ \A k \in 1..n : g[k] = F[k][g[k - 1]]

\* Whatever the steps are.
LEMMA StepByStep ==
    ASSUME NEW S, NEW base \in S, NEW F \in [Nat -> [S -> S]], NEW n \in Nat
    PROVE  \E g : Takes(g, n, S, base, F)
<1> DEFINE Good(m) == \E g \in [0..m -> S] :
                          g[0] = base /\ \A k \in 1..m : g[k] = F[k][g[k - 1]]
           T == {m \in Nat : Good(m)}
<1>1. 0 \in T
  <2> DEFINE g == [k \in 0..0 |-> base]
  <2>1. g \in [0..0 -> S] /\ g[0] = base
    OBVIOUS
  <2>2. \A k \in 1..0 : g[k] = F[k][g[k - 1]]
    OBVIOUS
  <2> HIDE DEF g
  <2>3. Good(0)
    BY <2>1, <2>2
  <2>4. QED
    BY <2>3
<1>2. ASSUME NEW m \in Nat, m \in T PROVE m + 1 \in T
  <2>1. PICK g \in [0..m -> S] : g[0] = base /\ \A k \in 1..m : g[k] = F[k][g[k - 1]]
    BY <1>2
  <2> DEFINE h == [k \in 0..(m + 1) |-> IF k = m + 1 THEN F[m + 1][g[m]] ELSE g[k]]
  <2>2. h \in [0..(m + 1) -> S]
    <3>1. m \in 0..m /\ g[m] \in S
      BY <2>1
    <3>2. F[m + 1][g[m]] \in S
      BY <3>1
    <3>3. QED
      BY <2>1, <3>2
  <2>3. h[0] = base
    BY <2>1
  <2>4. ASSUME NEW k \in 1..(m + 1) PROVE h[k] = F[k][h[k - 1]]
    <3>1. CASE k = m + 1
      <4>1. h[k] = F[m + 1][g[m]] /\ h[m] = g[m] /\ k - 1 = m
        BY <3>1
      <4>2. QED
        BY <3>1, <4>1
    <3>2. CASE k \in 1..m
      <4>1. h[k] = g[k] /\ h[k - 1] = g[k - 1]
        BY <3>2
      <4>2. QED
        BY <2>1, <3>2, <4>1
    <3>3. QED
      BY <3>1, <3>2
  <2> HIDE DEF h
  <2>5. Good(m + 1)
    BY <2>2, <2>3, <2>4
  <2>6. QED
    BY <2>5
<1>3. QED
  <2>1. \A m \in Nat : m \in T
    <3> HIDE DEF T
    <3>1. QED
      BY <1>1, <1>2, InductionOnNaturals
  <2>2. QED
    BY <2>1 DEF Takes

\* The same for a sum.
LEMMA AddedUp ==
    ASSUME NEW n \in Nat, NEW d \in [1..n -> Nat]
    PROVE  \E g \in [0..n -> Nat] : g[0] = 0 /\ \A k \in 1..n : g[k] = g[k - 1] + d[k]
<1> DEFINE F == [k \in Nat |-> [t \in Nat |-> IF k \in 1..n THEN t + d[k] ELSE t]]
<1>1. F \in [Nat -> [Nat -> Nat]]
  OBVIOUS
<1>2. PICK g : Takes(g, n, Nat, 0, F)
  <2> HIDE DEF F
  <2>1. QED
    BY <1>1, StepByStep
<1>3. g \in [0..n -> Nat] /\ g[0] = 0 /\ \A k \in 1..n : g[k] = F[k][g[k - 1]]
  BY <1>2 DEF Takes
<1>4. ASSUME NEW k \in 1..n PROVE g[k] = g[k - 1] + d[k]
  <2>1. k - 1 \in 0..n /\ g[k - 1] \in Nat
    BY <1>3
  <2>2. F[k][g[k - 1]] = g[k - 1] + d[k]
    BY <2>1
  <2>3. QED
    BY <1>3, <2>2
<1>5. QED
  BY <1>3, <1>4
=============================================================================
