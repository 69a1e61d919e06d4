------------------------ MODULE ArticleIngestProofs ------------------------
(***************************************************************************)
(* Proofs about ArticleIngest, for batches of any length, any documents    *)
(* and any number of calls.                                                *)
(*                                                                         *)
(* The union-find of a batch is followed candidate by candidate; what it   *)
(* leaves, the groups and their representatives, is all that the proofs    *)
(* about the calls need to know of it.                                     *)
(***************************************************************************)
EXTENDS ArticleIngest, PrefixInduction

-----------------------------------------------------------------------------
\* The last index before k that is in a set, or k.
LEMMA LastOfEarlier ==
    ASSUME NEW k \in Nat, NEW earlier, earlier \subseteq 1..(k - 1), earlier # {}
    PROVE  Max(earlier) \in earlier
<1> DEFINE T == {k - x : x \in earlier}
<1>1. T \subseteq Nat /\ T # {}
  <2>1. \A x \in earlier : x \in 1..(k - 1)
    OBVIOUS
  <2>2. \A x \in earlier : k - x \in Nat
    BY <2>1
  <2>3. QED
    BY <2>2
<1>2. PICK t \in T : \A y \in T : t <= y
  BY <1>1, LeastOfNaturals
<1>3. PICK x \in earlier : t = k - x
  BY <1>2
<1>4. ASSUME NEW y \in earlier PROVE x >= y
  <2>1. k - y \in T
    OBVIOUS
  <2>2. k - x <= k - y
    BY <1>2, <1>3, <2>1
  <2>3. x \in Nat /\ y \in Nat
    BY <1>3
  <2>4. QED
    BY <2>2, <2>3
<1>5. \E z \in earlier : \A y \in earlier : z >= y
  BY <1>3, <1>4
<1>6. QED
  BY <1>5, Zenon DEF Max

\* Of two numbers, Min is the smaller and Max the other.
LEMMA MinAndMax ==
    ASSUME NEW a \in Nat, NEW b \in Nat
    PROVE  \/ a <= b /\ Min({a, b}) = a /\ Max({a, b}) = b
           \/ b <= a /\ Min({a, b}) = b /\ Max({a, b}) = a
<1>1. Min({a, b}) \in {a, b} /\ Min({a, b}) <= a /\ Min({a, b}) <= b
  <2>1. {a, b} \subseteq Nat /\ {a, b} # {}
    OBVIOUS
  <2>2. QED
    BY <2>1, MinIsLeast
<1>2. Max({a, b}) \in {a, b} /\ Max({a, b}) >= a /\ Max({a, b}) >= b
  <2>1. \E x \in {a, b} : \A y \in {a, b} : x >= y
    <3>1. CASE a >= b
      BY <3>1
    <3>2. CASE ~(a >= b)
      BY <3>2
    <3>3. QED
      BY <3>1, <3>2
  <2>2. Max({a, b}) \in {a, b} /\ \A y \in {a, b} : Max({a, b}) >= y
    BY <2>1, Zenon DEF Max
  <2>3. QED
    BY <2>2
<1>3. QED
  BY <1>1, <1>2

-----------------------------------------------------------------------------
\* Roots that are roots of themselves, and no later than what they are the root of.
IsForest(root, n) ==
    /\ root \in [1..n -> 1..n]
    /\ \A i \in 1..n : root[i] <= i /\ root[root[i]] = root[i]

\* Uniting leaves a forest, joins the two, parts no others, and moves nothing to a later root
\* than the two have.
Joined(root, u, a, b, n) ==
    /\ IsForest(u, n)
    /\ u[a] = u[b]
    /\ \A i, j \in 1..n : root[i] = root[j] => u[i] = u[j]
    /\ \A i \in 1..n : u[i] = root[i]
                       \/ (root[i] \in {root[a], root[b]} /\ u[i] \in {root[a], root[b]})

\* Unite does that.
LEMMA UniteJoins ==
    ASSUME NEW n \in Nat, NEW root, IsForest(root, n), NEW a \in 1..n, NEW b \in 1..n
    PROVE  Joined(root, Unite(root, a, b), a, b, n)
<1> DEFINE winner == Min({root[a], root[b]})
           loser == Max({root[a], root[b]})
           u == Unite(root, a, b)
<1>0. root \in [1..n -> 1..n] /\ DOMAIN root = 1..n
      /\ \A i \in 1..n : root[i] \in 1..n /\ root[i] <= i /\ root[root[i]] = root[i]
  BY DEF IsForest
<1>1. /\ winner \in 1..n /\ loser \in 1..n /\ winner <= loser
      /\ \/ winner = root[a] /\ loser = root[b]
         \/ winner = root[b] /\ loser = root[a]
  <2>1. root[a] \in Nat /\ root[b] \in Nat
    BY <1>0
  <2>2. QED
    BY <1>0, <2>1, MinAndMax
<1>2. root[winner] = winner /\ root[loser] = loser
  BY <1>0, <1>1
<1>3. u = [i \in 1..n |-> IF root[i] = loser THEN winner ELSE root[i]]
  BY <1>0 DEF Unite
<1> HIDE DEF winner, loser, u
<1>4. \A i \in 1..n : u[i] = IF root[i] = loser THEN winner ELSE root[i]
  BY <1>3
<1>5. u \in [1..n -> 1..n]
  BY <1>0, <1>1, <1>3
<1>6. ASSUME NEW i \in 1..n PROVE u[i] <= i /\ u[u[i]] = u[i]
  <2>1. CASE root[i] = loser
    <3>1. u[i] = winner /\ loser <= i
      BY <1>0, <1>4, <2>1
    <3>2. winner <= i
      BY <1>1, <3>1
    <3>3. u[winner] = winner
      BY <1>1, <1>2, <1>4
    <3>4. QED
      BY <3>1, <3>2, <3>3
  <2>2. CASE root[i] # loser
    <3>1. u[i] = root[i] /\ root[i] \in 1..n /\ root[root[i]] = root[i]
      BY <1>0, <1>4, <2>2
    <3>2. u[root[i]] = root[i]
      BY <1>4, <2>2, <3>1
    <3>3. QED
      BY <1>0, <3>1, <3>2
  <2>3. QED
    BY <2>1, <2>2
<1>7. IsForest(u, n)
  BY <1>5, <1>6 DEF IsForest
<1>8. u[a] = u[b]
  BY <1>1, <1>4
<1>9. \A i, j \in 1..n : root[i] = root[j] => u[i] = u[j]
  BY <1>4
<1>10. \A i \in 1..n : u[i] = root[i]
                       \/ (root[i] \in {root[a], root[b]} /\ u[i] \in {root[a], root[b]})
  BY <1>1, <1>4
<1>11. QED
  BY <1>7, <1>8, <1>9, <1>10 DEF u, Joined

\* A set in which with a candidate is what it shares a key with.
ClosedIn(cs, S) == S \in SUBSET DOMAIN cs /\ Closed(cs, S)

\* What is so after the first k candidates of a batch are absorbed: those have the root of
\* what they share a key with, the others are by themselves, and no closed set is left.
Absorbed(root, cs, k) ==
    /\ IsForest(root, Len(cs))
    /\ \A i \in 1..Len(cs) : i > k => root[i] = i
    /\ \A i, j \in 1..Len(cs) : i <= k /\ j <= k /\ SameArticle(cs[i], cs[j]) => root[i] = root[j]
    /\ \A S \in SUBSET DOMAIN cs : Closed(cs, S) => \A i \in 1..Len(cs) : i \in S <=> root[i] \in S

\* Uniting two that share a key leaves no closed set.
LEMMA UniteLeavesNone ==
    ASSUME NEW cs, NEW n \in Nat, n = Len(cs), DOMAIN cs = 1..n,
           NEW root, IsForest(root, n), NEW a \in 1..n, NEW b \in 1..n,
           a = b \/ SameArticle(cs[a], cs[b]),
           NEW S \in SUBSET DOMAIN cs, Closed(cs, S), \A i \in 1..n : i \in S <=> root[i] \in S
    PROVE  \A i \in 1..n : i \in S <=> Unite(root, a, b)[i] \in S
<1>1. a \in S <=> b \in S
  BY DEF Closed, SameArticle, SameUrl, SameHash
<1>2. root[a] \in S <=> root[b] \in S
  BY <1>1
<1>3. ASSUME NEW i \in 1..n PROVE i \in S <=> Unite(root, a, b)[i] \in S
  <2>1. Unite(root, a, b)[i] = root[i]
        \/ (root[i] \in {root[a], root[b]} /\ Unite(root, a, b)[i] \in {root[a], root[b]})
    BY UniteJoins DEF Joined
  <2>2. QED
    BY <1>2, <2>1
<1>4. QED
  BY <1>3

\* One candidate more.
LEMMA AbsorbOneMore ==
    ASSUME NEW cs, NEW n \in Nat, n = Len(cs), DOMAIN cs = 1..n,
           NEW root, NEW k \in 1..n, Absorbed(root, cs, k - 1)
    PROVE  Absorbed(Absorb(root, cs, k), cs, k)
<1> DEFINE byUrls == {j \in 1..(k - 1) : SameUrl(cs[j], cs[k])}
           byHashes == {j \in 1..(k - 1) : SameHash(cs[j], cs[k])}
           a == LastWith(cs, k, SameUrl)
           b == LastWith(cs, k, SameHash)
           u == Unite(root, k, a)
           v == Unite(u, k, b)
<1>1. a = (IF byUrls = {} THEN k ELSE Max(byUrls)) /\ b = (IF byHashes = {} THEN k ELSE Max(byHashes))
  BY Zenon DEF LastWith
<1>2. /\ byUrls # {} => Max(byUrls) \in byUrls
      /\ byHashes # {} => Max(byHashes) \in byHashes
  <2>1. byUrls \subseteq 1..(k - 1) /\ byHashes \subseteq 1..(k - 1) /\ k \in Nat
    OBVIOUS
  <2> HIDE DEF byUrls, byHashes
  <2>2. QED
    BY <2>1, LastOfEarlier
<1>3. v = Absorb(root, cs, k)
  BY Zenon DEF Absorb
<1> HIDE DEF a, b, u, v
<1>4. /\ a \in 1..k /\ (a # k => SameUrl(cs[a], cs[k]))
      /\ (\E j \in 1..(k - 1) : SameUrl(cs[j], cs[k])) => a < k
  <2>1. byUrls \subseteq 1..(k - 1) /\ \A j \in byUrls : SameUrl(cs[j], cs[k])
    OBVIOUS
  <2>2. (\E j \in 1..(k - 1) : SameUrl(cs[j], cs[k])) <=> byUrls # {}
    OBVIOUS
  <2> HIDE DEF byUrls
  <2>3. CASE byUrls = {}
    BY <1>1, <2>2, <2>3
  <2>4. CASE byUrls # {}
    <3>1. a \in byUrls
      BY <1>1, <1>2, <2>4
    <3>2. QED
      BY <2>1, <3>1
  <2>5. QED
    BY <2>3, <2>4
<1>5. /\ b \in 1..k /\ (b # k => SameHash(cs[b], cs[k]))
      /\ (\E j \in 1..(k - 1) : SameHash(cs[j], cs[k])) => b < k
  <2>1. byHashes \subseteq 1..(k - 1) /\ \A j \in byHashes : SameHash(cs[j], cs[k])
    OBVIOUS
  <2>2. (\E j \in 1..(k - 1) : SameHash(cs[j], cs[k])) <=> byHashes # {}
    OBVIOUS
  <2> HIDE DEF byHashes
  <2>3. CASE byHashes = {}
    BY <1>1, <2>2, <2>3
  <2>4. CASE byHashes # {}
    <3>1. b \in byHashes
      BY <1>1, <1>2, <2>4
    <3>2. QED
      BY <2>1, <3>1
  <2>5. QED
    BY <2>3, <2>4
<1>6. IsForest(root, n)
  BY DEF Absorbed
<1>7. /\ IsForest(u, n) /\ u[k] = u[a] /\ (\A i, j \in 1..n : root[i] = root[j] => u[i] = u[j])
      /\ \A i \in 1..n : u[i] = root[i] \/ root[i] \in {root[k], root[a]}
  <2>1. a \in 1..n /\ k \in 1..n
    BY <1>4
  <2>2. Joined(root, u, k, a, n)
    BY <1>6, <2>1, UniteJoins DEF u
  <2>3. QED
    BY <2>2 DEF Joined
<1>8. /\ IsForest(v, n) /\ v[k] = v[b] /\ (\A i, j \in 1..n : u[i] = u[j] => v[i] = v[j])
      /\ \A i \in 1..n : v[i] = u[i] \/ u[i] \in {u[k], u[b]}
  <2>1. b \in 1..n /\ k \in 1..n
    BY <1>5
  <2>2. Joined(u, v, k, b, n)
    BY <1>7, <2>1, UniteJoins DEF v
  <2>3. QED
    BY <2>2 DEF Joined
<1>9. ASSUME NEW i \in 1..n, i > k PROVE v[i] = i
  <2>1. root[i] = i
    BY <1>9 DEF Absorbed
  <2>2. root[k] <= k /\ root[a] <= a /\ root[k] \in Nat /\ root[a] \in Nat
    BY <1>4, <1>6 DEF IsForest
  <2>3. u[i] = i
    BY <1>4, <1>7, <1>9, <2>1, <2>2
  <2>4. u[k] <= k /\ u[b] <= b /\ u[k] \in Nat /\ u[b] \in Nat
    BY <1>5, <1>7 DEF IsForest
  <2>5. QED
    BY <1>5, <1>8, <1>9, <2>3, <2>4
<1>10. ASSUME NEW i \in 1..n, NEW j \in 1..n, i < k, j < k, SameArticle(cs[i], cs[j])
       PROVE  root[i] = root[j]
  <2>1. i <= k - 1 /\ j <= k - 1
    BY <1>10
  <2>2. QED
    BY <1>10, <2>1 DEF Absorbed
<1>11. ASSUME NEW j \in 1..n, j < k, SameArticle(cs[j], cs[k]) PROVE v[j] = v[k]
  <2>1. CASE SameUrl(cs[j], cs[k])
    <3>1. a < k /\ a \in 1..n /\ SameUrl(cs[a], cs[k])
      BY <1>4, <1>11, <2>1
    <3>2. root[a] = root[j]
      BY <1>10, <1>11, <2>1, <3>1 DEF SameArticle, SameUrl
    <3>3. QED
      BY <1>7, <1>8, <3>1, <3>2
  <2>2. CASE SameHash(cs[j], cs[k])
    <3>1. b < k /\ b \in 1..n /\ SameHash(cs[b], cs[k])
      BY <1>5, <1>11, <2>2
    <3>2. root[b] = root[j]
      BY <1>10, <1>11, <2>2, <3>1 DEF SameArticle, SameHash
    <3>3. QED
      BY <1>7, <1>8, <3>1, <3>2
  <2>3. QED
    BY <1>11, <2>1, <2>2 DEF SameArticle
<1>12. ASSUME NEW i \in 1..n, NEW j \in 1..n, i <= k, j <= k, SameArticle(cs[i], cs[j])
       PROVE  v[i] = v[j]
  <2>1. CASE i < k /\ j < k
    BY <1>7, <1>8, <1>10, <1>12, <2>1
  <2>2. CASE i < k /\ j = k
    BY <1>11, <1>12, <2>2
  <2>3. CASE i = k /\ j < k
    BY <1>11, <1>12, <2>3 DEF SameArticle, SameUrl, SameHash
  <2>4. QED
    BY <1>12, <2>1, <2>2, <2>3
<1>13. ASSUME NEW S \in SUBSET DOMAIN cs, Closed(cs, S)
       PROVE  \A i \in 1..n : i \in S <=> v[i] \in S
  <2>1. \A i \in 1..n : i \in S <=> root[i] \in S
    BY <1>13 DEF Absorbed
  <2>2. k = a \/ SameArticle(cs[k], cs[a])
    BY <1>4 DEF SameArticle, SameUrl
  <2>3. \A i \in 1..n : i \in S <=> u[i] \in S
    BY <1>4, <1>6, <1>13, <2>1, <2>2, UniteLeavesNone DEF u
  <2>4. k = b \/ SameArticle(cs[k], cs[b])
    BY <1>5 DEF SameArticle, SameHash
  <2>5. QED
    BY <1>5, <1>7, <1>13, <2>3, <2>4, UniteLeavesNone DEF v
<1>14. Absorbed(v, cs, k)
  BY <1>8, <1>9, <1>12, <1>13 DEF Absorbed
<1>15. QED
  BY <1>3, <1>14
\* The whole batch.
LEMMA BatchIsAbsorbed ==
    ASSUME NEW cs, IsBatch(cs)
    PROVE  /\ Len(cs) \in Nat /\ DOMAIN cs = 1..Len(cs)
           /\ Absorbed(collapseInBatchDuplicates(cs), cs, Len(cs))
<1>0. PICK n \in Nat : n = Len(cs) /\ DOMAIN cs = 1..n
  BY DEF IsBatch
<1> DEFINE alone == [i \in DOMAIN cs |-> i]
           Defines(g) == g = [k \in 0..Len(cs) |-> IF k = 0 THEN alone ELSE Absorb(g[k - 1], cs, k)]
           after == CHOOSE g : Defines(g)
<1>1. PICK S : S = [1..n -> 1..n]
  OBVIOUS
<1>2. alone \in S /\ Absorbed(alone, cs, 0)
  <2>1. alone = [i \in 1..n |-> i] /\ \A i \in 1..n : alone[i] = i
    BY <1>0
  <2>2. IsForest(alone, n)
    BY <2>1 DEF IsForest
  <2> HIDE DEF alone
  <2>3. \A i, j \in 1..n : i <= 0 /\ j <= 0 /\ SameArticle(cs[i], cs[j]) => alone[i] = alone[j]
    OBVIOUS
  <2>4. Absorbed(alone, cs, 0)
    BY <1>0, <2>1, <2>2, <2>3 DEF Absorbed
  <2>5. QED
    BY <1>1, <2>2, <2>4 DEF IsForest
<1>3. ASSUME NEW root, NEW k \in 1..n, Absorbed(root, cs, k - 1)
      PROVE  Absorbed(Absorb(root, cs, k), cs, k) /\ Absorb(root, cs, k) \in S
  <2>1. Absorbed(Absorb(root, cs, k), cs, k)
    BY <1>0, <1>3, AbsorbOneMore
  <2>2. QED
    BY <1>0, <1>1, <2>1 DEF Absorbed, IsForest
<1> HIDE DEF alone
<1> DEFINE F == [k \in Nat |-> [r \in S |-> IF k \in 1..n /\ Absorbed(r, cs, k - 1)
                                             THEN Absorb(r, cs, k) ELSE r]]
<1>4. F \in [Nat -> [S -> S]]
  BY <1>3
<1> HIDE DEF F
<1>5. PICK g : Takes(g, n, S, alone, F)
  <2>1. alone \in S
    BY <1>2
  <2>2. QED
    BY <1>4, <2>1, StepByStep
<1>50. g \in [0..n -> S] /\ g[0] = alone /\ \A k \in 1..n : g[k] = F[k][g[k - 1]]
  BY <1>5 DEF Takes
<1>6. ASSUME NEW k \in 1..n, Absorbed(g[k - 1], cs, k - 1) PROVE g[k] = Absorb(g[k - 1], cs, k)
  <2>1. g[k - 1] \in S /\ k \in Nat
    <3>1. k - 1 \in 0..n /\ k \in Nat
      BY <1>0
    <3>2. QED
      BY <1>50, <3>1
  <2>2. F[k][g[k - 1]] = Absorb(g[k - 1], cs, k)
    BY <1>6, <2>1 DEF F
  <2>3. QED
    BY <1>50, <2>2
<1>7. \A k \in 0..n : Absorbed(g[k], cs, k)
  <2> DEFINE T == {k \in 0..n : Absorbed(g[k], cs, k)}
  <2>1. 0 \in T
    BY <1>0, <1>2, <1>50
  <2>2. ASSUME NEW k \in 1..n, k - 1 \in T PROVE k \in T
    <3>1. Absorbed(g[k - 1], cs, k - 1) /\ k \in 0..n
      BY <2>2
    <3>2. Absorbed(g[k], cs, k)
      BY <1>3, <1>6, <3>1
    <3>3. QED
      BY <3>1, <3>2
  <2>3. \A k \in 0..n : k \in T
    <3> HIDE DEF T
    <3>1. QED
      BY <1>0, <2>1, <2>2, InductionOnPrefixes
  <2>4. QED
    BY <2>3
<1>8. Defines(g)
  <2>1. g = [k \in 0..n |-> g[k]]
    BY <1>50
  <2>2. \A k \in 0..n : g[k] = IF k = 0 THEN alone ELSE Absorb(g[k - 1], cs, k)
    <3>1. ASSUME NEW k \in 1..n PROVE g[k] = Absorb(g[k - 1], cs, k)
      <4>1. k - 1 \in 0..n
        BY <1>0
      <4>2. QED
        BY <1>6, <1>7, <4>1
    <3>2. QED
      BY <1>50, <3>1
  <2>3. QED
    BY <1>0, <2>1, <2>2
<1>9. Defines(after)
  <2> HIDE DEF Defines
  <2>1. QED
    BY <1>8
<1>10. collapseInBatchDuplicates(cs) = after[Len(cs)]
  BY Zenon DEF collapseInBatchDuplicates, alone
<1> HIDE DEF after
<1>11. \A k \in 0..n : after[k] = IF k = 0 THEN alone ELSE Absorb(after[k - 1], cs, k)
  BY <1>0, <1>9
<1>12. \A k \in 0..n : Absorbed(after[k], cs, k)
  <2> DEFINE T == {k \in 0..n : Absorbed(after[k], cs, k)}
  <2>1. 0 \in T
    BY <1>0, <1>2, <1>11
  <2>2. ASSUME NEW k \in 1..n, k - 1 \in T PROVE k \in T
    <3>1. Absorbed(after[k - 1], cs, k - 1) /\ k \in 0..n /\ k # 0
      BY <2>2
    <3>2. after[k] = Absorb(after[k - 1], cs, k)
      BY <1>11, <3>1
    <3>3. Absorbed(after[k], cs, k)
      BY <1>3, <3>1, <3>2
    <3>4. QED
      BY <3>1, <3>3
  <2>3. \A k \in 0..n : k \in T
    <3> HIDE DEF T
    <3>1. QED
      BY <1>0, <2>1, <2>2, InductionOnPrefixes
  <2>4. QED
    BY <2>3
<1>13. n \in 0..n
  BY <1>0
<1>14. QED
  BY <1>0, <1>10, <1>12, <1>13

\* What the groups of a batch are: the root of a candidate is the earliest it is connected to.
LEMMA RootIsEarliestConnected ==
    ASSUME NEW cs, IsBatch(cs), NEW i \in DOMAIN cs
    PROVE  collapseInBatchDuplicates(cs)[i] = Min(Connected(cs, i))
<1> DEFINE root == collapseInBatchDuplicates(cs)
<1>0. PICK n \in Nat : n = Len(cs) /\ DOMAIN cs = 1..n
  BY BatchIsAbsorbed
<1>1. Absorbed(root, cs, n)
  BY <1>0, BatchIsAbsorbed
<1> HIDE DEF root
<1>2. /\ root \in [1..n -> 1..n] /\ i \in 1..n
      /\ \A j \in 1..n : root[j] <= j
      /\ \A j, k \in 1..n : SameArticle(cs[j], cs[k]) => root[j] = root[k]
      /\ \A S \in SUBSET DOMAIN cs : Closed(cs, S) => \A j \in 1..n : j \in S <=> root[j] \in S
  BY <1>0, <1>1 DEF Absorbed, IsForest
<1> DEFINE group == {j \in 1..n : root[j] = root[i]}
<1>3. group \in SUBSET DOMAIN cs /\ i \in group /\ Closed(cs, group)
  BY <1>0, <1>2 DEF Closed
<1>4. \A j \in Connected(cs, i) : j \in group
  <2> HIDE DEF group
  <2>1. QED
    BY <1>3 DEF Connected
<1>5. \A j \in Connected(cs, i) : j \in Nat /\ root[i] <= j
  BY <1>2, <1>4
<1>6. root[i] \in Connected(cs, i)
  BY <1>0, <1>2 DEF Connected
<1>7. Connected(cs, i) \subseteq Nat /\ Connected(cs, i) # {}
  BY <1>5, <1>6
<1>8. Min(Connected(cs, i)) \in Connected(cs, i) /\ Min(Connected(cs, i)) <= root[i]
  BY <1>6, <1>7, MinIsLeast
<1>9. root[i] <= Min(Connected(cs, i))
  BY <1>5, <1>8
<1>10. root[i] = Min(Connected(cs, i))
  BY <1>2, <1>5, <1>8, <1>9
<1>11. QED
  BY <1>10 DEF root
-----------------------------------------------------------------------------
\* A sequence over some set is one over its own elements.
LEMMA SequenceIsBatch ==
    ASSUME NEW C, NEW cs \in Seq(C)
    PROVE  IsBatch(cs)
<1>1. PICK n \in Nat : n = Len(cs)
  OBVIOUS
<1>2. cs \in [1..n -> Range(cs)]
  <2>1. cs = [i \in 1..n |-> cs[i]] /\ DOMAIN cs = 1..n
    BY <1>1
  <2>2. \A i \in 1..n : cs[i] \in Range(cs)
    BY <2>1 DEF Range
  <2>3. QED
    BY <2>1, <2>2
<1>3. QED
  BY <1>2 DEF IsBatch

\* All members of a sequence have the two keys and nothing else.
HasKeys(cs) == \A i \in DOMAIN cs : DOMAIN cs[i] = Keys

\* buildCandidates makes a batch of any list of entries.
LEMMA BuiltIsBatch ==
    ASSUME NEW root, NEW entries, IsBatch(entries)
    PROVE  IsBatch(buildCandidates(root, entries)) /\ HasKeys(buildCandidates(root, entries))
<1>0. PICK n \in Nat : n = Len(entries)
  BY DEF IsBatch
<1> DEFINE raw(k) == Extract(root, entries[k])
           C == {Candidate(raw(k)) : k \in 1..n}
           Defines(f) == f = [k \in 0..Len(entries) |->
                                 IF k = 0 THEN <<>> ELSE WithEntry(f[k - 1], Extract(root, entries[k]))]
           built == CHOOSE f : Defines(f)
           F == [k \in Nat |-> [s \in Seq(C) |-> IF k \in 1..n THEN WithEntry(s, raw(k)) ELSE s]]
<1>1. ASSUME NEW k \in 1..n, NEW s \in Seq(C) PROVE WithEntry(s, raw(k)) \in Seq(C)
  <2>1. Candidate(raw(k)) \in C
    OBVIOUS
  <2> HIDE DEF C, raw
  <2>2. QED
    BY <2>1 DEF WithEntry
<1>13. \A x \in C : DOMAIN x = Keys
  BY DEF Candidate, Keys
<1> HIDE DEF C
<1>2. F \in [Nat -> [Seq(C) -> Seq(C)]]
  BY <1>1
<1>3. PICK g : Takes(g, n, Seq(C), <<>>, F)
  <2>1. <<>> \in Seq(C)
    OBVIOUS
  <2> HIDE DEF F
  <2>2. QED
    BY <1>2, <2>1, StepByStep
<1>4. g \in [0..n -> Seq(C)] /\ g[0] = <<>> /\ \A k \in 1..n : g[k] = F[k][g[k - 1]]
  BY <1>3 DEF Takes
<1>5. ASSUME NEW k \in 1..n PROVE g[k] = WithEntry(g[k - 1], Extract(root, entries[k]))
  <2>1. k - 1 \in 0..n /\ k \in Nat
    OBVIOUS
  <2>2. g[k - 1] \in Seq(C)
    BY <1>4, <2>1
  <2>3. F[k][g[k - 1]] = WithEntry(g[k - 1], raw(k))
    BY <2>1, <2>2
  <2>4. QED
    BY <1>4, <2>3
<1> HIDE DEF F
<1>6. Defines(g)
  <2>1. g = [k \in 0..n |-> g[k]]
    BY <1>4
  <2>2. \A k \in 0..n : g[k] = IF k = 0 THEN <<>> ELSE WithEntry(g[k - 1], Extract(root, entries[k]))
    BY <1>4, <1>5
  <2>3. QED
    BY <1>0, <2>1, <2>2
<1>7. Defines(built)
  <2> HIDE DEF Defines
  <2>1. QED
    BY <1>6
<1>8. buildCandidates(root, entries) = built[Len(entries)]
  BY Zenon DEF buildCandidates
<1> HIDE DEF built
<1>9. \A k \in 0..n : built[k] = IF k = 0 THEN <<>> ELSE WithEntry(built[k - 1], Extract(root, entries[k]))
  BY <1>0, <1>7
<1> HIDE DEF Defines
<1>10. \A k \in 0..n : built[k] \in Seq(C)
  <2>1. built[0] \in Seq(C)
    <3>1. 0 \in 0..n
      OBVIOUS
    <3>2. built[0] = <<>>
      BY <1>9, <3>1
    <3>3. QED
      BY <3>2
  <2>2. \A k \in 1..n : built[k - 1] \in Seq(C) => built[k] \in Seq(C)
    <3>1. \A k \in 1..n : k \in 0..n /\ k # 0
      OBVIOUS
    <3>2. \A k \in 1..n : built[k] = WithEntry(built[k - 1], raw(k))
      BY <1>9, <3>1
    <3>3. QED
      BY <1>1, <3>2
  <2>3. QED
    BY <2>1, <2>2, PrefixesStayIn
<1>11. built[n] \in Seq(C)
  BY <1>10
<1>12. IsBatch(buildCandidates(root, entries))
  BY <1>0, <1>8, <1>11, SequenceIsBatch
<1>14. HasKeys(built[n])
  <2>1. \A i \in DOMAIN built[n] : built[n][i] \in C
    BY <1>11
  <2>2. QED
    BY <1>13, <2>1 DEF HasKeys
<1>15. QED
  BY <1>0, <1>8, <1>12, <1>14

\* So parseFeed makes a batch of any document, and none of one it fails for.
LEMMA ParsedIsBatch ==
    ASSUME NEW d, IsBatch(d.entries)
    PROVE  IsBatch(parseFeed(d).candidates) /\ HasKeys(parseFeed(d).candidates)
<1>1. IsBatch(<<>>) /\ HasKeys(<<>>)
  BY DEF IsBatch, HasKeys, Range
<1>2. IsBatch(buildCandidates(d.root, d.entries)) /\ HasKeys(buildCandidates(d.root, d.entries))
  BY BuiltIsBatch
<1>3. parseFeed(d).candidates \in {<<>>, buildCandidates(d.root, d.entries)}
  BY DEF parseFeed, parseJsonFeedBody, parseXmlFeedBody, Built, Failure
<1>4. QED
  BY <1>1, <1>2, <1>3

-----------------------------------------------------------------------------
\* The group of a candidate has a member that one of some rows is the same article as.
Represented(cs, root, i, rows) ==
    \E j \in DOMAIN cs : root[j] = root[i] /\ \E row \in rows : SameArticle(cs[j], row)

\* The parts of a call.
CallFields == {"pc", "candidates", "root", "index", "matches", "inserted", "again"}

\* The locals of a call.
CallTypeOK(r) ==
    /\ DOMAIN r = CallFields
    /\ r.pc \in {"idle", "match", "persist", "lookup", "done", "failed"}
    /\ IsBatch(r.candidates)
    /\ r.root = collapseInBatchDuplicates(r.candidates)
    /\ r.index \in 1..(Len(r.candidates) + 1)
    /\ r.inserted \subseteq {i \in DOMAIN r.candidates : r.root[i] = i /\ i < r.index}
    /\ r.again \in BOOLEAN

\* Where a call is: the representatives before its index are settled.
CallIsAtItsPlace(r, rows) ==
    /\ r.pc = "match" => r.index = 1
    /\ r.pc = "lookup" => r.index \in DOMAIN r.candidates
    /\ r.pc = "done" => r.index \notin DOMAIN r.candidates
    /\ r.pc \in {"persist", "lookup", "done"} =>
           \A i \in DOMAIN r.candidates :
               r.root[i] = i /\ i < r.index => Represented(r.candidates, r.root, i, rows)

\* What a call knows of the table: rows that are there, and, of a batch that has been stored
\* before, a row for each group.
CallKnows(r, rows) ==
    /\ r.matches \subseteq rows
    /\ \A i \in r.inserted : r.candidates[i] \in rows
    /\ r.again => /\ r.inserted = {}
                  /\ \A i \in DOMAIN r.candidates : Represented(r.candidates, r.root, i, r.matches)

\* All that holds of one call by itself.
CallOK(r, rows) == CallTypeOK(r) /\ CallIsAtItsPlace(r, rows) /\ CallKnows(r, rows)

\* A batch that a call has been completed for has a row for each of its groups.
IsStored(cs, rows) ==
    \A i \in DOMAIN cs : Represented(cs, collapseInBatchDuplicates(cs), i, rows)

\* Between its query and its end.
Active(r) == r.pc \in {"persist", "lookup"}

\* A row that one of its candidates shares a key with was there when the call asked, or is its own.
KnowsAll(r, rows) ==
    \A row \in rows : \A j \in DOMAIN r.candidates :
        SameArticle(r.candidates[j], row) => row \in r.matches \/ \E i \in r.inserted : row = r.candidates[i]

\* No two rows are the same article.
NoTwoAlike(rows) == \A a, b \in rows : a # b => ~SameArticle(a, b)

\* As long as no two calls ran side by side.
OneByOne ==
    /\ NoTwoAlike(articles)
    /\ \A c, o \in Calls : Active(call[c]) /\ Active(call[o]) => c = o
    /\ \A c \in Calls : Active(call[c]) => KnowsAll(call[c], articles)

\* The inductive invariant.
IngestInv ==
    /\ made \in 0..MaxCalls
    /\ overlapped \in BOOLEAN
    /\ DOMAIN call = Calls
    /\ \A c \in Calls : CallOK(call[c], articles)
    /\ \A cs \in completed : IsStored(cs, articles)
    /\ ~overlapped => OneByOne
-----------------------------------------------------------------------------
\* Two that share a key have the same root.
LEMMA SameArticleSameRoot ==
    ASSUME NEW cs, IsBatch(cs)
    PROVE  /\ Len(cs) \in Nat /\ DOMAIN cs = 1..Len(cs)
           /\ DOMAIN collapseInBatchDuplicates(cs) = DOMAIN cs
           /\ \A i \in DOMAIN cs :
                /\ collapseInBatchDuplicates(cs)[i] \in DOMAIN cs
                /\ collapseInBatchDuplicates(cs)[i] <= i
                /\ collapseInBatchDuplicates(cs)[collapseInBatchDuplicates(cs)[i]] =
                       collapseInBatchDuplicates(cs)[i]
           /\ \A i, j \in DOMAIN cs : SameArticle(cs[i], cs[j]) =>
                  collapseInBatchDuplicates(cs)[i] = collapseInBatchDuplicates(cs)[j]
<1> DEFINE root == collapseInBatchDuplicates(cs)
<1>1. PICK n \in Nat : n = Len(cs) /\ DOMAIN cs = 1..n
  BY BatchIsAbsorbed
<1>2. Absorbed(root, cs, n)
  BY <1>1, BatchIsAbsorbed
<1> HIDE DEF root
<1>3. IsForest(root, n) /\ \A i, j \in 1..n : SameArticle(cs[i], cs[j]) => root[i] = root[j]
  BY <1>1, <1>2 DEF Absorbed
<1>4. root \in [1..n -> 1..n] /\ \A i \in 1..n : root[i] <= i /\ root[root[i]] = root[i]
  BY <1>3 DEF IsForest
<1>5. QED
  BY <1>1, <1>3, <1>4 DEF root

\* The empty batch.
LEMMA NothingToCollapse == IsBatch(<<>>) /\ collapseInBatchDuplicates(<<>>) = <<>>
<1>1. IsBatch(<<>>)
  BY DEF IsBatch, Range
<1>2. DOMAIN collapseInBatchDuplicates(<<>>) = DOMAIN <<>> /\ DOMAIN <<>> = 1..0
  BY <1>1, SameArticleSameRoot
<1>3. Absorbed(collapseInBatchDuplicates(<<>>), <<>>, Len(<<>>)) /\ Len(<<>>) = 0
  BY <1>1, BatchIsAbsorbed
<1>4. collapseInBatchDuplicates(<<>>) \in [1..0 -> 1..0]
  BY <1>3 DEF Absorbed, IsForest
<1>5. QED
  BY <1>1, <1>4

\* More rows represent as much.
LEMMA MoreRowsRepresent ==
    ASSUME NEW cs, NEW root, NEW i, NEW rows, NEW more, rows \subseteq more,
           Represented(cs, root, i, rows)
    PROVE  Represented(cs, root, i, more)
BY DEF Represented

\* What is known of a call stays so when others add rows.
LEMMA MoreRowsKeepCallOK ==
    ASSUME NEW r, NEW rows, NEW more, rows \subseteq more, CallOK(r, rows)
    PROVE  CallOK(r, more)
<1>1. CallIsAtItsPlace(r, more)
  BY MoreRowsRepresent DEF CallOK, CallIsAtItsPlace
<1>2. CallKnows(r, more)
  BY DEF CallOK, CallKnows
<1>3. QED
  BY <1>1, <1>2 DEF CallOK

\* A call that begins.
LEMMA FreshCallIsOK ==
    ASSUME NEW cs, IsBatch(cs), NEW rows
    PROVE  LET r == [NoCall EXCEPT !.pc = "match", !.candidates = cs,
                                   !.root = collapseInBatchDuplicates(cs)]
           IN  CallOK(r, rows) /\ ~Active(r)
<1> DEFINE r == [NoCall EXCEPT !.pc = "match", !.candidates = cs,
                               !.root = collapseInBatchDuplicates(cs)]
<1>1. /\ DOMAIN r = CallFields /\ r.pc = "match" /\ r.candidates = cs
      /\ r.root = collapseInBatchDuplicates(cs) /\ r.index = 1 /\ r.matches = {}
      /\ r.inserted = {} /\ r.again = FALSE
  BY DEF NoCall, CallFields
<1>2. 1 \in 1..(Len(cs) + 1)
  BY SameArticleSameRoot
<1> HIDE DEF r
<1>3. CallTypeOK(r)
  BY <1>1, <1>2 DEF CallTypeOK
<1>4. CallIsAtItsPlace(r, rows) /\ CallKnows(r, rows) /\ ~Active(r)
  BY <1>1 DEF CallIsAtItsPlace, CallKnows, Active
<1>5. QED
  BY <1>3, <1>4 DEF CallOK, r

\* A call that ends, or fails, without having reached anything new.
LEMMA EndedCallIsOK ==
    ASSUME NEW r, NEW rows, CallOK(r, rows),
           NEW pc, pc = "failed" \/ (pc = "done" /\ r.pc = "persist" /\ r.index \notin DOMAIN r.candidates)
    PROVE  CallOK([r EXCEPT !.pc = pc], rows) /\ ~Active([r EXCEPT !.pc = pc])
<1> DEFINE e == [r EXCEPT !.pc = pc]
<1>1. /\ DOMAIN e = CallFields /\ e.pc = pc /\ e.candidates = r.candidates /\ e.root = r.root
      /\ e.index = r.index /\ e.matches = r.matches /\ e.inserted = r.inserted /\ e.again = r.again
  BY DEF CallOK, CallTypeOK, CallFields
<1> HIDE DEF e
<1>2. CallTypeOK(e)
  BY <1>1 DEF CallOK, CallTypeOK
<1>3. CallIsAtItsPlace(e, rows)
  BY <1>1 DEF CallOK, CallIsAtItsPlace
<1>4. CallKnows(e, rows) /\ ~Active(e)
  BY <1>1 DEF CallOK, CallKnows, Active
<1>5. QED
  BY <1>2, <1>3, <1>4 DEF CallOK, e

-----------------------------------------------------------------------------
\* The next representative: the first after the one that is settled.
LEMMA NextIsNext ==
    ASSUME NEW c, NEW i, IsBatch(Candidates(c)), i \in DOMAIN Candidates(c)
    PROVE  /\ i \in Nat /\ NextIndex(c, i) \in 1..(Len(Candidates(c)) + 1) /\ i < NextIndex(c, i)
           /\ \A j \in DOMAIN Candidates(c) :
                  call[c].root[j] = j /\ j < NextIndex(c, i) => j <= i
<1>1. PICK n \in Nat : n = Len(Candidates(c)) /\ DOMAIN Candidates(c) = 1..n
  BY SameArticleSameRoot
<1> DEFINE T == {j \in DOMAIN Candidates(c) : j > i /\ call[c].root[j] = j} \cup {Len(Candidates(c)) + 1}
<1>2. T \subseteq Nat /\ T # {} /\ \A j \in T : j > i /\ j \in 1..(n + 1)
  BY <1>1
<1>3. n + 1 \in T /\ \A j \in 1..n : j > i /\ call[c].root[j] = j => j \in T
  BY <1>1
<1>4. NextIndex(c, i) = Min(T)
  BY Zenon DEF NextIndex
<1> HIDE DEF T
<1>5. PICK m \in Nat : m = NextIndex(c, i) /\ m \in T /\ \A j \in T : m <= j
  BY <1>2, <1>4, MinIsLeast
<1>6. m > i /\ m \in 1..(n + 1)
  BY <1>2, <1>5
<1>7. ASSUME NEW j \in 1..n, call[c].root[j] = j, j < m PROVE j <= i
  <2>1. j \notin T
    BY <1>5, <1>7
  <2>2. ~(j > i)
    BY <1>3, <1>7, <2>1
  <2>3. QED
    BY <1>1, <2>2
<1>8. i \in Nat /\ i < m
  BY <1>1, <1>6
<1>9. QED
  BY <1>1, <1>5, <1>6, <1>7, <1>8

\* One call moves, and the table keeps its rows.
LEMMA OneCallMoves ==
    ASSUME IngestInv, NEW c \in Calls, NEW r, call' = [call EXCEPT ![c] = r],
           articles \subseteq articles', CallOK(r, articles'),
           made' \in 0..MaxCalls, overlapped' \in BOOLEAN,
           \A cs \in completed' : IsStored(cs, articles'),
           ~overlapped' => OneByOne'
    PROVE  IngestInv'
<1>1. DOMAIN call' = Calls /\ \A o \in Calls : call'[o] = IF o = c THEN r ELSE call[o]
  BY DEF IngestInv
<1>2. \A o \in Calls : CallOK(call'[o], articles')
  <2>1. \A o \in Calls : CallOK(call[o], articles)
    BY DEF IngestInv
  <2>2. \A o \in Calls : CallOK(call[o], articles')
    BY <2>1, MoreRowsKeepCallOK
  <2>3. QED
    BY <1>1, <2>2
<1>3. QED
  BY <1>1, <1>2 DEF IngestInv

\* The table is as it was, and the call that moves is not between query and end, or was so
\* before.
LEMMA StaysOneByOne ==
    ASSUME IngestInv, NEW c \in Calls, NEW r, call' = [call EXCEPT ![c] = r],
           UNCHANGED <<articles, overlapped>>,
           Active(r) => /\ Active(call[c])
                        /\ r.candidates = call[c].candidates /\ r.matches = call[c].matches
                        /\ r.inserted = call[c].inserted
    PROVE  ~overlapped' => OneByOne'
<1> SUFFICES ASSUME ~overlapped' PROVE OneByOne'
  OBVIOUS
<1>1. DOMAIN call = Calls /\ OneByOne
  BY DEF IngestInv
<1>2. \A o \in Calls : call'[o] = IF o = c THEN r ELSE call[o]
  BY <1>1
<1>3. NoTwoAlike(articles')
  BY <1>1 DEF OneByOne
<1>4. ASSUME NEW o \in Calls, Active(call'[o]) PROVE Active(call[o]) /\ KnowsAll(call'[o], articles')
  <2>1. Active(call[o])
    BY <1>2, <1>4
  <2>2. KnowsAll(call[o], articles)
    BY <1>1, <2>1 DEF OneByOne
  <2>3. CASE o = c
    <3>1. /\ call'[o] = r /\ r.candidates = call[o].candidates /\ r.matches = call[o].matches
          /\ r.inserted = call[o].inserted
      BY <1>2, <1>4, <2>3
    <3>2. KnowsAll(r, articles)
      BY <2>2, <3>1 DEF KnowsAll
    <3>3. QED
      BY <2>1, <3>1, <3>2
  <2>4. CASE o # c
    BY <1>2, <2>2, <2>1, <2>4
  <2>5. QED
    BY <2>3, <2>4
<1>5. \A o, q \in Calls : Active(call'[o]) /\ Active(call'[q]) => o = q
  BY <1>1, <1>4 DEF OneByOne
<1>6. NoTwoAlike(articles)'
  BY <1>3 DEF NoTwoAlike
<1>7. (\A o, q \in Calls : Active(call[o]) /\ Active(call[q]) => o = q)'
  BY <1>5 DEF Active
<1>8. (\A o \in Calls : Active(call[o]) => KnowsAll(call[o], articles))'
  BY <1>4 DEF Active, KnowsAll
<1>9. QED
  BY <1>6, <1>7, <1>8 DEF OneByOne
\* What is known of a call, and of its batch, before it moves.
LEMMA BeforeACallMoves ==
    ASSUME IngestInv, NEW c \in Calls
    PROVE  /\ CallOK(call[c], articles) /\ CallTypeOK(call[c])
           /\ DOMAIN call = Calls /\ made \in 0..MaxCalls /\ overlapped \in BOOLEAN
           /\ IsBatch(Candidates(c)) /\ call[c].root = collapseInBatchDuplicates(Candidates(c))
           /\ \A cs \in completed : IsStored(cs, articles)
BY DEF IngestInv, CallOK, CallTypeOK, Candidates

\* A representative is settled.
LEMMA AdvancedCallIsOK ==
    ASSUME NEW c, CallOK(call[c], articles), call[c].index \in DOMAIN Candidates(c),
           Active(call[c]),
           NEW rows, articles \subseteq rows,
           Represented(Candidates(c), call[c].root, call[c].index, rows),
           NEW ins, ins = {} \/ /\ ins = {call[c].index} /\ call[c].root[call[c].index] = call[c].index
                                /\ Current(c) \in rows /\ ~call[c].again
    PROVE  CallOK([call[c] EXCEPT !.pc = "persist", !.index = NextIndex(c, @),
                                  !.inserted = @ \cup ins], rows)
<1> DEFINE i == call[c].index
           r == [call[c] EXCEPT !.pc = "persist", !.index = NextIndex(c, @), !.inserted = @ \cup ins]
<1>1. CallTypeOK(call[c]) /\ CallOK(call[c], rows)
  BY MoreRowsKeepCallOK DEF CallOK
<1>2. /\ DOMAIN r = CallFields /\ r.pc = "persist" /\ r.candidates = Candidates(c)
      /\ r.root = call[c].root /\ r.index = NextIndex(c, i) /\ r.matches = call[c].matches
      /\ r.inserted = call[c].inserted \cup ins /\ r.again = call[c].again
  BY <1>1 DEF CallTypeOK, CallFields, Candidates
<1>3. IsBatch(Candidates(c)) /\ i \in DOMAIN Candidates(c)
  BY <1>1 DEF CallTypeOK, Candidates
<1> HIDE DEF r, i
<1>4. /\ i \in Nat /\ NextIndex(c, i) \in 1..(Len(Candidates(c)) + 1) /\ i < NextIndex(c, i)
      /\ \A j \in DOMAIN Candidates(c) : call[c].root[j] = j /\ j < NextIndex(c, i) => j <= i
  BY <1>3, NextIsNext
<1>5. DOMAIN Candidates(c) \subseteq Nat
  BY <1>3, SameArticleSameRoot
<1>6. CallTypeOK(r)
  <2>1. r.inserted \subseteq {j \in DOMAIN r.candidates : r.root[j] = j /\ j < r.index}
    <3>1. ASSUME NEW j \in call[c].inserted
          PROVE  j \in DOMAIN Candidates(c) /\ call[c].root[j] = j /\ j < NextIndex(c, i)
      <4>1. j \in DOMAIN Candidates(c) /\ call[c].root[j] = j /\ j < i
        BY <1>1 DEF CallTypeOK, Candidates, i
      <4>2. j \in Nat /\ NextIndex(c, i) \in Nat
        BY <1>4, <1>5, <4>1
      <4>3. QED
        BY <1>4, <4>1, <4>2
    <3>2. ASSUME NEW j \in ins
          PROVE  j \in DOMAIN Candidates(c) /\ call[c].root[j] = j /\ j < NextIndex(c, i)
      BY <1>3, <1>4 DEF i
    <3>3. QED
      BY <1>2, <3>1, <3>2
  <2>2. QED
    BY <1>1, <1>2, <1>4, <2>1 DEF CallTypeOK, Candidates
<1>7. CallIsAtItsPlace(r, rows)
  <2>1. ASSUME NEW j \in DOMAIN Candidates(c), call[c].root[j] = j, j < NextIndex(c, i)
        PROVE  Represented(Candidates(c), call[c].root, j, rows)
    <3>1. j <= i /\ j \in Nat
      BY <1>4, <1>5, <2>1
    <3>2. CASE j = i
      BY <3>2 DEF i
    <3>3. CASE j # i
      <4>1. j < i
        BY <1>4, <3>1, <3>3
      <4>2. QED
        BY <1>1, <2>1, <4>1 DEF CallOK, CallIsAtItsPlace, Active, Candidates, i
    <3>4. QED
      BY <3>2, <3>3
  <2>2. QED
    BY <1>2, <2>1 DEF CallIsAtItsPlace
<1>8. CallKnows(r, rows)
  <2>1. /\ call[c].matches \subseteq rows /\ \A j \in call[c].inserted : Candidates(c)[j] \in rows
        /\ call[c].again =>
              /\ call[c].inserted = {}
              /\ \A j \in DOMAIN Candidates(c) :
                     Represented(Candidates(c), call[c].root, j, call[c].matches)
    BY <1>1 DEF CallOK, CallKnows, Candidates
  <2>2. \A j \in ins : Candidates(c)[j] \in rows /\ ~call[c].again
    BY DEF Current, i
  <2>3. QED
    BY <1>2, <2>1, <2>2 DEF CallKnows
<1>9. QED
  BY <1>6, <1>7, <1>8 DEF CallOK, r

\* GroupMatched is that the group is represented in what the query returned.
LEMMA MatchedIsRepresented ==
    ASSUME NEW c
    PROVE  GroupMatched(c) <=> Represented(Candidates(c), call[c].root, call[c].index, call[c].matches)
BY DEF GroupMatched, Group, Represented

\* A call that is about to insert has a representative that nothing stored is like.
LEMMA NothingIsLikeIt ==
    ASSUME IngestInv, NEW c \in Calls, AtRepresentative(c), ~GroupMatched(c)
    PROVE  /\ ~call[c].again
           /\ ~overlapped => \A row \in articles : ~SameArticle(Current(c), row)
<1> DEFINE i == call[c].index
<1>1. /\ CallOK(call[c], articles) /\ IsBatch(Candidates(c))
      /\ call[c].root = collapseInBatchDuplicates(Candidates(c))
  BY BeforeACallMoves
<1>2. i \in DOMAIN Candidates(c) /\ call[c].root[i] = i /\ Active(call[c])
  BY DEF AtRepresentative, Active
<1>3. ~Represented(Candidates(c), call[c].root, i, call[c].matches)
  BY MatchedIsRepresented
<1>4. ~call[c].again
  BY <1>1, <1>2, <1>3 DEF CallOK, CallKnows, Candidates
<1>5. ASSUME ~overlapped, NEW row \in articles, SameArticle(Current(c), row) PROVE FALSE
  <2>1. KnowsAll(call[c], articles)
    BY <1>2, <1>5 DEF IngestInv, OneByOne
  <2>2. row \in call[c].matches \/ \E j \in call[c].inserted : row = Candidates(c)[j]
    BY <1>2, <1>5, <2>1 DEF KnowsAll, Candidates, Current
  <2>3. row \notin call[c].matches
    BY <1>2, <1>3, <1>5 DEF Represented, Current
  <2>4. PICK j \in call[c].inserted : row = Candidates(c)[j]
    BY <2>2, <2>3
  <2>5. j \in DOMAIN Candidates(c) /\ call[c].root[j] = j /\ j < i
    BY <1>1 DEF CallOK, CallTypeOK, Candidates
  <2>6. call[c].root[i] = call[c].root[j]
    BY <1>1, <1>2, <1>5, <2>4, <2>5, SameArticleSameRoot DEF Current
  <2>7. i \in Nat
    BY <1>1, <1>2, SameArticleSameRoot
  <2>8. QED
    BY <1>2, <2>5, <2>6, <2>7
<1>6. QED
  BY <1>4, <1>5
-----------------------------------------------------------------------------
\* At first no call is under way.
LEMMA IngestStarts == IngestInit => IngestInv
<1> SUFFICES ASSUME IngestInit PROVE IngestInv
  OBVIOUS
<1>1. /\ articles = {} /\ call = [c \in Calls |-> NoCall] /\ made = 0 /\ completed = {}
      /\ overlapped = FALSE
  BY DEF IngestInit
<1>2. CallOK(NoCall, {}) /\ ~Active(NoCall)
  <2>1. /\ DOMAIN NoCall = CallFields /\ NoCall.pc = "idle" /\ NoCall.candidates = <<>>
        /\ NoCall.root = <<>> /\ NoCall.index = 1 /\ NoCall.matches = {} /\ NoCall.inserted = {}
        /\ NoCall.again = FALSE
    BY DEF NoCall, CallFields
  <2>2. CallTypeOK(NoCall)
    <3>1. Len(<<>>) = 0 /\ 1 \in 1..(0 + 1)
      OBVIOUS
    <3>2. QED
      BY <2>1, <3>1, NothingToCollapse DEF CallTypeOK
  <2>3. CallIsAtItsPlace(NoCall, {}) /\ CallKnows(NoCall, {}) /\ ~Active(NoCall)
    BY <2>1 DEF CallIsAtItsPlace, CallKnows, Active
  <2>4. QED
    BY <2>2, <2>3 DEF CallOK
<1>3. \A c \in Calls : call[c] = NoCall
  BY <1>1
<1>4. OneByOne
  BY <1>1, <1>2, <1>3 DEF OneByOne, NoTwoAlike
<1>5. made \in 0..MaxCalls
  BY <1>1, IngestAssumption
<1>6. QED
  BY <1>1, <1>2, <1>3, <1>4, <1>5 DEF IngestInv

\* A call that begins with a batch, for the first time or again.
LEMMA CallingKeepsIngestInv ==
    ASSUME IngestInv, NEW c \in Calls, NEW cs, IsBatch(cs),
           call' = [call EXCEPT ![c] = [NoCall EXCEPT !.pc = "match", !.candidates = cs,
                                                      !.root = collapseInBatchDuplicates(cs)]],
           made < MaxCalls, made' = made + 1, UNCHANGED <<articles, completed, overlapped>>
    PROVE  IngestInv'
<1>1. PICK r : r = [NoCall EXCEPT !.pc = "match", !.candidates = cs,
                                  !.root = collapseInBatchDuplicates(cs)]
  OBVIOUS
<1>2. CallOK(r, articles) /\ ~Active(r)
  BY <1>1, FreshCallIsOK
<1>3. call' = [call EXCEPT ![c] = r]
  BY <1>1
<1>4. articles' = articles /\ completed' = completed /\ overlapped' = overlapped
  OBVIOUS
<1>5. made' \in 0..MaxCalls /\ overlapped \in BOOLEAN /\ \A b \in completed : IsStored(b, articles)
  BY BeforeACallMoves, IngestAssumption
<1>6. ~overlapped' => OneByOne'
  BY <1>2, <1>3, StaysOneByOne
<1>7. CallOK(r, articles') /\ articles \subseteq articles' /\ overlapped' \in BOOLEAN
      /\ \A b \in completed' : IsStored(b, articles')
  BY <1>2, <1>4, <1>5
<1>8. QED
  BY <1>3, <1>5, <1>6, <1>7, OneCallMoves

\* A call begins with the candidates of a document.
LEMMA BeginKeepsIngestInv ==
    ASSUME IngestInv, NEW c \in Calls, NEW d \in Documents, Begin(c, d)
    PROVE  IngestInv'
<1>1. IsBatch(parseFeed(d).candidates)
  BY IngestAssumption, ParsedIsBatch
<1>2. QED
  BY <1>1, CallingKeepsIngestInv DEF Begin

\* A call begins again with the batch of one that was lost.
LEMMA RepeatKeepsIngestInv ==
    ASSUME IngestInv, NEW c \in Calls, Repeat(c)
    PROVE  IngestInv'
<1>1. IsBatch(Candidates(c)) /\ call[c].root = collapseInBatchDuplicates(Candidates(c))
  BY BeforeACallMoves
<1>2. QED
  BY <1>1, CallingKeepsIngestInv DEF Repeat

\* The query: what is asked for is found, as it is at this moment.
LEMMA MatchKeepsIngestInv ==
    ASSUME IngestInv, NEW c \in Calls, Match(c)
    PROVE  IngestInv'
<1> DEFINE cs == Candidates(c)
           found == findMatches(Range(cs))
           r == [call[c] EXCEPT !.pc = "persist", !.matches = found, !.again = cs \in completed]
<1>1. /\ CallOK(call[c], articles) /\ IsBatch(cs) /\ call[c].root = collapseInBatchDuplicates(cs)
      /\ \A b \in completed : IsStored(b, articles)
      /\ made \in 0..MaxCalls /\ overlapped \in BOOLEAN /\ DOMAIN call = Calls
  BY BeforeACallMoves
<1>2. /\ articles' = articles /\ made' = made /\ completed' = completed
      /\ call' = [call EXCEPT ![c] = r] /\ call[c].pc = "match"
      /\ overlapped' = (overlapped \/ \E o \in Calls \ {c} : call[o].pc \in {"persist", "lookup"})
  BY DEF Match
<1>3. found = {row \in articles : \E j \in DOMAIN cs : SameArticle(cs[j], row)}
  BY DEF findMatches, Range
<1>4. /\ DOMAIN r = CallFields /\ r.pc = "persist" /\ r.candidates = cs /\ r.root = call[c].root
      /\ r.index = call[c].index /\ r.matches = found /\ r.inserted = call[c].inserted
      /\ r.again = (cs \in completed)
  BY <1>1 DEF CallOK, CallTypeOK, CallFields, Candidates
<1>5. call[c].index = 1
  BY <1>1, <1>2 DEF CallOK, CallIsAtItsPlace
<1>6. DOMAIN cs \subseteq Nat /\ \A i \in DOMAIN cs : ~(i < 1)
  BY <1>1, SameArticleSameRoot
<1>7. call[c].inserted = {}
  BY <1>1, <1>5, <1>6 DEF CallOK, CallTypeOK, Candidates
<1>8. cs \in completed => \A i \in DOMAIN cs : Represented(cs, call[c].root, i, found)
  BY <1>1, <1>3 DEF IsStored, Represented
<1>9. 1 \in 1..(Len(cs) + 1)
  BY <1>1, SameArticleSameRoot
<1> HIDE DEF r, found, cs
<1>10. CallOK(r, articles)
  <2>1. CallTypeOK(r)
    BY <1>1, <1>4, <1>5, <1>7, <1>9 DEF CallTypeOK
  <2>2. CallIsAtItsPlace(r, articles)
    BY <1>4, <1>5, <1>6 DEF CallIsAtItsPlace
  <2>3. CallKnows(r, articles)
    BY <1>3, <1>4, <1>7, <1>8 DEF CallKnows
  <2>4. QED
    BY <2>1, <2>2, <2>3 DEF CallOK
<1>11. KnowsAll(r, articles)
  BY <1>3, <1>4 DEF KnowsAll
<1>12. ASSUME ~overlapped' PROVE OneByOne'
  <2>1. ~overlapped /\ \A o \in Calls : o # c => ~Active(call[o])
    BY <1>2, <1>12 DEF Active
  <2>2. OneByOne
    BY <2>1 DEF IngestInv
  <2>3. \A o \in Calls : call'[o] = IF o = c THEN r ELSE call[o]
    BY <1>1, <1>2
  <2>4. NoTwoAlike(articles)'
    BY <1>2, <2>2 DEF OneByOne, NoTwoAlike
  <2>5. \A o \in Calls : Active(call'[o]) => o = c
    BY <2>1, <2>3
  <2>6. (\A o, q \in Calls : Active(call[o]) /\ Active(call[q]) => o = q)'
    BY <2>5 DEF Active
  <2>7. \A o \in Calls : Active(call'[o]) => KnowsAll(call'[o], articles')
    BY <1>2, <1>11, <2>3, <2>5
  <2>8. (\A o \in Calls : Active(call[o]) => KnowsAll(call[o], articles))'
    BY <2>7 DEF Active, KnowsAll
  <2>9. QED
    BY <2>4, <2>6, <2>8 DEF OneByOne
<1>13. CallOK(r, articles') /\ articles \subseteq articles' /\ overlapped' \in BOOLEAN
       /\ made' \in 0..MaxCalls /\ \A b \in completed' : IsStored(b, articles')
  BY <1>1, <1>2, <1>10
<1>14. QED
  BY <1>2, <1>12, <1>13, OneCallMoves

\* A step that leaves the table and goes on, or ends.
LEMMA QuietKeepsIngestInv ==
    ASSUME IngestInv, NEW c \in Calls, NEW r, call' = [call EXCEPT ![c] = r], CallOK(r, articles),
           UNCHANGED <<articles, made, overlapped>>,
           \A cs \in completed' : IsStored(cs, articles),
           Active(r) => /\ Active(call[c])
                        /\ r.candidates = call[c].candidates /\ r.matches = call[c].matches
                        /\ r.inserted = call[c].inserted
    PROVE  IngestInv'
<1>1. articles' = articles /\ made' = made /\ overlapped' = overlapped
  OBVIOUS
<1>2. made \in 0..MaxCalls /\ overlapped \in BOOLEAN
  BY DEF IngestInv
<1>3. ~overlapped' => OneByOne'
  BY StaysOneByOne
<1>4. CallOK(r, articles') /\ articles \subseteq articles' /\ overlapped' \in BOOLEAN
      /\ made' \in 0..MaxCalls /\ \A b \in completed' : IsStored(b, articles')
  BY <1>1, <1>2
<1>5. QED
  BY <1>3, <1>4, OneCallMoves

\* A representative is settled without an insert.
LEMMA SettlingKeepsIngestInv ==
    ASSUME IngestInv, NEW c \in Calls, Active(call[c]), call[c].index \in DOMAIN Candidates(c),
           Represented(Candidates(c), call[c].root, call[c].index, articles),
           Advance(c, {}), UNCHANGED <<articles, made, completed, overlapped>>
    PROVE  IngestInv'
<1> DEFINE r == [call[c] EXCEPT !.pc = "persist", !.index = NextIndex(c, @), !.inserted = @ \cup {}]
<1>1. CallOK(call[c], articles) /\ CallTypeOK(call[c]) /\ \A cs \in completed : IsStored(cs, articles)
  BY BeforeACallMoves
<1>2. CallOK(r, articles)
  BY <1>1, AdvancedCallIsOK
<1>3. r.candidates = call[c].candidates /\ r.matches = call[c].matches /\ r.inserted = call[c].inserted
  BY <1>1 DEF CallTypeOK, CallFields
<1>4. call' = [call EXCEPT ![c] = r]
  BY DEF Advance
<1>5. completed' = completed
  OBVIOUS
<1> HIDE DEF r
<1>6. QED
  BY <1>1, <1>2, <1>3, <1>4, <1>5, QuietKeepsIngestInv

\* A representative whose group is in the table needs no row.
LEMMA SettleKeepsIngestInv ==
    ASSUME IngestInv, NEW c \in Calls, Settle(c)
    PROVE  IngestInv'
<1>1. Active(call[c]) /\ call[c].index \in DOMAIN Candidates(c) /\ Advance(c, {})
      /\ UNCHANGED <<articles, made, completed, overlapped>>
  BY DEF Settle, AtRepresentative, Active
<1>2. Represented(Candidates(c), call[c].root, call[c].index, call[c].matches)
  BY MatchedIsRepresented DEF Settle
<1>3. call[c].matches \subseteq articles
  BY BeforeACallMoves DEF CallOK, CallKnows
<1>4. Represented(Candidates(c), call[c].root, call[c].index, articles)
  BY <1>2, <1>3, MoreRowsRepresent
<1>5. QED
  BY <1>1, <1>4, SettlingKeepsIngestInv

\* The unique index has refused the row: it is there, or it was.
LEMMA LookupKeepsIngestInv ==
    ASSUME IngestInv, NEW c \in Calls, Lookup(c)
    PROVE  IngestInv'
<1>1. /\ CallOK(call[c], articles) /\ CallTypeOK(call[c])
      /\ \A cs \in completed : IsStored(cs, articles)
  BY BeforeACallMoves
<1>2. /\ Active(call[c]) /\ call[c].index \in DOMAIN Candidates(c)
      /\ UNCHANGED <<articles, made, completed, overlapped>>
  BY <1>1 DEF Lookup, Active, CallOK, CallIsAtItsPlace, Candidates
<1>3. CASE findMatches({Current(c)}) # {}
  <2>1. Represented(Candidates(c), call[c].root, call[c].index, articles)
    BY <1>2, <1>3 DEF findMatches, Current, Represented
  <2>2. Advance(c, {})
    BY <1>3 DEF Lookup
  <2>3. QED
    BY <1>2, <2>1, <2>2, SettlingKeepsIngestInv
<1>4. CASE findMatches({Current(c)}) = {}
  <2> DEFINE r == [call[c] EXCEPT !.pc = "failed"]
  <2>1. CallOK(r, articles) /\ ~Active(r)
    BY <1>1, EndedCallIsOK
  <2>2. call' = [call EXCEPT ![c] = r]
    BY <1>4 DEF Lookup
  <2>3. completed' = completed
    BY <1>2
  <2> HIDE DEF r
  <2>4. QED
    BY <1>1, <1>2, <2>1, <2>2, <2>3, QuietKeepsIngestInv
<1>5. QED
  BY <1>3, <1>4

\* A row that another call has inserted is in the way: it is looked up next.
LEMMA ConflictKeepsIngestInv ==
    ASSUME IngestInv, NEW c \in Calls, Conflict(c)
    PROVE  IngestInv'
<1> DEFINE r == [call[c] EXCEPT !.pc = "lookup"]
<1>1. /\ CallOK(call[c], articles) /\ CallTypeOK(call[c])
      /\ \A cs \in completed : IsStored(cs, articles)
  BY BeforeACallMoves
<1>2. /\ call[c].pc = "persist" /\ call[c].index \in DOMAIN Candidates(c)
      /\ UNCHANGED <<articles, made, completed, overlapped>> /\ call' = [call EXCEPT ![c] = r]
  BY DEF Conflict, AtRepresentative
<1>3. /\ DOMAIN r = CallFields /\ r.pc = "lookup" /\ r.candidates = call[c].candidates
      /\ r.root = call[c].root /\ r.index = call[c].index /\ r.matches = call[c].matches
      /\ r.inserted = call[c].inserted /\ r.again = call[c].again
  BY <1>1 DEF CallTypeOK, CallFields
<1> HIDE DEF r
<1>4. CallTypeOK(r)
  BY <1>1, <1>3 DEF CallTypeOK
<1>5. CallIsAtItsPlace(r, articles)
  BY <1>1, <1>2, <1>3 DEF CallOK, CallIsAtItsPlace, Candidates
<1>6. CallKnows(r, articles)
  BY <1>1, <1>3 DEF CallOK, CallKnows
<1>7. Active(call[c]) /\ CallOK(r, articles)
  BY <1>2, <1>4, <1>5, <1>6 DEF Active, CallOK
<1>8. completed' = completed
  BY <1>2
<1>9. QED
  BY <1>1, <1>2, <1>3, <1>7, <1>8, QuietKeepsIngestInv

\* A call that has been through its batch has a row for each group.
LEMMA EndIsStored ==
    ASSUME NEW r, NEW rows, CallOK(r, rows), r.pc \in {"persist", "done"},
           r.index \notin DOMAIN r.candidates
    PROVE  IsStored(r.candidates, rows)
<1> DEFINE cs == r.candidates
           root == collapseInBatchDuplicates(cs)
<1>1. IsBatch(cs) /\ r.root = root /\ r.index \in 1..(Len(cs) + 1)
  BY DEF CallOK, CallTypeOK
<1>2. /\ Len(cs) \in Nat /\ DOMAIN cs = 1..Len(cs)
      /\ \A i \in DOMAIN cs : root[i] \in DOMAIN cs /\ root[root[i]] = root[i]
  BY <1>1, SameArticleSameRoot
<1>3. \A i \in DOMAIN cs : r.root[i] = i /\ i < r.index => Represented(cs, r.root, i, rows)
  BY DEF CallOK, CallIsAtItsPlace
<1> HIDE DEF cs, root
<1>4. \A i \in DOMAIN cs : i < r.index
  <2>1. r.index = Len(cs) + 1
    BY <1>1, <1>2 DEF cs
  <2>2. QED
    BY <1>2, <2>1
<1>5. ASSUME NEW i \in DOMAIN cs PROVE Represented(cs, root, i, rows)
  <2>1. Represented(cs, root, root[i], rows)
    BY <1>1, <1>2, <1>3, <1>4
  <2>2. QED
    BY <1>2, <2>1 DEF Represented
<1>6. QED
  BY <1>5 DEF IsStored, cs, root

\* A call past its last candidate has settled every group.
LEMMA FinishKeepsIngestInv ==
    ASSUME IngestInv, NEW c \in Calls, Finish(c)
    PROVE  IngestInv'
<1> DEFINE r == [call[c] EXCEPT !.pc = "done"]
<1>1. CallOK(call[c], articles) /\ \A cs \in completed : IsStored(cs, articles)
  BY BeforeACallMoves
<1>2. /\ call[c].pc = "persist" /\ call[c].index \notin DOMAIN call[c].candidates
      /\ UNCHANGED <<articles, made, overlapped>> /\ call' = [call EXCEPT ![c] = r]
      /\ completed' = completed \cup {call[c].candidates}
  BY DEF Finish, Candidates
<1>3. IsStored(call[c].candidates, articles)
  BY <1>1, <1>2, EndIsStored
<1>4. \A cs \in completed' : IsStored(cs, articles)
  BY <1>1, <1>2, <1>3
<1>5. CallOK(r, articles) /\ ~Active(r)
  BY <1>1, <1>2, EndedCallIsOK
<1> HIDE DEF r
<1>6. QED
  BY <1>2, <1>4, <1>5, QuietKeepsIngestInv

\* A query that fails leaves the table alone.
LEMMA QueryFailsKeepsIngestInv ==
    ASSUME IngestInv, NEW c \in Calls, QueryFails(c)
    PROVE  IngestInv'
<1> DEFINE r == [call[c] EXCEPT !.pc = "failed"]
<1>1. CallOK(call[c], articles) /\ \A cs \in completed : IsStored(cs, articles)
  BY BeforeACallMoves
<1>2. UNCHANGED <<articles, made, completed, overlapped>> /\ call' = [call EXCEPT ![c] = r]
  BY DEF QueryFails
<1>3. CallOK(r, articles) /\ ~Active(r)
  BY <1>1, EndedCallIsOK
<1>4. completed' = completed
  BY <1>2
<1> HIDE DEF r
<1>5. QED
  BY <1>1, <1>2, <1>3, <1>4, QuietKeepsIngestInv

\* A row is added, by the call whose turn it is: as nothing is like it, no two are alike, and
\* the call, if it goes on, knows of it.
LEMMA InsertingKeepsIngestInv ==
    ASSUME IngestInv, NEW c \in Calls, AtRepresentative(c), ~GroupMatched(c),
           articles' = articles \cup {Current(c)},
           UNCHANGED <<made, completed, overlapped>>,
           NEW r, call' = [call EXCEPT ![c] = r], CallOK(r, articles'),
           Active(r) => /\ r.candidates = call[c].candidates /\ r.matches = call[c].matches
                        /\ r.inserted = call[c].inserted \cup {call[c].index}
    PROVE  IngestInv'
<1>1. /\ DOMAIN call = Calls /\ made \in 0..MaxCalls /\ overlapped \in BOOLEAN
      /\ \A cs \in completed : IsStored(cs, articles)
  BY BeforeACallMoves
<1>2. made' = made /\ completed' = completed /\ overlapped' = overlapped /\ articles \subseteq articles'
  OBVIOUS
<1>3. \A cs \in completed' : IsStored(cs, articles')
  BY <1>1, <1>2, MoreRowsRepresent DEF IsStored
<1>4. \A o \in Calls : call'[o] = IF o = c THEN r ELSE call[o]
  BY <1>1
<1>5. Active(call[c])
  BY DEF AtRepresentative, Active
<1>6. ASSUME ~overlapped' PROVE OneByOne'
  <2>1. OneByOne /\ \A row \in articles : ~SameArticle(Current(c), row)
    BY <1>2, <1>6, NothingIsLikeIt DEF IngestInv
  <2>2. NoTwoAlike(articles')
    BY <2>1 DEF OneByOne, NoTwoAlike, SameArticle, SameUrl, SameHash
  <2>3. \A o \in Calls : Active(call'[o]) => o = c
    BY <1>4, <1>5, <2>1 DEF OneByOne
  <2>4. Active(r) => KnowsAll(r, articles')
    <3>1. SUFFICES ASSUME Active(r) PROVE KnowsAll(r, articles')
      OBVIOUS
    <3>2. KnowsAll(call[c], articles)
      BY <1>5, <2>1 DEF OneByOne
    <3>3. /\ r.candidates = call[c].candidates /\ r.matches = call[c].matches
          /\ r.inserted = call[c].inserted \cup {call[c].index}
      BY <3>1
    <3>4. Current(c) = r.candidates[call[c].index]
      BY <3>3 DEF Current, Candidates
    <3>5. QED
      BY <3>2, <3>3, <3>4 DEF KnowsAll
  <2>5. NoTwoAlike(articles)'
    BY <2>2 DEF NoTwoAlike
  <2>6. (\A o, q \in Calls : Active(call[o]) /\ Active(call[q]) => o = q)'
    BY <2>3 DEF Active
  <2>7. \A o \in Calls : Active(call'[o]) => KnowsAll(call'[o], articles')
    BY <1>4, <2>3, <2>4
  <2>8. (\A o \in Calls : Active(call[o]) => KnowsAll(call[o], articles))'
    BY <2>7 DEF Active, KnowsAll
  <2>9. QED
    BY <2>5, <2>6, <2>8 DEF OneByOne
<1>7. made' \in 0..MaxCalls /\ overlapped' \in BOOLEAN
  BY <1>1, <1>2
<1>8. QED
  BY <1>2, <1>3, <1>6, <1>7, OneCallMoves

\* A row that is inserted is that of its group, and known to the call.
LEMMA InsertKeepsIngestInv ==
    ASSUME IngestInv, NEW c \in Calls, Insert(c)
    PROVE  IngestInv'
<1> DEFINE ins == {call[c].index}
           r == [call[c] EXCEPT !.pc = "persist", !.index = NextIndex(c, @), !.inserted = @ \cup ins]
<1>1. CallOK(call[c], articles) /\ CallTypeOK(call[c])
  BY BeforeACallMoves
<1>2. /\ AtRepresentative(c) /\ ~GroupMatched(c) /\ articles' = articles \cup {Current(c)}
      /\ UNCHANGED <<made, completed, overlapped>> /\ call' = [call EXCEPT ![c] = r]
  BY DEF Insert, toNewArticle, Advance
<1>3. ~call[c].again
  BY <1>2, NothingIsLikeIt
<1>4. call[c].index \in DOMAIN Candidates(c) /\ call[c].root[call[c].index] = call[c].index
      /\ Active(call[c])
  BY <1>2 DEF AtRepresentative, Active
<1>5. Represented(Candidates(c), call[c].root, call[c].index, articles')
  BY <1>2, <1>4 DEF Represented, Current, SameArticle, SameUrl
<1>6. articles \subseteq articles' /\ Current(c) \in articles'
  BY <1>2
<1>7. r.candidates = call[c].candidates /\ r.matches = call[c].matches
      /\ r.inserted = call[c].inserted \cup {call[c].index}
  BY <1>1 DEF CallTypeOK, CallFields
<1>8. CallOK(r, articles')
  <2> HIDE DEF ins
  <2>1. ins = {call[c].index}
    BY DEF ins
  <2>2. QED
    BY <1>1, <1>3, <1>4, <1>5, <1>6, <2>1, AdvancedCallIsOK
<1> HIDE DEF r
<1>9. QED
  BY <1>2, <1>7, <1>8, InsertingKeepsIngestInv

\* The same when the answer is lost: the row is there, and the call is not completed.
LEMMA AnswerLostKeepsIngestInv ==
    ASSUME IngestInv, NEW c \in Calls, AnswerLost(c)
    PROVE  IngestInv'
<1> DEFINE r == [call[c] EXCEPT !.pc = "failed"]
<1>1. /\ AtRepresentative(c) /\ ~GroupMatched(c) /\ articles' = articles \cup {Current(c)}
      /\ UNCHANGED <<made, completed, overlapped>> /\ call' = [call EXCEPT ![c] = r]
  BY DEF AnswerLost, toNewArticle
<1>2. CallOK(call[c], articles) /\ articles \subseteq articles'
  BY <1>1, BeforeACallMoves
<1>3. CallOK(call[c], articles')
  BY <1>2, MoreRowsKeepCallOK
<1>4. CallOK(r, articles') /\ ~Active(r)
  BY <1>3, EndedCallIsOK
<1> HIDE DEF r
<1>5. QED
  BY <1>1, <1>4, InsertingKeepsIngestInv

-----------------------------------------------------------------------------
\* Every state of the table and the calls is as the invariant says.
THEOREM IngestInvariance == IngestSpec => []IngestInv
<1>1. ASSUME IngestInv, [IngestNext]_ingestVars PROVE IngestInv'
  <2>1. ASSUME NEW c \in Calls, IngestStep(c) PROVE IngestInv'
    <3>1. ASSUME NEW d \in Documents, Begin(c, d) PROVE IngestInv'
      BY <1>1, <3>1, BeginKeepsIngestInv
    <3>2. CASE Repeat(c)
      BY <1>1, <3>2, RepeatKeepsIngestInv
    <3>3. CASE Match(c)
      BY <1>1, <3>3, MatchKeepsIngestInv
    <3>4. CASE Settle(c)
      BY <1>1, <3>4, SettleKeepsIngestInv
    <3>5. CASE Insert(c)
      BY <1>1, <3>5, InsertKeepsIngestInv
    <3>6. CASE Conflict(c)
      BY <1>1, <3>6, ConflictKeepsIngestInv
    <3>7. CASE Lookup(c)
      BY <1>1, <3>7, LookupKeepsIngestInv
    <3>8. CASE Finish(c)
      BY <1>1, <3>8, FinishKeepsIngestInv
    <3>9. CASE QueryFails(c)
      BY <1>1, <3>9, QueryFailsKeepsIngestInv
    <3>10. CASE AnswerLost(c)
      BY <1>1, <3>10, AnswerLostKeepsIngestInv
    <3>11. QED
      BY <2>1, <3>1, <3>2, <3>3, <3>4, <3>5, <3>6, <3>7, <3>8, <3>9, <3>10 DEF IngestStep
  <2>2. CASE UNCHANGED ingestVars
    <3>1. /\ articles' = articles /\ call' = call /\ made' = made /\ completed' = completed
          /\ overlapped' = overlapped
      BY <2>2 DEF ingestVars
    <3>2. ASSUME ~overlapped PROVE OneByOne'
      <4>1. OneByOne
        BY <1>1, <3>2 DEF IngestInv
      <4>2. QED
        BY <3>1, <4>1 DEF OneByOne, NoTwoAlike, Active, KnowsAll
    <3>3. QED
      BY <1>1, <3>1, <3>2 DEF IngestInv
  <2>3. QED
    BY <1>1, <2>1, <2>2 DEF IngestNext
<1>2. QED
  BY IngestStarts, <1>1, PTL DEF IngestSpec

\* What is stored, and what calls hold, is what parseFeed makes.
Keyed == (\A row \in articles : DOMAIN row = Keys) /\ \A c \in Calls : HasKeys(Candidates(c))

\* A step that leaves the candidates of every call alone, and stores none but one of them.
LEMMA StoringKeepsKeyed ==
    ASSUME Keyed, NEW c \in Calls, articles' \subseteq articles \cup Range(Candidates(c)),
           \A o \in Calls : call'[o].candidates = call[o].candidates
    PROVE  Keyed'
<1>1. \A row \in Range(Candidates(c)) : DOMAIN row = Keys
  BY DEF Keyed, HasKeys, Range
<1>2. \A row \in articles' : DOMAIN row = Keys
  BY <1>1 DEF Keyed
<1>3. \A o \in Calls : HasKeys(call'[o].candidates)
  BY DEF Keyed, Candidates
<1>4. QED
  BY <1>2, <1>3 DEF Keyed, Candidates, HasKeys

\* Every step of a call keeps it.
LEMMA StepKeepsKeyed ==
    ASSUME IngestInv, Keyed, NEW c \in Calls, IngestStep(c)
    PROVE  Keyed'
<1>1. DOMAIN call = Calls /\ DOMAIN call[c] = CallFields
  BY DEF IngestInv, CallOK, CallTypeOK
<1>2. ASSUME NEW cs, HasKeys(cs), UNCHANGED articles,
             call' = [call EXCEPT ![c] = [NoCall EXCEPT !.pc = "match", !.candidates = cs,
                                                        !.root = collapseInBatchDuplicates(cs)]]
      PROVE  Keyed'
  <2>1. \A o \in Calls : call'[o].candidates = IF o = c THEN cs ELSE call[o].candidates
    BY <1>1, <1>2 DEF NoCall
  <2>2. \A o \in Calls : HasKeys(call'[o].candidates)
    BY <1>2, <2>1 DEF Keyed, Candidates
  <2>3. \A row \in articles' : DOMAIN row = Keys
    BY <1>2 DEF Keyed
  <2>4. QED
    BY <2>2, <2>3 DEF Keyed, Candidates, HasKeys
<1>3. ASSUME NEW d \in Documents, Begin(c, d) PROVE Keyed'
  <2>1. HasKeys(parseFeed(d).candidates)
    BY IngestAssumption, ParsedIsBatch
  <2>2. QED
    BY <1>2, <1>3, <2>1 DEF Begin
<1>4. CASE Repeat(c)
  <2>1. HasKeys(Candidates(c)) /\ call[c].root = collapseInBatchDuplicates(Candidates(c))
    BY BeforeACallMoves DEF Keyed
  <2>2. QED
    BY <1>2, <1>4, <2>1 DEF Repeat
<1>5. ASSUME NEW r, r.candidates = call[c].candidates, call' = [call EXCEPT ![c] = r],
             UNCHANGED articles
      PROVE  Keyed'
  <2>1. \A o \in Calls : call'[o].candidates = call[o].candidates
    BY <1>1, <1>5
  <2>2. QED
    BY <1>5, <2>1, StoringKeepsKeyed
<1>6. CASE Match(c)
  <2>1. PICK matches, again :
           call' = [call EXCEPT ![c] = [call[c] EXCEPT !.pc = "persist", !.matches = matches,
                                                       !.again = again]]
    BY <1>6 DEF Match
  <2>2. [call[c] EXCEPT !.pc = "persist", !.matches = matches, !.again = again].candidates
            = call[c].candidates
    BY <1>1 DEF CallFields
  <2>3. QED
    BY <1>5, <1>6, <2>1, <2>2 DEF Match
<1>7. ASSUME NEW more, Advance(c, more) PROVE \A o \in Calls : call'[o].candidates = call[o].candidates
  <2>1. PICK index, inserted :
           call' = [call EXCEPT ![c] = [call[c] EXCEPT !.pc = "persist", !.index = index,
                                                       !.inserted = inserted]]
    BY <1>7 DEF Advance
  <2>2. QED
    BY <1>1, <2>1 DEF CallFields
<1>8. ASSUME NEW pc, call' = [call EXCEPT ![c].pc = pc]
      PROVE  \A o \in Calls : call'[o].candidates = call[o].candidates
  BY <1>1, <1>8 DEF CallFields
<1>9. AtRepresentative(c) => toNewArticle(Current(c)) \in Range(Candidates(c))
  BY DEF AtRepresentative, toNewArticle, Current, Range
<1>10. CASE Insert(c) \/ AnswerLost(c)
  <2>1. articles' \subseteq articles \cup Range(Candidates(c))
    BY <1>9, <1>10 DEF Insert, AnswerLost
  <2>2. \A o \in Calls : call'[o].candidates = call[o].candidates
    BY <1>7, <1>8, <1>10 DEF Insert, AnswerLost
  <2>3. QED
    BY <2>1, <2>2, StoringKeepsKeyed
<1>11. CASE Settle(c) \/ Conflict(c) \/ Lookup(c) \/ Finish(c) \/ QueryFails(c)
  <2>1. articles' = articles
    BY <1>11 DEF Settle, Conflict, Lookup, Finish, QueryFails
  <2>2. \A o \in Calls : call'[o].candidates = call[o].candidates
    BY <1>7, <1>8, <1>11 DEF Settle, Conflict, Lookup, Finish, QueryFails
  <2>3. QED
    BY <2>1, <2>2, StoringKeepsKeyed
<1>12. QED
  BY <1>3, <1>4, <1>6, <1>10, <1>11 DEF IngestStep

\* So it holds throughout.
LEMMA KeyedThroughout == IngestSpec => []Keyed
<1>1. IngestInit => Keyed
  BY DEF IngestInit, Keyed, Candidates, NoCall, HasKeys
<1>2. IngestInv /\ Keyed /\ [IngestNext]_ingestVars => Keyed'
  <2>1. ASSUME Keyed, UNCHANGED ingestVars PROVE Keyed'
    BY <2>1 DEF ingestVars, Keyed, Candidates, HasKeys
  <2>2. QED
    BY <2>1, StepKeepsKeyed DEF IngestNext
<1>3. QED
  BY <1>1, <1>2, IngestInvariance, PTL DEF IngestSpec

\* The rows, the candidates and the other locals of the calls, and what ties them to each
\* other: the root of a batch is the collapse of its candidates.
THEOREM IngestTypeCorrectness == IngestSpec => []IngestTypeOK
<1>1. ASSUME IngestInv, Keyed PROVE IngestTypeOK
  <2>1. ASSUME NEW c \in Calls
        PROVE  /\ call[c].pc \in {"idle", "match", "persist", "lookup", "done", "failed"}
               /\ call[c].index \in 1..(Len(Candidates(c)) + 1)
               /\ call[c].matches \subseteq articles
               /\ call[c].root = collapseInBatchDuplicates(Candidates(c))
               /\ \A i \in call[c].inserted : call[c].root[i] = i /\ Candidates(c)[i] \in articles
    <3>1. CallOK(call[c], articles) /\ IsBatch(Candidates(c))
          /\ call[c].root = collapseInBatchDuplicates(Candidates(c))
      BY <1>1, BeforeACallMoves
    <3>2. QED
      BY <3>1 DEF CallOK, CallTypeOK, CallKnows, Candidates
  <2>2. QED
    BY <1>1, <2>1 DEF IngestInv, IngestTypeOK, Keyed, HasKeys
<1>2. QED
  BY IngestInvariance, KeyedThroughout, <1>1, PTL

\* collapseInBatchDuplicates, for batches of any length: what is folded together is what a
\* chain of shared keys connects.
THEOREM CollapseIsClosureHolds == IngestSpec => []CollapseIsClosure
<1>1. ASSUME IngestInv PROVE CollapseIsClosure
  <2>1. ASSUME NEW c \in Calls, NEW i \in DOMAIN Candidates(c)
        PROVE  call[c].root[i] = Min(Connected(Candidates(c), i))
    BY <1>1, BeforeACallMoves, RootIsEarliestConnected
  <2>2. QED
    BY <2>1 DEF CollapseIsClosure
<1>2. QED
  BY IngestInvariance, <1>1, PTL

\* Calls that follow each other, fail in the middle and are repeated never store a story twice.
THEOREM OneArticlePerStoryHolds == IngestSpec => []OneArticlePerStory
<1>1. IngestInv => OneArticlePerStory
  BY DEF IngestInv, OneByOne, NoTwoAlike, OneArticlePerStory
<1>2. QED
  BY IngestInvariance, <1>1, PTL

\* A call that returned has left none of its stories out, whoever won the inserts.
THEOREM NothingIsLostHolds == IngestSpec => []NothingIsLost
<1>1. ASSUME IngestInv PROVE NothingIsLost
  <2>1. ASSUME NEW c \in Calls, call[c].pc = "done", NEW i \in DOMAIN Candidates(c)
        PROVE  \E j \in Group(c, i) : \E row \in articles : SameArticle(Candidates(c)[j], row)
    <3>1. CallOK(call[c], articles) /\ call[c].root = collapseInBatchDuplicates(Candidates(c))
      BY <1>1, BeforeACallMoves
    <3>2. IsStored(call[c].candidates, articles)
      BY <2>1, <3>1, EndIsStored DEF CallOK, CallIsAtItsPlace
    <3>3. QED
      BY <3>1, <3>2 DEF IsStored, Represented, Group, Candidates
  <2>2. QED
    BY <2>1, Zenon DEF NothingIsLost
<1>2. QED
  BY IngestInvariance, <1>1, PTL

\* A batch that has been stored once is not stored again.
THEOREM RetryAddsNothingHolds == IngestSpec => []RetryAddsNothing
<1>1. ASSUME IngestInv PROVE RetryAddsNothing
  BY <1>1 DEF IngestInv, CallOK, CallKnows, RetryAddsNothing
<1>2. QED
  BY IngestInvariance, <1>1, PTL
=============================================================================
