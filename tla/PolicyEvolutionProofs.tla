----------------------- MODULE PolicyEvolutionProofs -----------------------
(***************************************************************************)
(* Proofs about PolicyEvolution, for any number of pull requests, any      *)
(* policy that LoopPolicySchema accepts, and any files and labels.         *)
(***************************************************************************)
EXTENDS PolicyEvolution, PrefixInduction, SequenceTheorems

-----------------------------------------------------------------------------
\* Keeps is an order.
LEMMA KeepsItself == ASSUME NEW p, IsPolicy(p) PROVE Keeps(p, p)
BY DEF Keeps, IsPolicy

\* And what keeps what keeps a policy keeps that policy.
LEMMA KeepsOnwards ==
    ASSUME NEW a, NEW b, NEW c, IsPolicy(a), IsPolicy(b), IsPolicy(c),
           DOMAIN b.rules = DOMAIN c.rules,
           Keeps(a, b), Keeps(b, c)
    PROVE  Keeps(a, c)
<1>1. a.blockingSeverity <= c.blockingSeverity
  BY DEF Keeps, IsPolicy
<1>2. \A l \in Levels : c.reviewers[l] <= a.reviewers[l]
  BY DEF Keeps, IsPolicy
<1>3. QED
  BY <1>1, <1>2, Zenon DEF Keeps

\* What findWeakenedProtections does not object to keeps every protection.
LEMMA NotWeakenedKeeps ==
    ASSUME NEW base, NEW head, IsPolicy(base), IsPolicy(head), ~PolicyWeakened(base, head)
    PROVE  Keeps(head, base)
<1>1. base.requiredChecks \subseteq head.requiredChecks
  BY DEF PolicyWeakened, LostChecks
<1>2. \A l \in Levels : base.reviewers[l] <= head.reviewers[l]
  BY DEF PolicyWeakened, FewerReviewers, IsPolicy
<1>3. \A l \in Levels : base.steps[l] \subseteq head.steps[l]
  BY DEF PolicyWeakened, LostSteps
<1>4. head.blockingSeverity <= base.blockingSeverity
  BY DEF PolicyWeakened, SeverityRaised, IsPolicy
<1>5. \A q \in DOMAIN base.rules : base.rules[q] # "none" => head.rules[q] # "none"
  BY DEF PolicyWeakened, LostRules
<1>6. QED
  BY <1>1, <1>2, <1>3, <1>4, <1>5 DEF Keeps

\* The parts of a merged policy.
LEMMA MergedParts ==
    ASSUME NEW base, NEW old, NEW new, IsPolicy(base)
    PROVE  LET m == Merged(base, old, new)
           IN  /\ DOMAIN m = PolicyParts
               /\ m.requiredChecks = MergeSet(base.requiredChecks, old.requiredChecks, new.requiredChecks)
               /\ m.reviewers = [l \in Levels |-> Merge1(base.reviewers[l], old.reviewers[l], new.reviewers[l])]
               /\ m.steps = [l \in Levels |-> MergeSet(base.steps[l], old.steps[l], new.steps[l])]
               /\ m.blockingSeverity = Merge1(base.blockingSeverity, old.blockingSeverity, new.blockingSeverity)
               /\ m.rules = [q \in DOMAIN base.rules |-> Merge1(base.rules[q], old.rules[q], new.rules[q])]
               /\ m.default = base.default
               /\ m.maxChangedFiles = base.maxChangedFiles /\ m.maxDeletedLines = base.maxDeletedLines
BY DEF Merged, IsPolicy, PolicyParts

\* Two policies that have a place for the risk of the same paths.
SamePaths(a, b) == DOMAIN a.rules = DOMAIN b.rules

\* A merge makes a policy of policies.
LEMMA MergedIsPolicy ==
    ASSUME NEW base, NEW old, NEW new, IsPolicy(base), IsPolicy(old), IsPolicy(new),
           SamePaths(old, base), SamePaths(new, base)
    PROVE  IsPolicy(Merged(base, old, new)) /\ SamePaths(Merged(base, old, new), base)
<1> DEFINE m == Merged(base, old, new)
<1>1. /\ DOMAIN m = PolicyParts
      /\ m.reviewers = [l \in Levels |-> Merge1(base.reviewers[l], old.reviewers[l], new.reviewers[l])]
      /\ m.steps = [l \in Levels |-> MergeSet(base.steps[l], old.steps[l], new.steps[l])]
      /\ m.blockingSeverity = Merge1(base.blockingSeverity, old.blockingSeverity, new.blockingSeverity)
      /\ m.rules = [q \in DOMAIN base.rules |-> Merge1(base.rules[q], old.rules[q], new.rules[q])]
      /\ m.default = base.default
      /\ m.maxChangedFiles = base.maxChangedFiles /\ m.maxDeletedLines = base.maxDeletedLines
  BY MergedParts
<1> HIDE DEF m
<1>2. m.reviewers \in [Levels -> 1..4]
  BY <1>1 DEF IsPolicy, Merge1
<1>3. m.blockingSeverity \in Nat
  BY <1>1 DEF IsPolicy, Merge1
<1>4. DOMAIN m.rules = DOMAIN base.rules /\ m.rules \in [DOMAIN m.rules -> Levels \cup {"none"}]
  BY <1>1 DEF IsPolicy, Merge1, SamePaths
<1>5. DOMAIN m.steps = Levels
  BY <1>1
<1>6. IsPolicy(m) /\ SamePaths(m, base)
  BY <1>1, <1>2, <1>3, <1>4, <1>5 DEF IsPolicy, SamePaths
<1>7. QED
  BY <1>6 DEF m

\* Where git merges without a conflict, a change that kept the protections of what it started
\* from keeps those of what it is merged into.
LEMMA MergedKeeps ==
    ASSUME NEW base, NEW old, NEW new, IsPolicy(base), IsPolicy(old), IsPolicy(new),
           SamePaths(old, base), SamePaths(new, base),
           ~Conflicting(base, old, new), Keeps(new, old)
    PROVE  Keeps(Merged(base, old, new), base)
<1> DEFINE m == Merged(base, old, new)
<1>1. /\ m.requiredChecks = MergeSet(base.requiredChecks, old.requiredChecks, new.requiredChecks)
      /\ m.reviewers = [l \in Levels |-> Merge1(base.reviewers[l], old.reviewers[l], new.reviewers[l])]
      /\ m.steps = [l \in Levels |-> MergeSet(base.steps[l], old.steps[l], new.steps[l])]
      /\ m.blockingSeverity = Merge1(base.blockingSeverity, old.blockingSeverity, new.blockingSeverity)
      /\ m.rules = [q \in DOMAIN base.rules |-> Merge1(base.rules[q], old.rules[q], new.rules[q])]
  BY MergedParts
<1> HIDE DEF m
<1>2. base.requiredChecks \subseteq m.requiredChecks
  BY <1>1 DEF MergeSet, Keeps
<1>3. ASSUME NEW l \in Levels PROVE base.steps[l] \subseteq m.steps[l]
  BY <1>1 DEF MergeSet, Keeps
<1>4. ASSUME NEW l \in Levels PROVE base.reviewers[l] <= m.reviewers[l]
  <2>1. ~Clash(base.reviewers[l], old.reviewers[l], new.reviewers[l])
    BY DEF Conflicting
  <2>2. old.reviewers[l] <= new.reviewers[l]
    BY DEF Keeps
  <2>3. base.reviewers[l] \in Nat /\ old.reviewers[l] \in Nat /\ new.reviewers[l] \in Nat
    BY DEF IsPolicy
  <2>4. QED
    BY <1>1, <2>1, <2>2, <2>3 DEF Clash, Merge1
<1>5. m.blockingSeverity <= base.blockingSeverity
  <2>1. ~Clash(base.blockingSeverity, old.blockingSeverity, new.blockingSeverity)
    BY DEF Conflicting
  <2>2. new.blockingSeverity <= old.blockingSeverity
    BY DEF Keeps
  <2>3. QED
    BY <1>1, <2>1, <2>2 DEF Clash, Merge1, IsPolicy
<1>6. ASSUME NEW q \in DOMAIN base.rules, base.rules[q] # "none" PROVE m.rules[q] # "none"
  <2>1. ~Clash(base.rules[q], old.rules[q], new.rules[q])
    BY DEF Conflicting
  <2>2. old.rules[q] # "none" => new.rules[q] # "none"
    BY DEF Keeps, SamePaths
  <2>3. QED
    BY <1>1, <1>6, <2>1, <2>2 DEF Clash, Merge1
<1>7. Keeps(m, base)
  BY <1>2, <1>3, <1>4, <1>5, <1>6 DEF Keeps
<1>8. QED
  BY <1>7 DEF m

-----------------------------------------------------------------------------
\* The highest of some levels is one of them, and no lower than any.
LEMMA HighestIsHighest ==
    ASSUME NEW default \in Levels, NEW risks, risks \subseteq Levels
    PROVE  /\ HighestOf(default, risks) \in risks \cup {default}
           /\ HighestOf(default, risks) \in Levels
           /\ \A r \in risks \cup {default} : AtLeast(HighestOf(default, risks), r)
<1> DEFINE all == risks \cup {default}
           IsHighest(r) == r \in all /\ \A other \in all : RISK_ORDER[r] >= RISK_ORDER[other]
<1>1. /\ RISK_ORDER["low"] = 0 /\ RISK_ORDER["medium"] = 1 /\ RISK_ORDER["high"] = 2
      /\ all \subseteq {"low", "medium", "high"} /\ default \in all
  BY DEF RISK_ORDER, Levels
<1>2. \E r \in all : \A other \in all : RISK_ORDER[r] >= RISK_ORDER[other]
  <2> HIDE DEF all
  <2>1. CASE "high" \in all
    BY <1>1, <2>1
  <2>2. CASE "high" \notin all /\ "medium" \in all
    BY <1>1, <2>2
  <2>3. CASE "high" \notin all /\ "medium" \notin all
    BY <1>1, <2>3
  <2>4. QED
    BY <2>1, <2>2, <2>3
<1>3. IsHighest(HighestOf(default, risks))
  BY <1>2, Zenon DEF HighestOf
<1>4. QED
  BY <1>1, <1>3 DEF AtLeast, Levels

\* And therefore only higher, the more levels there are.
LEMMA HighestIsMonotone ==
    ASSUME NEW default \in Levels, NEW some \in SUBSET Levels, NEW more \in SUBSET Levels,
           some \subseteq more
    PROVE  AtLeast(HighestOf(default, more), HighestOf(default, some))
BY HighestIsHighest

\* The levels classifyRisk takes the highest of.
RisksOf(files, labels, p) ==
    RuleRisks(files, p) \cup labels
        \cup (IF escalations(files, p) \/ assessControlPlane(files, p) THEN {"high"} ELSE {})

\* They are levels, and classifyRisk takes the highest of them and the default.
LEMMA RisksAreLevels ==
    ASSUME NEW files, NEW labels \in SUBSET Levels, NEW p, IsPolicy(p)
    PROVE  /\ RisksOf(files, labels, p) \in SUBSET Levels
           /\ p.default \in Levels
           /\ classifyRisk(files, labels, p) = HighestOf(p.default, RisksOf(files, labels, p))
           /\ classifyRisk(files, labels, p) \in Levels
<1>1. RuleRisks(files, p) \subseteq Levels
  BY DEF RuleRisks, IsPolicy
<1>2. RisksOf(files, labels, p) \in SUBSET Levels
  BY <1>1 DEF RisksOf, Levels
<1>3. p.default \in Levels
  BY DEF IsPolicy
<1>4. classifyRisk(files, labels, p) = HighestOf(p.default, RisksOf(files, labels, p))
  BY Zenon DEF classifyRisk, RisksOf
<1>5. QED
  BY <1>2, <1>3, <1>4, HighestIsHighest

\* A label can only raise the risk.
LEMMA LabelsOnlyRaise ==
    ASSUME NEW files, NEW more \in SUBSET Levels, NEW fewer, fewer \subseteq more,
           NEW p, IsPolicy(p)
    PROVE  AtLeast(classifyRisk(files, more, p), classifyRisk(files, fewer, p))
<1>1. fewer \in SUBSET Levels
  OBVIOUS
<1>2. RisksOf(files, fewer, p) \subseteq RisksOf(files, more, p)
  BY DEF RisksOf
<1>3. QED
  BY <1>1, <1>2, RisksAreLevels, HighestIsMonotone

\* The stricter of two levels.
LEMMA StricterIsStricter ==
    ASSUME NEW a \in Levels, NEW b \in Levels
    PROVE  maxRisk(a, b) \in Levels /\ AtLeast(maxRisk(a, b), a) /\ AtLeast(maxRisk(a, b), b)
<1>1. RISK_ORDER["low"] = 0 /\ RISK_ORDER["medium"] = 1 /\ RISK_ORDER["high"] = 2
  BY DEF RISK_ORDER
<1>2. RISK_ORDER[a] \in Nat /\ RISK_ORDER[b] \in Nat
  BY <1>1 DEF Levels
<1>3. QED
  BY <1>2 DEF maxRisk, AtLeast

\* The order of the levels.
LEMMA AtLeastIsTransitive ==
    ASSUME NEW a \in Levels, NEW b \in Levels, NEW c \in Levels, AtLeast(a, b), AtLeast(b, c)
    PROVE  AtLeast(a, c)
<1>1. RISK_ORDER["low"] = 0 /\ RISK_ORDER["medium"] = 1 /\ RISK_ORDER["high"] = 2
  BY DEF RISK_ORDER
<1>2. RISK_ORDER[a] \in Nat /\ RISK_ORDER[b] \in Nat /\ RISK_ORDER[c] \in Nat
  BY <1>1 DEF Levels
<1>3. QED
  BY <1>2 DEF AtLeast

\* classifyRiskMonotonic is at least as strict as the trusted policy, and as the proposed one.
LEMMA ProposalOnlyRaises ==
    ASSUME NEW files, NEW labels \in SUBSET Levels, NEW base, IsPolicy(base),
           NEW head, head = <<>> \/ IsPolicy(head[1])
    PROVE  /\ classifyRiskMonotonic(files, labels, base, head) \in Levels
           /\ AtLeast(classifyRiskMonotonic(files, labels, base, head),
                      classifyRisk(files, labels, base))
<1>1. classifyRisk(files, labels, base) \in Levels
  BY RisksAreLevels
<1>2. CASE head = <<>>
  <2>1. classifyRiskMonotonic(files, labels, base, head) = classifyRisk(files, labels, base)
    BY <1>2, Zenon DEF classifyRiskMonotonic
  <2>2. RISK_ORDER[classifyRisk(files, labels, base)] \in Nat
    BY <1>1 DEF RISK_ORDER, Levels
  <2>3. QED
    BY <1>1, <2>1, <2>2 DEF AtLeast
<1>3. CASE head # <<>>
  <2>1. classifyRisk(files, labels, head[1]) \in Levels
    BY <1>3, RisksAreLevels
  <2>2. classifyRiskMonotonic(files, labels, base, head) =
            maxRisk(classifyRisk(files, labels, base), classifyRisk(files, labels, head[1]))
    BY <1>3, Zenon DEF classifyRiskMonotonic
  <2>3. QED
    BY <1>1, <2>1, <2>2, StricterIsStricter
<1>4. QED
  BY <1>2, <1>3

-----------------------------------------------------------------------------
\* What deletions adds up: one file after another.
IsTotal(total, files) ==
    /\ total[0] = 0
    /\ \A k \in 1..Len(files) :
           total[k - 1] \in Nat /\ total[k] \in Nat /\ total[k] = total[k - 1] + Len(files[k].removed)

\* The files of a change, by their places.
LEMMA FilesOfADiff ==
    ASSUME NEW files, IsDiff(files)
    PROVE  /\ Len(files) \in Nat /\ DOMAIN files = 1..Len(files)
           /\ \A k \in 1..Len(files) : files[k] \in Range(files) /\ Len(files[k].removed) \in Nat
<1>1. Len(files) \in Nat /\ DOMAIN files = 1..Len(files)
  BY DEF IsDiff, IsSequence
<1>2. ASSUME NEW k \in 1..Len(files) PROVE files[k] \in Range(files) /\ Len(files[k].removed) \in Nat
  <2>1. files[k] \in Range(files)
    BY <1>1 DEF Range
  <2>2. files[k].removed \in Seq(Range(files[k].removed))
    BY <2>1 DEF IsDiff, IsFile
  <2>3. QED
    BY <2>1, <2>2
<1>3. QED
  BY <1>1, <1>2

\* deletions is such a sum.
LEMMA DeletionsAddUp ==
    ASSUME NEW files, IsDiff(files)
    PROVE  \E total : IsTotal(total, files) /\ deletions(files) = total[Len(files)]
<1> DEFINE n == Len(files)
           Defines(g) == g = [k \in 0..n |-> IF k = 0 THEN 0 ELSE g[k - 1] + Len(files[k].removed)]
           total == CHOOSE g : Defines(g)
           d == [k \in 1..n |-> Len(files[k].removed)]
<1>0. n \in Nat /\ \A k \in 1..n : Len(files[k].removed) \in Nat
  BY FilesOfADiff
<1> HIDE DEF n
<1>1. d \in [1..n -> Nat]
  BY <1>0
<1>2. PICK g \in [0..n -> Nat] : g[0] = 0 /\ \A k \in 1..n : g[k] = g[k - 1] + d[k]
  <2> HIDE DEF d
  <2>1. QED
    BY <1>0, <1>1, AddedUp
<1>3. ASSUME NEW k \in 1..n PROVE g[k - 1] \in Nat /\ g[k] = g[k - 1] + Len(files[k].removed)
  <2>1. k - 1 \in 0..n
    BY <1>0
  <2>2. QED
    BY <1>2, <2>1
<1>4. Defines(g)
  <2>1. g = [k \in 0..n |-> g[k]]
    BY <1>2
  <2>2. \A k \in 0..n : g[k] = IF k = 0 THEN 0 ELSE g[k - 1] + Len(files[k].removed)
    BY <1>0, <1>2, <1>3
  <2>3. QED
    BY <2>1, <2>2
<1>5. Defines(total)
  <2> HIDE DEF Defines
  <2>1. QED
    BY <1>4
<1>6. deletions(files) = total[n]
  BY Zenon DEF deletions, n
<1> HIDE DEF total
<1>7. total[0] = 0 /\ \A k \in 1..n : total[k] = total[k - 1] + Len(files[k].removed)
  <2>1. total = [k \in 0..n |-> IF k = 0 THEN 0 ELSE total[k - 1] + Len(files[k].removed)]
    BY <1>5
  <2>2. \A k \in 0..n : total[k] = IF k = 0 THEN 0 ELSE total[k - 1] + Len(files[k].removed)
    BY <2>1
  <2>3. 0 \in 0..n /\ \A k \in 1..n : k \in 0..n /\ k # 0
    BY <1>0
  <2>4. QED
    BY <2>2, <2>3
<1>8. \A k \in 0..n : total[k] \in Nat
  <2>1. total[0] \in Nat
    BY <1>7
  <2>2. ASSUME NEW k \in 1..n, total[k - 1] \in Nat PROVE total[k] \in Nat
    <3>1. Len(files[k].removed) \in Nat /\ total[k] = total[k - 1] + Len(files[k].removed)
      BY <1>0, <1>7
    <3>2. QED
      BY <2>2, <3>1
  <2>3. QED
    BY <1>0, <2>1, <2>2, PrefixesStayIn
<1>9. IsTotal(total, files)
  <2>1. \A k \in 1..n : k - 1 \in 0..n /\ k \in 0..n
    BY <1>0
  <2>2. QED
    BY <1>7, <1>8, <2>1 DEF IsTotal, n
<1>10. QED
  BY <1>6, <1>9 DEF n

\* A change without one of its files is a change.
LEMMA WithoutIsDiff ==
    ASSUME NEW files, IsDiff(files), NEW i \in DOMAIN files
    PROVE  /\ IsDiff(Without(files, i)) /\ Len(files) \in Nat /\ i \in 1..Len(files)
           /\ Len(Without(files, i)) = Len(files) - 1
           /\ \A j \in 1..(Len(files) - 1) :
                  Without(files, i)[j] = IF j < i THEN files[j] ELSE files[j + 1]
           /\ Range(Without(files, i)) \subseteq Range(files)
<1> DEFINE w == Without(files, i)
<1>0. files \in Seq(Range(files)) /\ Len(files) \in Nat /\ DOMAIN files = 1..Len(files)
  BY DEF IsDiff, IsSequence
<1>1. PICK n \in Nat : n = Len(files) - 1
  <2>1. i \in 1..Len(files)
    BY <1>0
  <2>2. Len(files) - 1 \in Nat
    BY <1>0, <2>1
  <2>3. QED
    BY <2>2
<1>2. w = [j \in 1..n |-> IF j < i THEN files[j] ELSE files[j + 1]]
  BY <1>1 DEF Without
<1> HIDE DEF w
<1>3. ASSUME NEW j \in 1..n PROVE w[j] = (IF j < i THEN files[j] ELSE files[j + 1]) /\ w[j] \in Range(files)
  <2>1. j \in DOMAIN files /\ j + 1 \in DOMAIN files
    BY <1>0, <1>1
  <2>2. QED
    BY <1>2, <2>1 DEF Range
<1>4. w \in Seq(Range(files)) /\ Len(w) = n /\ DOMAIN w = 1..n
  BY <1>1, <1>2, <1>3
<1>5. Range(w) \subseteq Range(files)
  BY <1>3, <1>4 DEF Range
<1>6. w \in Seq(Range(w))
  <2>1. \A j \in 1..n : w[j] \in Range(w)
    BY <1>4 DEF Range
  <2>2. w = [j \in 1..n |-> w[j]]
    BY <1>2
  <2>3. QED
    BY <1>1, <2>1, <2>2
<1>7. IsDiff(w)
  BY <1>5, <1>6 DEF IsDiff, IsSequence
<1>8. QED
  BY <1>0, <1>1, <1>3, <1>4, <1>5, <1>7 DEF w

\* Fewer files have no more deletions.
LEMMA DeletionsOnlyGrow ==
    ASSUME NEW files, IsDiff(files), NEW i \in DOMAIN files
    PROVE  /\ deletions(files) \in Nat /\ deletions(Without(files, i)) \in Nat
           /\ deletions(Without(files, i)) <= deletions(files)
<1> DEFINE w == Without(files, i)
<1>1. PICK n \in Nat : n = Len(files)
  BY WithoutIsDiff
<1>2. /\ IsDiff(w) /\ Len(w) = n - 1 /\ i \in 1..n
      /\ \A j \in 1..(n - 1) : w[j] = IF j < i THEN files[j] ELSE files[j + 1]
  BY <1>1, WithoutIsDiff
<1> HIDE DEF w
<1>3. PICK total : IsTotal(total, files) /\ deletions(files) = total[n]
  BY <1>1, DeletionsAddUp
<1>4. PICK less : IsTotal(less, w) /\ deletions(w) = less[n - 1]
  BY <1>2, DeletionsAddUp
<1>5. /\ total[0] = 0
      /\ \A k \in 1..n : /\ total[k - 1] \in Nat /\ total[k] \in Nat
                          /\ total[k] = total[k - 1] + Len(files[k].removed)
  BY <1>1, <1>3 DEF IsTotal
<1>50. \A k \in 1..n : Len(files[k].removed) \in Nat
  BY <1>1, FilesOfADiff
<1>6. /\ less[0] = 0
      /\ \A k \in 1..(n - 1) : /\ less[k - 1] \in Nat /\ less[k] \in Nat
                                /\ less[k] = less[k - 1] + Len(w[k].removed)
  BY <1>2, <1>4 DEF IsTotal
<1>7. PICK m \in Nat : m = n - 1
  BY <1>2
<1> DEFINE T == {k \in 0..m : /\ k < i => less[k] = total[k]
                              /\ k >= i => less[k] <= total[k + 1]}
<1>8. \A k \in 0..m : k \in T
  <2>1. 0 \in T
    BY <1>2, <1>5, <1>6, <1>7
  <2>2. ASSUME NEW k \in 1..m, k - 1 \in T PROVE k \in T
    <3>1. /\ less[k - 1] \in Nat /\ less[k] \in Nat
          /\ less[k] = less[k - 1] + Len(w[k].removed)
      BY <1>6, <1>7
    <3>2. /\ total[k - 1] \in Nat /\ total[k] \in Nat /\ total[k + 1] \in Nat
          /\ total[k] = total[k - 1] + Len(files[k].removed)
          /\ total[k + 1] = total[k] + Len(files[k + 1].removed)
      <4>1. k \in 1..n /\ k + 1 \in 1..n /\ (k + 1) - 1 = k
        BY <1>7
      <4>2. QED
        BY <1>5, <4>1
    <3>3. CASE k < i
      <4>1. w[k] = files[k] /\ less[k - 1] = total[k - 1]
        BY <1>2, <1>7, <2>2, <3>3
      <4>2. QED
        BY <1>2, <3>1, <3>2, <3>3, <4>1
    <3>4. CASE k = i
      <4>1. w[k] = files[k + 1] /\ less[k - 1] = total[k - 1]
        BY <1>2, <1>7, <2>2, <3>4
      <4>2. Len(files[k].removed) \in Nat /\ Len(files[k + 1].removed) \in Nat
        <5>1. k \in 1..n /\ k + 1 \in 1..n
          BY <1>7
        <5>2. QED
          BY <1>50, <5>1
      <4>3. less[k] <= total[k + 1]
        <5>1. PICK a \in Nat, b \in Nat : a = Len(files[k].removed) /\ b = Len(files[k + 1].removed)
          BY <4>2
        <5>2. less[k] = total[k - 1] + b
          BY <3>1, <4>1, <5>1
        <5>3. total[k + 1] = total[k - 1] + a + b
          BY <3>2, <5>1
        <5>4. QED
          BY <3>2, <5>2, <5>3
      <4>4. QED
        BY <1>2, <3>4, <4>3
    <3>5. CASE k > i
      <4>1. w[k] = files[k + 1] /\ less[k - 1] <= total[k]
        <5>1. k - 1 >= i /\ (k - 1) + 1 = k
          BY <1>2, <3>5
        <5>2. QED
          BY <1>2, <1>7, <2>2, <3>5, <5>1
      <4>2. Len(files[k + 1].removed) \in Nat
        <5>1. k + 1 \in 1..n
          BY <1>7
        <5>2. QED
          BY <1>50, <5>1
      <4>3. less[k] <= total[k + 1]
        <5>1. PICK b \in Nat : b = Len(files[k + 1].removed)
          BY <4>2
        <5>2. less[k] = less[k - 1] + b
          BY <3>1, <4>1, <5>1
        <5>3. total[k + 1] = total[k] + b
          BY <3>2, <5>1
        <5>4. QED
          BY <3>1, <3>2, <4>1, <5>2, <5>3
      <4>4. QED
        BY <1>2, <3>5, <4>3
    <3>6. QED
      BY <1>2, <3>3, <3>4, <3>5
  <2>3. QED
    <3> HIDE DEF T
    <3>1. QED
      BY <1>7, <2>1, <2>2, InductionOnPrefixes
<1>9. total[n] \in Nat /\ less[m] \in Nat
  <2>1. n \in 1..n
    BY <1>2
  <2>2. m \in 1..(n - 1) \/ m = 0
    BY <1>7
  <2>3. QED
    BY <1>5, <1>6, <2>1, <2>2
<1>10. less[m] <= total[n]
  <2>1. m \in T /\ m + 1 = n
    BY <1>7, <1>8
  <2>2. CASE m >= i
    BY <2>1, <2>2
  <2>3. CASE m < i
    <3>1. less[m] = total[m]
      BY <2>1, <2>3
    <3>2. n \in 1..n /\ n - 1 = m
      BY <1>2, <1>7
    <3>3. total[m] \in Nat /\ total[n] = total[m] + Len(files[n].removed)
      BY <1>5, <3>2
    <3>4. Len(files[n].removed) \in Nat
      BY <1>50, <3>2
    <3>5. QED
      BY <3>1, <3>3, <3>4, <1>9
  <2>4. QED
    BY <1>2, <1>7, <2>2, <2>3
<1>11. QED
  BY <1>3, <1>4, <1>7, <1>9, <1>10 DEF w
\* And fewer files are no riskier.
LEMMA WithoutIsNoRiskier ==
    ASSUME NEW files, IsDiff(files), NEW i \in DOMAIN files,
           NEW labels \in SUBSET Levels, NEW p, IsPolicy(p)
    PROVE  AtLeast(classifyRisk(files, labels, p), classifyRisk(Without(files, i), labels, p))
<1> DEFINE w == Without(files, i)
<1>1. /\ IsDiff(w) /\ Len(files) \in Nat /\ Len(w) = Len(files) - 1
      /\ Range(w) \subseteq Range(files)
  BY WithoutIsDiff
<1>2. deletions(files) \in Nat /\ deletions(w) \in Nat /\ deletions(w) <= deletions(files)
  BY DeletionsOnlyGrow
<1> HIDE DEF w
<1>3. RuleRisks(w, p) \subseteq RuleRisks(files, p)
  BY <1>1 DEF RuleRisks
<1>4. assessControlPlane(w, p) => assessControlPlane(files, p)
  BY <1>1, Zenon DEF assessControlPlane
<1>5. escalations(w, p) => escalations(files, p)
  <2>1. p.maxChangedFiles \in Nat /\ p.maxDeletedLines \in Nat
    BY DEF IsPolicy
  <2>2. Len(w) > p.maxChangedFiles => Len(files) > p.maxChangedFiles
    BY <1>1, <2>1
  <2>3. deletions(w) > p.maxDeletedLines => deletions(files) > p.maxDeletedLines
    BY <1>2, <2>1
  <2>4. QED
    BY <1>1, <2>2, <2>3, Zenon DEF escalations
<1>6. RisksOf(w, labels, p) \subseteq RisksOf(files, labels, p)
  BY <1>3, <1>4, <1>5 DEF RisksOf
<1>7. AtLeast(classifyRisk(files, labels, p), classifyRisk(w, labels, p))
  BY <1>6, RisksAreLevels, HighestIsMonotone
<1>8. QED
  BY <1>7 DEF w

-----------------------------------------------------------------------------
\* A policy that can be in force: what the schema accepts, with a risk for the paths that have
\* one to begin with.
Possible(p) == IsPolicy(p) /\ SamePaths(p, InitialPolicy)

\* What may have become of the policy file.
FileStates == {"valid", "malformed", "deleted"}

\* The types of a pull request.
PullRequestOK(r) ==
    /\ DOMAIN r = {"pc", "files", "labels", "file", "fetched", "branch", "head", "asked", "judge",
                   "risk", "received"}
    /\ r.file \in FileStates
    /\ IsDiff(r.files)
    /\ r.labels \in SUBSET Levels
    /\ Possible(r.branch) /\ Possible(r.head)
    /\ r.asked \in 0..4

\* The types of the state.
PolicyTypeOK ==
    /\ Possible(policy)
    /\ policyFile \in FileStates
    /\ relaxed \in BOOLEAN /\ unread \in BOOLEAN
    /\ DOMAIN pr = PullRequests
    /\ \A p \in PullRequests : PullRequestOK(pr[p])

\* The ways around the comparison: a person merged past the gate, or the gate let go of what
\* it had not read.
Loose == relaxed \/ unread

\* Otherwise the policy has only gained protections, and has those of whatever the branches of
\* the pull requests started from.
BasesAreKept ==
    ~Loose =>
        /\ policyFile = "valid"
        /\ Keeps(policy, InitialPolicy)
        /\ \A p \in PullRequests : Keeps(policy, pr[p].branch)

\* What a pull request does to the policy has not been read.
Unseen(r) == (r.file # "valid" \/ ~r.fetched) /\ ~(r.file = "valid" /\ r.head = r.branch)

\* What has been read keeps what its branch started from.
KeepsIfSeen(r) == Unseen(r) \/ (r.file = "valid" /\ Keeps(r.head, r.branch))

\* So does what the gate lets go: it has kept what the policy it was judged by protects, and
\* that is no older.
PassedKeep == ~Loose => \A p \in PullRequests : pr[p].pc = "passed" => KeepsIfSeen(pr[p])

\* The inductive invariant.
PolicyInv == PolicyTypeOK /\ BasesAreKept /\ PassedKeep /\ JudgedByTheBase

\* JudgedByTheBase, of one pull request.
Judged(r) ==
    r.pc = "passed" =>
        /\ AtLeast(r.risk, classifyRisk(r.files, {}, r.judge))
        /\ r.received >= reviewersForRisk(r.judge, r.risk)

\* What Keeps says of two possible policies and a third.
LEMMA PossibleKeepOnwards ==
    ASSUME NEW a, NEW b, NEW c, Possible(a), Possible(b), Possible(c), Keeps(a, b), Keeps(b, c)
    PROVE  Keeps(a, c)
BY KeepsOnwards DEF Possible, SamePaths

\* A policy file with one entry changed is a policy.
LEMMA VariantsArePossible ==
    ASSUME NEW p, Possible(p), NEW v \in Variants(p)
    PROVE  Possible(v)
<1>0. IsPolicy(p) /\ DOMAIN p = PolicyParts
  BY DEF Possible, IsPolicy
<1>1. CASE v = p
  BY <1>1
<1>2. ASSUME NEW C \in SUBSET Checks, v = [p EXCEPT !.requiredChecks = C] PROVE Possible(v)
  BY <1>0, <1>2 DEF Possible, IsPolicy, SamePaths, PolicyParts
<1>3. ASSUME NEW l \in Levels, NEW n \in 1..2, v = [p EXCEPT !.reviewers[l] = n] PROVE Possible(v)
  BY <1>0, <1>3 DEF Possible, IsPolicy, SamePaths, PolicyParts
<1>4. ASSUME NEW l \in Levels, NEW S \in SUBSET Steps, v = [p EXCEPT !.steps[l] = S]
      PROVE Possible(v)
  BY <1>0, <1>4 DEF Possible, IsPolicy, SamePaths, PolicyParts
<1>5. ASSUME NEW s \in 2..3, v = [p EXCEPT !.blockingSeverity = s] PROVE Possible(v)
  BY <1>0, <1>5 DEF Possible, IsPolicy, SamePaths, PolicyParts
<1>6. ASSUME NEW q \in DOMAIN p.rules, NEW r \in Levels \cup {"none"}, v = [p EXCEPT !.rules[q] = r]
      PROVE Possible(v)
  BY <1>0, <1>6 DEF Possible, IsPolicy, SamePaths, PolicyParts
<1>7. CASE v = [p EXCEPT !.controlPatterns = {<<"elsewhere">>}, !.alwaysPolicy = {}]
  BY <1>0, <1>7 DEF Possible, IsPolicy, SamePaths, PolicyParts
<1>8. QED
  BY <1>1, <1>2, <1>3, <1>4, <1>5, <1>6, <1>7 DEF Variants

\* Merging leaves a possible policy.
LEMMA MergedIsPossible ==
    ASSUME NEW base, NEW old, NEW new, Possible(base), Possible(old), Possible(new)
    PROVE  Possible(Merged(base, old, new))
BY MergedIsPolicy DEF Possible, SamePaths

\* Merging a branch that keeps what it started from keeps what it is merged into.
LEMMA PossibleMergeKeeps ==
    ASSUME NEW base, NEW old, NEW new, Possible(base), Possible(old), Possible(new),
           ~Conflicting(base, old, new), Keeps(new, old)
    PROVE  Keeps(Merged(base, old, new), base)
BY MergedKeeps DEF Possible, SamePaths

\* A step that changes one pull request, and may let the policy gain.
LEMMA OneChanges ==
    ASSUME PolicyInv, NEW p \in PullRequests, NEW r, pr' = [pr EXCEPT ![p] = r],
           Possible(policy'), policyFile' \in FileStates, relaxed' \in BOOLEAN,
           unread' \in BOOLEAN, PullRequestOK(r), Judged(r),
           ~Loose' => /\ ~Loose /\ policyFile' = "valid"
                      /\ Keeps(policy', policy) /\ Keeps(policy', r.branch)
                      /\ r.pc = "passed" => KeepsIfSeen(r)
    PROVE  PolicyInv'
<1>1. /\ Possible(policy) /\ DOMAIN pr = PullRequests
      /\ \A o \in PullRequests : PullRequestOK(pr[o])
  BY DEF PolicyInv, PolicyTypeOK
<1>2. DOMAIN pr' = PullRequests /\ \A o \in PullRequests : pr'[o] = IF o = p THEN r ELSE pr[o]
  BY <1>1
<1>3. PolicyTypeOK'
  <2>1. \A o \in PullRequests : PullRequestOK(pr'[o])
    BY <1>1, <1>2
  <2>2. QED
    BY <1>2, <2>1 DEF PolicyTypeOK, PullRequestOK, Possible, SamePaths, IsPolicy, IsDiff
<1>4. BasesAreKept'
  <2>1. SUFFICES ASSUME ~Loose'
                 PROVE  /\ policyFile' = "valid"
                        /\ Keeps(policy', InitialPolicy)
                        /\ \A o \in PullRequests : Keeps(policy', pr'[o].branch)
    BY DEF BasesAreKept, Keeps
  <2>2. /\ ~Loose /\ policyFile' = "valid" /\ Keeps(policy', policy) /\ Keeps(policy', r.branch)
        /\ Keeps(policy, InitialPolicy) /\ \A o \in PullRequests : Keeps(policy, pr[o].branch)
    BY <2>1 DEF PolicyInv, BasesAreKept
  <2>3. Possible(InitialPolicy)
    BY PolicyAssumption DEF Possible, SamePaths
  <2>4. Keeps(policy', InitialPolicy)
    BY <1>1, <2>2, <2>3, PossibleKeepOnwards
  <2>5. ASSUME NEW o \in PullRequests PROVE Keeps(policy', pr[o].branch)
    <3>1. Possible(pr[o].branch)
      BY <1>1 DEF PullRequestOK
    <3>2. QED
      BY <1>1, <2>2, <3>1, PossibleKeepOnwards
  <2>6. QED
    BY <1>2, <2>2, <2>4, <2>5
<1>5. PassedKeep'
  <2>1. SUFFICES ASSUME ~Loose', NEW o \in PullRequests, pr'[o].pc = "passed"
                 PROVE  KeepsIfSeen(pr'[o])
    BY DEF PassedKeep, KeepsIfSeen, Unseen, Keeps
  <2>2. CASE o = p
    BY <1>2, <2>1, <2>2
  <2>3. CASE o # p
    BY <1>2, <2>1, <2>3 DEF PolicyInv, PassedKeep
  <2>4. QED
    BY <2>2, <2>3
<1>6. JudgedByTheBase'
  <2>1. \A o \in PullRequests : Judged(pr[o])
    BY DEF PolicyInv, JudgedByTheBase, Judged
  <2>2. \A o \in PullRequests : Judged(pr'[o])
    BY <1>2, <2>1
  <2>3. QED
    BY <2>2 DEF JudgedByTheBase, Judged, AtLeast
<1>7. QED
  BY <1>3, <1>4, <1>5, <1>6 DEF PolicyInv
-----------------------------------------------------------------------------
\* To begin with the policy keeps itself, and nothing has been judged.
LEMMA PolicyStarts == PolicyInit => PolicyInv
<1> SUFFICES ASSUME PolicyInit PROVE PolicyInv
  OBVIOUS
<1>1. IsPolicy(InitialPolicy) /\ Possible(InitialPolicy)
  BY PolicyAssumption DEF Possible, SamePaths
<1>2. Keeps(InitialPolicy, InitialPolicy)
  BY <1>1, KeepsItself
<1>3. IsDiff(<<>>)
  BY DEF IsDiff, IsSequence, Range
<1>4. PullRequestOK(NoPullRequest)
  BY <1>1, <1>3 DEF PullRequestOK, NoPullRequest, FileStates
<1>5. pr = [p \in PullRequests |-> NoPullRequest] /\ policy = InitialPolicy /\ policyFile = "valid"
      /\ relaxed = FALSE /\ unread = FALSE
  BY DEF PolicyInit
<1>6. PolicyTypeOK
  BY <1>1, <1>4, <1>5 DEF PolicyTypeOK, FileStates
<1>7. \A p \in PullRequests : pr[p].pc = "none" /\ pr[p].branch = InitialPolicy
  BY <1>5 DEF NoPullRequest
<1>8. QED
  BY <1>2, <1>5, <1>6, <1>7 DEF PolicyInv, BasesAreKept, PassedKeep, JudgedByTheBase

\* What is known of a pull request before a step.
LEMMA BeforeAStep ==
    ASSUME PolicyInv, NEW p \in PullRequests
    PROVE  /\ Possible(policy) /\ IsPolicy(policy) /\ policyFile \in FileStates
           /\ PullRequestOK(pr[p]) /\ Judged(pr[p])
           /\ ~Loose => /\ policyFile = "valid" /\ Keeps(policy, pr[p].branch)
                        /\ pr[p].pc = "passed" => KeepsIfSeen(pr[p])
BY DEF PolicyInv, PolicyTypeOK, BasesAreKept, PassedKeep, JudgedByTheBase, Judged, Possible

\* A step that leaves the policy as it is.
LEMMA OnlyOneChanges ==
    ASSUME PolicyInv, NEW p \in PullRequests, NEW r, pr' = [pr EXCEPT ![p] = r],
           UNCHANGED <<policy, policyFile, relaxed, unread>>, PullRequestOK(r), Judged(r),
           ~Loose => /\ Keeps(policy, r.branch)
                     /\ r.pc = "passed" => KeepsIfSeen(r)
    PROVE  PolicyInv'
<1>1. /\ Possible(policy) /\ policyFile \in FileStates /\ relaxed \in BOOLEAN /\ unread \in BOOLEAN
      /\ ~Loose => policyFile = "valid"
  BY DEF PolicyInv, PolicyTypeOK, BasesAreKept
<1>2. Keeps(policy, policy)
  BY <1>1, KeepsItself DEF Possible
<1>3. policy' = policy /\ policyFile' = policyFile /\ relaxed' = relaxed /\ unread' = unread
  OBVIOUS
<1>4. Possible(policy') /\ Keeps(policy', policy)
  BY <1>1, <1>2, <1>3
<1>5. ~Loose' => /\ ~Loose /\ policyFile' = "valid" /\ Keeps(policy', r.branch)
                 /\ r.pc = "passed" => KeepsIfSeen(r)
  BY <1>1, <1>3 DEF Loose
<1>6. policyFile' \in FileStates /\ relaxed' \in BOOLEAN /\ unread' \in BOOLEAN
  BY <1>1, <1>3
<1>7. QED
  BY <1>4, <1>5, <1>6, OneChanges

\* A branch starts from the policy as it is, with one that is possible.
LEMMA OpenKeepsPolicyInv ==
    ASSUME PolicyInv, NEW p \in PullRequests, NEW files \in FileSets, NEW labels \in LabelSets,
           Open(p, files, labels)
    PROVE  PolicyInv'
<1>1. Possible(policy) /\ Keeps(policy, policy) /\ PullRequestOK(pr[p])
  BY BeforeAStep, KeepsItself DEF Possible
<1>2. IsDiff(files) /\ labels \in SUBSET Levels
  BY PolicyAssumption
<1>3. ASSUME NEW head, Possible(head), NEW file \in FileStates, Opened(p, files, labels, head, file)
      PROVE  PolicyInv'
  <2> DEFINE r == [pr[p] EXCEPT !.pc = "open", !.files = files, !.labels = labels,
                                !.file = file, !.branch = policy, !.head = head]
  <2>1. pr' = [pr EXCEPT ![p] = r]
    BY <1>3 DEF Opened
  <2>2. UNCHANGED <<policy, policyFile, relaxed, unread>>
    BY DEF Open
  <2>3. /\ DOMAIN r = DOMAIN pr[p] /\ r.pc = "open" /\ r.files = files /\ r.labels = labels
        /\ r.branch = policy /\ r.head = head /\ r.asked = pr[p].asked /\ r.file = file
    BY <1>1 DEF PullRequestOK
  <2> HIDE DEF r
  <2>4. PullRequestOK(r) /\ Judged(r)
    BY <1>1, <1>2, <1>3, <2>3 DEF PullRequestOK, Judged
  <2>5. QED
    BY <1>1, <2>1, <2>2, <2>3, <2>4, OnlyOneChanges
<1>4. ASSUME NEW file \in FileStates, Opened(p, files, labels, policy, file) PROVE PolicyInv'
  BY <1>1, <1>3, <1>4
<1>5. ASSUME NEW head \in Variants(policy), Opened(p, files, labels, head, "valid") PROVE PolicyInv'
  BY <1>1, <1>3, <1>5, VariantsArePossible DEF FileStates
<1>6. QED
  BY <1>4, <1>5 DEF Open, FileStates

\* The risk of a pull request, with the policy it proposes if it could be read, and how many
\* reviews that asks for.
LEMMA ReviewersAreCounted ==
    ASSUME PolicyInv, NEW p \in PullRequests, NEW head, head = <<>> \/ head = <<pr[p].head>>,
           NEW risk, risk = classifyRiskMonotonic(pr[p].files, pr[p].labels, policy, head)
    PROVE  /\ risk \in Levels
           /\ reviewersForRisk(policy, risk) \in 1..4
           /\ AtLeast(risk, classifyRisk(pr[p].files, {}, policy))
<1> DEFINE files == pr[p].files
           labels == pr[p].labels
<1>1. /\ IsPolicy(policy) /\ labels \in SUBSET Levels /\ IsPolicy(pr[p].head)
  BY BeforeAStep DEF PullRequestOK, Possible
<1>2. head = <<>> \/ IsPolicy(head[1])
  BY <1>1
<1>3. risk = classifyRiskMonotonic(files, labels, policy, head)
  OBVIOUS
<1> HIDE DEF files, labels
<1>4. risk \in Levels /\ AtLeast(risk, classifyRisk(files, labels, policy))
  BY <1>1, <1>2, <1>3, ProposalOnlyRaises
<1>5. AtLeast(classifyRisk(files, labels, policy), classifyRisk(files, {}, policy))
  BY <1>1, LabelsOnlyRaise
<1>6. classifyRisk(files, labels, policy) \in Levels /\ classifyRisk(files, {}, policy) \in Levels
  BY <1>1, RisksAreLevels
<1>7. AtLeast(risk, classifyRisk(files, {}, policy))
  BY <1>4, <1>5, <1>6, AtLeastIsTransitive
<1>8. reviewersForRisk(policy, risk) \in 1..4
  BY <1>1, <1>4 DEF reviewersForRisk, IsPolicy
<1>9. QED
  BY <1>4, <1>7, <1>8 DEF files

\* To be classified changes nothing but the number of reviews asked for, and whether the head
\* is there to read.
LEMMA ClassifyKeepsPolicyInv ==
    ASSUME PolicyInv, NEW p \in PullRequests, Classify(p)
    PROVE  PolicyInv'
<1>1. PullRequestOK(pr[p]) /\ (~Loose => Keeps(policy, pr[p].branch))
  BY BeforeAStep
<1>2. PICK fetched \in BOOLEAN :
          LET risk == classifyRiskMonotonic(pr[p].files, pr[p].labels, policy,
                          IF fetched /\ pr[p].file = "valid" THEN <<pr[p].head>> ELSE <<>>)
          IN  pr' = [pr EXCEPT ![p] = [pr[p] EXCEPT !.pc = "review", !.fetched = fetched,
                                                    !.asked = reviewersForRisk(policy, risk)]]
  BY Zenon DEF Classify
<1> DEFINE head == IF fetched /\ pr[p].file = "valid" THEN <<pr[p].head>> ELSE <<>>
           risk == classifyRiskMonotonic(pr[p].files, pr[p].labels, policy, head)
           n == reviewersForRisk(policy, risk)
           r == [pr[p] EXCEPT !.pc = "review", !.fetched = fetched, !.asked = n]
<1>3. head = <<>> \/ head = <<pr[p].head>>
  OBVIOUS
<1>4. n \in 1..4
  <2> HIDE DEF head
  <2>1. QED
    BY <1>3, ReviewersAreCounted
<1>5. pr' = [pr EXCEPT ![p] = r] /\ UNCHANGED <<policy, policyFile, relaxed, unread>>
  BY <1>2, Zenon DEF Classify
<1> HIDE DEF n
<1>6. /\ DOMAIN r = DOMAIN pr[p] /\ r.pc = "review" /\ r.files = pr[p].files /\ r.file = pr[p].file
      /\ r.labels = pr[p].labels /\ r.branch = pr[p].branch /\ r.head = pr[p].head /\ r.asked = n
  BY <1>1 DEF PullRequestOK
<1> HIDE DEF r
<1>7. PullRequestOK(r) /\ Judged(r)
  BY <1>1, <1>4, <1>6 DEF PullRequestOK, Judged
<1>8. QED
  BY <1>1, <1>5, <1>6, <1>7, OnlyOneChanges

\* What the gate lets go weakens nothing of the policy, and so nothing its branch started from.
LEMMA EvaluateKeepsPolicyInv ==
    ASSUME PolicyInv, NEW p \in PullRequests, Evaluate(p)
    PROVE  PolicyInv'
<1>0. PullRequestOK(pr[p]) /\ (~Loose => Keeps(policy, pr[p].branch)) /\ Possible(policy)
  BY BeforeAStep
<1>1. /\ reviewersForRisk(policy, Risk(p)) \in 1..4
      /\ AtLeast(Risk(p), classifyRisk(pr[p].files, {}, policy))
  <2>1. Proposed(p) = <<>> \/ Proposed(p) = <<pr[p].head>>
    BY DEF Proposed
  <2>2. Risk(p) = classifyRiskMonotonic(pr[p].files, pr[p].labels, policy, Proposed(p))
    BY Zenon DEF Risk
  <2>3. QED
    BY <2>1, <2>2, ReviewersAreCounted
<1>2. PICK received \in reviewersForRisk(policy, Risk(p))..pr[p].asked :
          pr' = [pr EXCEPT ![p] = [pr[p] EXCEPT !.pc = "passed", !.judge = policy, !.risk = Risk(p),
                                                !.received = received]]
  BY DEF Evaluate
<1> DEFINE r == [pr[p] EXCEPT !.pc = "passed", !.judge = policy, !.risk = Risk(p),
                              !.received = received]
<1>3. pr' = [pr EXCEPT ![p] = r] /\ UNCHANGED <<policy, policyFile, relaxed, unread>>
  BY <1>2 DEF Evaluate
<1>4. /\ DOMAIN r = DOMAIN pr[p] /\ r.pc = "passed" /\ r.files = pr[p].files
      /\ r.labels = pr[p].labels /\ r.branch = pr[p].branch /\ r.head = pr[p].head
      /\ r.asked = pr[p].asked /\ r.judge = policy /\ r.risk = Risk(p) /\ r.received = received
      /\ r.file = pr[p].file /\ r.fetched = pr[p].fetched
  BY <1>0 DEF PullRequestOK
<1> HIDE DEF r
<1>5. PullRequestOK(r)
  BY <1>0, <1>4 DEF PullRequestOK
<1>6. received >= reviewersForRisk(policy, Risk(p))
  <2>1. pr[p].asked \in 0..4
    BY <1>0 DEF PullRequestOK
  <2>2. QED
    BY <1>1, <1>2, <2>1
<1>7. Judged(r)
  BY <1>0, <1>1, <1>4, <1>6 DEF Judged
<1>8. ASSUME Proposed(p) # <<>> PROVE pr[p].file = "valid" /\ Keeps(pr[p].head, policy)
  <2>1. pr[p].file = "valid" /\ pr[p].fetched /\ Proposed(p) = <<pr[p].head>>
    BY <1>8 DEF Proposed
  <2>2. ~PolicyWeakened(policy, pr[p].head)
    BY <2>1 DEF Evaluate, Weakens
  <2>3. IsPolicy(policy) /\ IsPolicy(pr[p].head)
    BY <1>0 DEF PullRequestOK, Possible
  <2>4. QED
    BY <2>1, <2>2, <2>3, NotWeakenedKeeps
<1>9. ~Loose => KeepsIfSeen(r)
  <2>1. Possible(pr[p].head) /\ Possible(pr[p].branch) /\ IsPolicy(pr[p].branch)
    BY <1>0 DEF PullRequestOK, Possible
  <2>2. ASSUME ~Loose, Proposed(p) # <<>> PROVE Keeps(pr[p].head, pr[p].branch)
    BY <1>0, <1>8, <2>1, <2>2, PossibleKeepOnwards
  <2>3. ASSUME pr[p].head = pr[p].branch PROVE Keeps(pr[p].head, pr[p].branch)
    BY <2>1, <2>3, KeepsItself
  <2>4. CASE Proposed(p) = <<>>
    <3>1. pr[p].file # "valid" \/ ~pr[p].fetched
      BY <2>4 DEF Proposed
    <3>2. QED
      BY <1>4, <2>3, <3>1 DEF KeepsIfSeen, Unseen
  <2>5. CASE Proposed(p) # <<>>
    BY <1>4, <1>8, <2>2, <2>5 DEF KeepsIfSeen
  <2>6. QED
    BY <2>4, <2>5
<1>10. QED
  BY <1>0, <1>3, <1>4, <1>5, <1>7, <1>9, OnlyOneChanges

\* What the gate stops is as open as before.
LEMMA StoppedKeepsPolicyInv ==
    ASSUME PolicyInv, NEW p \in PullRequests, Stopped(p)
    PROVE  PolicyInv'
<1> DEFINE r == [pr[p] EXCEPT !.pc = "open"]
<1>1. PullRequestOK(pr[p]) /\ (~Loose => Keeps(policy, pr[p].branch))
  BY BeforeAStep
<1>2. pr' = [pr EXCEPT ![p] = r] /\ UNCHANGED <<policy, policyFile, relaxed, unread>>
  BY DEF Stopped
<1>3. /\ DOMAIN r = DOMAIN pr[p] /\ r.pc = "open" /\ r.files = pr[p].files
      /\ r.labels = pr[p].labels /\ r.branch = pr[p].branch /\ r.head = pr[p].head
      /\ r.asked = pr[p].asked /\ r.file = pr[p].file
  BY <1>1 DEF PullRequestOK
<1> HIDE DEF r
<1>4. PullRequestOK(r) /\ Judged(r)
  BY <1>1, <1>3 DEF PullRequestOK, Judged
<1>5. QED
  BY <1>1, <1>2, <1>3, <1>4, OnlyOneChanges

\* A branch that is brought up to date starts from the policy as it is now.
LEMMA UpdateBranchKeepsPolicyInv ==
    ASSUME PolicyInv, NEW p \in PullRequests, UpdateBranch(p)
    PROVE  PolicyInv'
<1> DEFINE m == Merged(policy, pr[p].branch, pr[p].head)
           r == [pr[p] EXCEPT !.pc = "open", !.branch = policy, !.head = m]
<1>1. /\ PullRequestOK(pr[p]) /\ Possible(policy) /\ Keeps(policy, policy)
      /\ Possible(pr[p].branch) /\ Possible(pr[p].head)
  BY BeforeAStep, KeepsItself DEF PullRequestOK
<1>2. Possible(m)
  BY <1>1, MergedIsPossible
<1>3. pr' = [pr EXCEPT ![p] = r] /\ UNCHANGED <<policy, policyFile, relaxed, unread>>
  BY DEF UpdateBranch
<1> HIDE DEF m
<1>4. /\ DOMAIN r = DOMAIN pr[p] /\ r.pc = "open" /\ r.files = pr[p].files
      /\ r.labels = pr[p].labels /\ r.branch = policy /\ r.head = m
      /\ r.asked = pr[p].asked /\ r.file = pr[p].file
  BY <1>1 DEF PullRequestOK
<1> HIDE DEF r
<1>5. PullRequestOK(r) /\ Judged(r)
  BY <1>1, <1>2, <1>4 DEF PullRequestOK, Judged
<1>6. QED
  BY <1>1, <1>3, <1>4, <1>5, OnlyOneChanges

\* A merge, of one that kept the protections, or by hand.
LEMMA MergeOfKeepsPolicyInv ==
    ASSUME PolicyInv, NEW p \in PullRequests, MergeOf(p), relaxed' \in BOOLEAN,
           unread' \in BOOLEAN, ~Loose' => ~Loose /\ pr[p].pc = "passed" /\ ~Unread(p)
    PROVE  PolicyInv' /\ (~Loose' => Keeps(policy', policy))
<1> DEFINE r == [pr[p] EXCEPT !.pc = "merged"]
           m == Merged(policy, pr[p].branch, pr[p].head)
<1>1. /\ PullRequestOK(pr[p]) /\ Possible(policy) /\ policyFile \in FileStates
      /\ Possible(pr[p].branch) /\ Possible(pr[p].head) /\ pr[p].file \in FileStates
      /\ ~Loose => /\ policyFile = "valid" /\ Keeps(policy, pr[p].branch)
                   /\ pr[p].pc = "passed" => KeepsIfSeen(pr[p])
  BY BeforeAStep DEF PullRequestOK
<1>2. /\ policyFile' = IF pr[p].file = "valid" THEN policyFile ELSE pr[p].file
      /\ policy' = IF policyFile' = "valid" THEN m ELSE policy
      /\ pr' = [pr EXCEPT ![p] = r]
      /\ policyFile = "valid" => ~Conflicting(policy, pr[p].branch, pr[p].head)
  BY DEF MergeOf, Unmergeable
<1>3. Possible(policy') /\ policyFile' \in FileStates
  <2>1. Possible(m)
    BY <1>1, MergedIsPossible
  <2> HIDE DEF m
  <2>2. QED
    BY <1>1, <1>2, <2>1
<1>4. ASSUME ~Loose'
      PROVE  ~Loose /\ policyFile = "valid" /\ pr[p].file = "valid" /\ Keeps(pr[p].head, pr[p].branch)
  <2>1. KeepsIfSeen(pr[p]) /\ ~Unread(p)
    BY <1>1, <1>4
  <2>2. ~Unseen(pr[p])
    BY <2>1 DEF Unread, Unseen, Proposed
  <2>3. QED
    BY <1>1, <1>4, <2>1, <2>2 DEF KeepsIfSeen
<1>5. ~Loose' => /\ ~Loose /\ policyFile' = "valid"
                 /\ Keeps(policy', policy) /\ Keeps(policy', pr[p].branch)
  <2>1. SUFFICES ASSUME ~Loose'
                 PROVE  ~Loose /\ policyFile' = "valid" /\ Keeps(policy', policy)
                        /\ Keeps(policy', pr[p].branch)
    OBVIOUS
  <2>2. /\ ~Loose /\ policyFile' = "valid" /\ policyFile = "valid"
        /\ Keeps(pr[p].head, pr[p].branch) /\ Keeps(policy, pr[p].branch)
    BY <1>1, <1>2, <1>4, <2>1
  <2>3. Keeps(m, policy)
    BY <1>1, <1>2, <2>2, PossibleMergeKeeps
  <2>4. policy' = m
    BY <1>2, <2>2
  <2>5. Keeps(policy', policy)
    BY <2>3, <2>4
  <2>6. Keeps(policy', pr[p].branch)
    BY <1>1, <1>3, <2>2, <2>5, PossibleKeepOnwards
  <2>7. QED
    BY <2>2, <2>5, <2>6
<1>6. /\ DOMAIN r = DOMAIN pr[p] /\ r.pc = "merged" /\ r.files = pr[p].files
      /\ r.labels = pr[p].labels /\ r.branch = pr[p].branch /\ r.head = pr[p].head
      /\ r.asked = pr[p].asked /\ r.file = pr[p].file
  BY <1>1 DEF PullRequestOK
<1> HIDE DEF r
<1>7. PullRequestOK(r) /\ Judged(r)
  BY <1>1, <1>6 DEF PullRequestOK, Judged
<1>8. PolicyInv'
  BY <1>2, <1>3, <1>5, <1>6, <1>7, OneChanges
<1>9. QED
  BY <1>5, <1>8

\* Each step keeps the invariant, and the protections of the policy.
LEMMA PolicySteps ==
    ASSUME PolicyInv, [PolicyNext]_policyVars
    PROVE  PolicyInv' /\ ((~Loose' => Keeps(policy', policy)) \/ UNCHANGED policyVars)
<1>0. Possible(policy) /\ Keeps(policy, policy) /\ relaxed \in BOOLEAN /\ unread \in BOOLEAN
  BY KeepsItself DEF PolicyInv, PolicyTypeOK, Possible
<1> DEFINE Goal == PolicyInv' /\ ((~Loose' => Keeps(policy', policy)) \/ UNCHANGED policyVars)
<1>1. ASSUME NEW p \in PullRequests, PullRequestStep(p) PROVE Goal
  <2>1. ASSUME NEW files \in FileSets, NEW labels \in LabelSets, Open(p, files, labels) PROVE Goal
    <3>1. policy' = policy
      BY <2>1 DEF Open
    <3>2. Keeps(policy', policy)
      BY <1>0, <3>1
    <3>3. QED
      BY <2>1, <3>2, OpenKeepsPolicyInv
  <2>2. CASE Classify(p)
    <3>1. policy' = policy
      BY <2>2 DEF Classify
    <3>2. Keeps(policy', policy)
      BY <1>0, <3>1
    <3>3. QED
      BY <2>2, <3>2, ClassifyKeepsPolicyInv
  <2>3. CASE Evaluate(p)
    <3>1. policy' = policy
      BY <2>3 DEF Evaluate
    <3>2. Keeps(policy', policy)
      BY <1>0, <3>1
    <3>3. QED
      BY <2>3, <3>2, EvaluateKeepsPolicyInv
  <2>4. CASE Stopped(p)
    <3>1. policy' = policy
      BY <2>4 DEF Stopped
    <3>2. Keeps(policy', policy)
      BY <1>0, <3>1
    <3>3. QED
      BY <2>4, <3>2, StoppedKeepsPolicyInv
  <2>5. CASE UpdateBranch(p)
    <3>1. policy' = policy
      BY <2>5 DEF UpdateBranch
    <3>2. Keeps(policy', policy)
      BY <1>0, <3>1
    <3>3. QED
      BY <2>5, <3>2, UpdateBranchKeepsPolicyInv
  <2>6. CASE Merge(p)
    <3>1. /\ MergeOf(p) /\ relaxed' = relaxed /\ pr[p].pc = "passed"
          /\ unread' = (unread \/ Unread(p))
      BY <2>6 DEF Merge
    <3>2. /\ relaxed' \in BOOLEAN /\ unread' \in BOOLEAN
          /\ ~Loose' => ~Loose /\ pr[p].pc = "passed" /\ ~Unread(p)
      BY <1>0, <3>1 DEF Loose
    <3>3. QED
      BY <3>1, <3>2, MergeOfKeepsPolicyInv
  <2>7. CASE MergeByHand(p)
    <3>1. MergeOf(p) /\ relaxed' = TRUE /\ unread' = unread
      BY <2>7 DEF MergeByHand
    <3>2. relaxed' \in BOOLEAN /\ unread' \in BOOLEAN /\ Loose'
      BY <1>0, <3>1 DEF Loose
    <3>3. QED
      BY <3>1, <3>2, MergeOfKeepsPolicyInv
  <2>8. QED
    BY <1>1, <2>1, <2>2, <2>3, <2>4, <2>5, <2>6, <2>7 DEF PullRequestStep
<1>2. CASE UNCHANGED policyVars
  <2>1. /\ policy' = policy /\ policyFile' = policyFile /\ pr' = pr
        /\ relaxed' = relaxed /\ unread' = unread
    BY <1>2 DEF policyVars
  <2>2. PolicyInv'
    BY <2>1 DEF PolicyInv, PolicyTypeOK, PullRequestOK, BasesAreKept, PassedKeep, JudgedByTheBase,
                Possible, SamePaths, IsPolicy, IsDiff, Keeps, AtLeast, Loose, KeepsIfSeen, Unseen
  <2>3. QED
    BY <1>2, <2>2
<1>3. QED
  BY <1>1, <1>2 DEF PolicyNext

\* Every state a policy can get into is as the invariant says.
THEOREM PolicyInvariance == PolicySpec => []PolicyInv
<1>1. PolicyInv /\ [PolicyNext]_policyVars => PolicyInv'
  BY PolicySteps
<1>2. QED
  BY PolicyStarts, <1>1, PTL DEF PolicySpec

\* No protection of the beginning is lost, by however many changes that the gate has read,
\* judged against whatever bases and merged in any order: findWeakenedProtections compares with
\* the policy in force, and git merges no entry that both sides changed.
THEOREM ProtectionsSurviveHolds == PolicySpec => []ProtectionsSurvive
<1>1. PolicyInv => ProtectionsSurvive
  BY DEF PolicyInv, BasesAreKept, ProtectionsSurvive, Loose
<1>2. QED
  BY PolicyInvariance, <1>1, PTL

\* Nor is one that was added on the way.
THEOREM ProtectionsOnlyGrowHolds == PolicySpec => ProtectionsOnlyGrow
<1>1. PolicyInv /\ [PolicyNext]_policyVars =>
          [~relaxed' /\ ~unread' => Keeps(policy', policy)]_policyVars
  BY PolicySteps DEF Loose
<1>2. QED
  BY PolicyInvariance, <1>1, PTL DEF PolicySpec, ProtectionsOnlyGrow

\* A pull request cannot lower its own risk, by the policy it brings along or by its labels,
\* nor the reviews the trusted policy asks of that risk.
THEOREM JudgedByTheBaseHolds == PolicySpec => []JudgedByTheBase
<1>1. PolicyInv => JudgedByTheBase
  BY DEF PolicyInv
<1>2. QED
  BY PolicyInvariance, <1>1, PTL

\* classifyRisk only moves up: with each file, with each label, and from the default.
THEOREM RiskOnlyMovesUpHolds == PolicySpec => []RiskOnlyMovesUp
<1>1. ASSUME PolicyInv PROVE RiskOnlyMovesUp
  <2>1. ASSUME NEW p \in PullRequests
        PROVE  LET risk == classifyRisk(pr[p].files, pr[p].labels, policy)
               IN  /\ AtLeast(risk, policy.default)
                   /\ \A i \in DOMAIN pr[p].files :
                         AtLeast(risk, classifyRisk(Without(pr[p].files, i), pr[p].labels, policy))
                   /\ \A l \in pr[p].labels :
                         /\ AtLeast(risk, l)
                         /\ AtLeast(risk, classifyRisk(pr[p].files, pr[p].labels \ {l}, policy))
    <3>1. PICK files, labels : files = pr[p].files /\ labels = pr[p].labels
      OBVIOUS
    <3>2. IsPolicy(policy) /\ IsDiff(files) /\ labels \in SUBSET Levels
      BY <1>1, <3>1, BeforeAStep DEF PullRequestOK
    <3>3. \A i \in DOMAIN files :
              AtLeast(classifyRisk(files, labels, policy), classifyRisk(Without(files, i), labels, policy))
      BY <3>2, WithoutIsNoRiskier
    <3>4. /\ RisksOf(files, labels, policy) \in SUBSET Levels /\ policy.default \in Levels
          /\ classifyRisk(files, labels, policy) = HighestOf(policy.default, RisksOf(files, labels, policy))
      BY <3>2, RisksAreLevels
    <3>5. \A r \in RisksOf(files, labels, policy) \cup {policy.default} :
              AtLeast(classifyRisk(files, labels, policy), r)
      BY <3>4, HighestIsHighest
    <3>6. labels \subseteq RisksOf(files, labels, policy)
      BY DEF RisksOf
    <3>7. \A l \in labels :
              AtLeast(classifyRisk(files, labels, policy), classifyRisk(files, labels \ {l}, policy))
      BY <3>2, LabelsOnlyRaise
    <3>8. QED
      BY <3>1, <3>3, <3>5, <3>6, <3>7
  <2>2. QED
    BY <2>1, Zenon DEF RiskOnlyMovesUp
<1>2. QED
  BY PolicyInvariance, <1>1, PTL

-----------------------------------------------------------------------------
\* The reading of a diff.  g is what has been read of a text before and after each line.
Reads(g, start, text) ==
    g[0] = start /\ \A k \in 1..Len(text) : g[k] = ReadLine(g[k - 1], text[k])

\* A text, read with these files before it, makes those of them.
Yields(start, text, end) ==
    IsSequence(text) /\ \E g : Reads(g, start, text) /\ g[Len(text)] = end

\* The elements of a sequence, by the numbers from 1 on.
LEMMA SequenceParts ==
    ASSUME NEW s, IsSequence(s)
    PROVE  /\ s \in Seq(Range(s)) /\ Len(s) \in Nat /\ DOMAIN s = 1..Len(s)
           /\ \A k \in 1..Len(s) : s[k] \in Range(s)
<1>1. s \in Seq(Range(s))
  BY DEF IsSequence
<1>2. Len(s) \in Nat /\ DOMAIN s = 1..Len(s)
  BY <1>1
<1>3. QED
  BY <1>1, <1>2 DEF Range

\* What is a sequence of anything is one of its own elements.
LEMMA OwnElements ==
    ASSUME NEW S, NEW s \in Seq(S)
    PROVE  IsSequence(s)
<1>1. Len(s) \in Nat /\ DOMAIN s = 1..Len(s) /\ s = [k \in 1..Len(s) |-> s[k]]
  BY LenProperties
<1>2. \A k \in 1..Len(s) : s[k] \in Range(s)
  BY <1>1 DEF Range
<1>3. s \in [1..Len(s) -> Range(s)]
  BY <1>1, <1>2
<1>4. QED
  BY <1>1, <1>3 DEF IsSequence

\* A text is read in one way only.
LEMMA OneReading ==
    ASSUME NEW start, NEW text, IsSequence(text), NEW g, NEW h,
           Reads(g, start, text), Reads(h, start, text)
    PROVE  g[Len(text)] = h[Len(text)]
<1> DEFINE n == Len(text)
           T == {k \in 0..n : g[k] = h[k]}
<1>0. n \in Nat
  BY SequenceParts
<1>1. 0 \in T
  BY <1>0 DEF Reads
<1>2. ASSUME NEW k \in 1..n, k - 1 \in T PROVE k \in T
  <2>1. g[k] = ReadLine(g[k - 1], text[k]) /\ h[k] = ReadLine(h[k - 1], text[k])
    BY DEF Reads
  <2>2. g[k - 1] = h[k - 1]
    BY <1>2
  <2>3. QED
    BY <2>1, <2>2
<1>3. \A k \in 0..n : k \in T
  <2> HIDE DEF T, n
  <2>1. QED
    BY <1>0, <1>1, <1>2, InductionOnPrefixes
<1>4. n \in 0..n
  BY <1>0
<1>5. QED
  BY <1>3, <1>4

\* And parseUnifiedDiff reads it so.
LEMMA ParseReads ==
    ASSUME NEW text, IsSequence(text)
    PROVE  \E g : Reads(g, <<>>, text) /\ parseUnifiedDiff(text) = g[Len(text)]
<1> DEFINE n == Len(text)
           Defines(g, m) ==
               g = [k \in 0..m |-> IF k = 0 THEN <<>> ELSE ReadLine(g[k - 1], text[k])]
           T == {m \in Nat : \E g : Defines(g, m)}
           read == CHOOSE g : Defines(g, n)
<1>0. n \in Nat
  BY SequenceParts
<1>1. 0 \in T
  <2>1. Defines([k \in 0..0 |-> <<>>], 0)
    OBVIOUS
  <2>2. QED
    BY <2>1
<1>2. ASSUME NEW m \in Nat, m \in T PROVE m + 1 \in T
  <2>1. PICK g : Defines(g, m)
    BY <1>2
  <2> DEFINE h == [k \in 0..(m + 1) |-> IF k = m + 1 THEN ReadLine(g[m], text[m + 1]) ELSE g[k]]
  <2>2. \A k \in 0..m : g[k] = IF k = 0 THEN <<>> ELSE ReadLine(g[k - 1], text[k])
    BY <2>1
  <2>3. ASSUME NEW k \in 0..(m + 1)
        PROVE  h[k] = IF k = 0 THEN <<>> ELSE ReadLine(h[k - 1], text[k])
    <3>1. CASE k = m + 1
      <4>1. h[k] = ReadLine(g[m], text[m + 1]) /\ k - 1 = m /\ m \in 0..(m + 1) /\ k # 0
        BY <3>1
      <4>2. h[m] = g[m]
        BY <4>1
      <4>3. QED
        BY <3>1, <4>1, <4>2
    <3>2. CASE k = 0
      BY <2>2, <3>2
    <3>3. CASE k \in 1..m
      <4>1. h[k] = g[k] /\ k - 1 \in 0..m /\ k - 1 # m + 1 /\ k # 0 /\ k \in 0..m
        BY <3>3
      <4>2. h[k - 1] = g[k - 1]
        BY <4>1
      <4>3. g[k] = ReadLine(g[k - 1], text[k])
        BY <2>2, <4>1
      <4>4. QED
        BY <4>1, <4>2, <4>3
    <3>4. QED
      BY <3>1, <3>2, <3>3
  <2>4. h = [k \in 0..(m + 1) |-> h[k]]
    OBVIOUS
  <2> HIDE DEF h
  <2>5. Defines(h, m + 1)
    BY <2>3, <2>4
  <2>6. QED
    BY <2>5
<1>3. n \in T
  <2> HIDE DEF T, n
  <2>1. QED
    BY <1>0, <1>1, <1>2, InductionOnNaturals
<1>4. Defines(read, n)
  <2>1. \E g : Defines(g, n)
    BY <1>3
  <2> HIDE DEF Defines
  <2>2. QED
    BY <2>1
<1>5. parseUnifiedDiff(text) = read[n]
  BY Zenon DEF parseUnifiedDiff
<1> HIDE DEF read
<1>6. \A k \in 0..n : read[k] = IF k = 0 THEN <<>> ELSE ReadLine(read[k - 1], text[k])
  BY <1>4
<1>7. Reads(read, <<>>, text)
  <2>1. 0 \in 0..n /\ \A k \in 1..n : k \in 0..n /\ k # 0
    BY <1>0
  <2>2. QED
    BY <1>6, <2>1 DEF Reads
<1>8. QED
  BY <1>5, <1>7

\* So it finds what a text yields.
LEMMA ParsedIsYielded ==
    ASSUME NEW text, NEW files, Yields(<<>>, text, files)
    PROVE  parseUnifiedDiff(text) = files
<1>1. PICK g : Reads(g, <<>>, text) /\ parseUnifiedDiff(text) = g[Len(text)]
  BY ParseReads DEF Yields
<1>2. PICK h : Reads(h, <<>>, text) /\ h[Len(text)] = files
  BY DEF Yields
<1>3. QED
  BY <1>1, <1>2, OneReading DEF Yields

\* Two texts, one after the other.
LEMMA ReadOn ==
    ASSUME NEW a, NEW b, NEW c, NEW s, NEW t, Yields(a, s, b), Yields(b, t, c)
    PROVE  Yields(a, s \o t, c)
<1> DEFINE S == Range(s) \cup Range(t)
           m == Len(s)
           n == Len(t)
           u == s \o t
<1>1. PICK g : Reads(g, a, s) /\ g[m] = b
  BY DEF Yields
<1>2. PICK h : Reads(h, b, t) /\ h[n] = c
  BY DEF Yields
<1> DEFINE f == [k \in 0..(m + n) |-> IF k <= m THEN g[k] ELSE h[k - m]]
<1>3. s \in Seq(Range(s)) /\ t \in Seq(Range(t)) /\ m \in Nat /\ n \in Nat
  BY SequenceParts DEF Yields
<1>4. s \in Seq(S) /\ t \in Seq(S)
  BY <1>3, SeqMonotonic
<1>5. /\ u \in Seq(S) /\ Len(u) = m + n
      /\ \A k \in 1..(m + n) : u[k] = IF k <= m THEN s[k] ELSE t[k - m]
  <2> HIDE DEF S
  <2>1. QED
    BY <1>4, ConcatProperties
<1> HIDE DEF S, m, n
<1>6. IsSequence(u)
  <2> HIDE DEF u
  <2>1. QED
    BY <1>5, OwnElements
<1>7. f[0] = a
  BY <1>1, <1>3 DEF Reads, m
<1>8. \A k \in 1..m : g[k] = ReadLine(g[k - 1], s[k])
  BY <1>1 DEF Reads, m
<1>9. \A k \in 1..n : h[k] = ReadLine(h[k - 1], t[k])
  BY <1>2 DEF Reads, n
<1>10. ASSUME NEW k \in 1..(m + n) PROVE f[k] = ReadLine(f[k - 1], u[k])
  <2>1. CASE k <= m
    <3>1. k \in 1..m /\ f[k] = g[k] /\ f[k - 1] = g[k - 1] /\ u[k] = s[k]
      BY <1>3, <1>5, <2>1
    <3>2. QED
      BY <1>8, <3>1
  <2>2. CASE k > m
    <3>1. PICK j \in 1..n : j = k - m
      BY <1>3, <2>2
    <3>2. f[k] = h[j] /\ u[k] = t[j]
      <4>1. k \in 0..(m + n) /\ ~(k <= m)
        BY <1>3, <2>2
      <4>2. f[k] = h[k - m]
        BY <4>1
      <4>3. u[k] = t[k - m]
        BY <1>5, <4>1
      <4>4. QED
        BY <3>1, <4>2, <4>3
    <3>3. f[k - 1] = h[j - 1]
      <4>1. CASE j = 1
        <5>1. k - 1 = m /\ j - 1 = 0 /\ m \in 0..(m + n)
          BY <1>3, <3>1, <4>1
        <5>2. f[m] = g[m] /\ h[0] = b
          BY <1>2, <1>3, <5>1 DEF Reads
        <5>3. QED
          BY <1>1, <5>1, <5>2
      <4>2. CASE j # 1
        <5>1. k - 1 \in 0..(m + n) /\ ~(k - 1 <= m) /\ (k - 1) - m = j - 1
          BY <1>3, <3>1, <4>2
        <5>2. QED
          BY <5>1
      <4>3. QED
        BY <4>1, <4>2
    <3>4. QED
      BY <1>9, <3>2, <3>3
  <2> HIDE DEF f, u
  <2>3. k <= m \/ k > m
    BY <1>3
  <2>4. QED
    BY <2>1, <2>2, <2>3
<1>11. f[m + n] = c
  <2>1. CASE n = 0
    <3>1. f[m + n] = g[m] /\ h[0] = b
      BY <1>2, <1>3, <2>1 DEF Reads
    <3>2. QED
      BY <1>1, <1>2, <2>1, <3>1
  <2>2. CASE n # 0
    <3>1. m + n \in 0..(m + n) /\ ~(m + n <= m) /\ (m + n) - m = n
      BY <1>3, <2>2
    <3>2. QED
      BY <1>2, <3>1
  <2>3. QED
    BY <2>1, <2>2
<1> HIDE DEF f, u
<1>12. Reads(f, a, u) /\ f[Len(u)] = c
  BY <1>5, <1>7, <1>10, <1>11 DEF Reads
<1>13. QED
  BY <1>6, <1>12 DEF Yields, u

\* Lines that say nothing.
LEMMA NothingSaid ==
    ASSUME NEW files, NEW text, IsSequence(text),
           \A k \in 1..Len(text) : ReadLine(files, text[k]) = files
    PROVE  Yields(files, text, files)
<1> DEFINE n == Len(text)
           g == [k \in 0..n |-> files]
<1>0. n \in Nat
  BY SequenceParts
<1>1. g[0] = files /\ g[n] = files /\ \A k \in 1..n : g[k] = files /\ g[k - 1] = files
  BY <1>0
<1> HIDE DEF g
<1>2. Reads(g, files, text)
  BY <1>1 DEF Reads
<1>3. QED
  BY <1>1, <1>2 DEF Yields

\* A single line.
LEMMA OneLine ==
    ASSUME NEW files, NEW raw
    PROVE  Yields(files, <<raw>>, ReadLine(files, raw))
<1> DEFINE g == [k \in 0..1 |-> IF k = 0 THEN files ELSE ReadLine(files, raw)]
           text == <<raw>>
<1>1. text \in Seq({raw}) /\ Len(text) = 1 /\ text[1] = raw
  OBVIOUS
<1>2. g[0] = files /\ g[1] = ReadLine(files, raw)
  OBVIOUS
<1> HIDE DEF g, text
<1>3. \A k \in 1..1 : k = 1 /\ k - 1 = 0
  OBVIOUS
<1>4. Reads(g, files, text)
  BY <1>1, <1>2, <1>3 DEF Reads
<1>5. QED
  BY <1>1, <1>2, <1>4, OwnElements DEF Yields, text

-----------------------------------------------------------------------------
\* A file as it is read.
Read(path, status, added, removed) ==
    [path |-> path, status |-> status, added |-> added, removed |-> removed]

\* After its header, a file is what is read into; what was read before stays.
LEMMA OnlyTheLast ==
    ASSUME NEW done, IsSequence(done), NEW f, NEW raw, raw.mark # "diff"
    PROVE  ReadLine(Append(done, f), raw) = Append(done, ReadInFile(f, raw))
<1> DEFINE z == ReadInFile(f, raw)
           S == Range(done) \cup {f, z}
           n == Len(done)
           u == Append(done, f)
           v == Append(done, z)
<1>1. done \in Seq(Range(done)) /\ n \in Nat
  BY SequenceParts
<1>2. done \in Seq(S) /\ f \in S /\ z \in S
  BY <1>1, SeqMonotonic
<1>3. u \in Seq(S) /\ u # <<>> /\ Len(u) = n + 1 /\ (\A k \in 1..n : u[k] = done[k]) /\ u[n + 1] = f
  <2> HIDE DEF S, z
  <2>1. u \in Seq(S) /\ Len(u) = n + 1 /\ u[n + 1] = f
    BY <1>1, <1>2
  <2>2. \A k \in 1..n : u[k] = done[k]
    BY <1>1, <1>2
  <2>3. u # <<>>
    BY <1>1, <2>1
  <2>4. QED
    BY <2>1, <2>2, <2>3
<1>4. v \in Seq(S) /\ Len(v) = n + 1 /\ (\A k \in 1..n : v[k] = done[k]) /\ v[n + 1] = z
  <2> HIDE DEF S, z
  <2>1. v \in Seq(S) /\ Len(v) = n + 1 /\ v[n + 1] = z
    BY <1>1, <1>2
  <2>2. \A k \in 1..n : v[k] = done[k]
    BY <1>1, <1>2
  <2>3. QED
    BY <2>1, <2>2
<1>5. ReadLine(u, raw) = [u EXCEPT ![n + 1] = ReadInFile(u[n + 1], raw)]
  <2> HIDE DEF u
  <2>1. QED
    BY <1>3 DEF ReadLine
<1> DEFINE w == [u EXCEPT ![n + 1] = z]
<1>6. w \in Seq(S) /\ Len(w) = n + 1 /\ \A k \in 1..(n + 1) : w[k] = IF k = n + 1 THEN z ELSE u[k]
  <2> HIDE DEF S, z, u, n
  <2>1. n + 1 \in 1..Len(u)
    BY <1>1, <1>3
  <2>2. w \in Seq(S) /\ Len(w) = n + 1
    BY <1>2, <1>3, <2>1
  <2>3. DOMAIN u = 1..(n + 1)
    BY <1>3
  <2>4. \A k \in 1..(n + 1) : w[k] = IF k = n + 1 THEN z ELSE u[k]
    BY <2>3
  <2>5. QED
    BY <2>2, <2>4
<1>7. \A k \in 1..(n + 1) : w[k] = v[k]
  <2>0. n \in Nat
    BY <1>1
  <2> HIDE DEF S, z, u, v, w, n
  <2>1. ASSUME NEW k \in 1..(n + 1) PROVE w[k] = v[k]
    <3>1. CASE k = n + 1
      BY <1>4, <1>6, <3>1
    <3>2. CASE k # n + 1
      <4>1. k \in 1..n
        BY <2>0, <3>2
      <4>2. QED
        BY <1>3, <1>4, <1>6, <3>2, <4>1
    <3>3. QED
      BY <3>1, <3>2
  <2>2. QED
    BY <2>1
<1>8. w = v
  <2> HIDE DEF S, u, v, w, n
  <2>1. QED
    BY <1>4, <1>6, <1>7, SeqEqual
<1>9. QED
  <2>1. ReadLine(u, raw) = w
    <3> HIDE DEF u
    <3>1. QED
      BY <1>3, <1>5
  <2>2. QED
    BY <1>8, <2>1

\* A line of a file, by its mark.
LEMMA LineOfAFile ==
    ASSUME NEW done, IsSequence(done), NEW f, NEW raw, raw.mark # "diff"
    PROVE  Yields(Append(done, f), <<raw>>, Append(done, ReadInFile(f, raw)))
<1>1. Yields(Append(done, f), <<raw>>, ReadLine(Append(done, f), raw))
  BY OneLine
<1>2. QED
  BY <1>1, OnlyTheLast

\* What each mark does.
LEMMA MarksOfAFile ==
    ASSUME NEW path, NEW status, NEW added, NEW removed, NEW at, NEW line
    PROVE  LET f == Read(path, status, added, removed)
               After(mark) == ReadInFile(f, Raw(mark, at, line))
           IN  /\ After("newFile") = Read(path, "added", added, removed)
               /\ After("deletedFile") = Read(path, "removed", added, removed)
               /\ After("renameTo") = Read(at, "renamed", added, removed)
               /\ After("plus") = Read(path, status, Append(added, line), removed)
               /\ After("minus") = Read(path, status, added, Append(removed, line))
               /\ After("oldName") = f /\ After("newName") = f /\ After("hunk") = f /\ After("context") = f
BY DEF Read, ReadInFile, Raw

\* Removed lines, one by one.
LEMMA RemovedAreRead ==
    ASSUME NEW done, IsSequence(done), NEW path, NEW status, NEW added, NEW r, IsSequence(r)
    PROVE  Yields(Append(done, Read(path, status, added, <<>>)),
                  [i \in DOMAIN r |-> Raw("minus", <<>>, r[i])],
                  Append(done, Read(path, status, added, r)))
<1> DEFINE n == Len(r)
           text == [i \in DOMAIN r |-> Raw("minus", <<>>, r[i])]
           F(k) == Read(path, status, added, SubSeq(r, 1, k))
           g == [k \in 0..n |-> Append(done, F(k))]
           S == {Raw("minus", <<>>, r[i]) : i \in DOMAIN r}
<1>1. r \in Seq(Range(r)) /\ n \in Nat /\ DOMAIN r = 1..n
  BY SequenceParts
<1>2. text \in Seq(S) /\ Len(text) = n /\ \A i \in 1..n : text[i] = Raw("minus", <<>>, r[i])
  <2>1. text \in [1..n -> S]
    BY <1>1
  <2>2. \A i \in 1..n : text[i] = Raw("minus", <<>>, r[i])
    BY <1>1
  <2> HIDE DEF text, S, n
  <2>3. QED
    BY <1>1, <2>1, <2>2
<1>3. SubSeq(r, 1, 0) = <<>> /\ SubSeq(r, 1, n) = r
  <2>1. SubSeq(r, 1, 0) = <<>>
    BY SubSeqEmpty
  <2>2. SubSeq(r, 1, n) = r
    BY <1>1, SubSeqFull
  <2>3. QED
    BY <2>1, <2>2
<1>4. ASSUME NEW k \in 1..n PROVE SubSeq(r, 1, k) = Append(SubSeq(r, 1, k - 1), r[k])
  <2>1. 1 \in 1..n /\ k \in 1..Len(r) /\ r[k] \in Range(r)
    BY <1>1 DEF Range
  <2>2. SubSeq(r, 1, k) = SubSeq(r, 1, k - 1) \o <<r[k]>>
    BY <1>1, <2>1, SubSeqRecursiveSecond
  <2>3. SubSeq(r, 1, k - 1) \in Seq(Range(r))
    <3>1. \A i \in 1..(k - 1) : r[i] \in Range(r)
      BY <1>1 DEF Range
    <3>2. QED
      BY <3>1, SubSeqProperties
  <2>4. QED
    BY <2>1, <2>2, <2>3, AppendIsConcat
<1>5. ASSUME NEW k \in 1..n PROVE g[k] = ReadLine(g[k - 1], text[k])
  <2>1. g[k] = Append(done, F(k)) /\ g[k - 1] = Append(done, F(k - 1))
    BY <1>1
  <2>2. Raw("minus", <<>>, r[k]).mark # "diff"
    BY DEF Raw
  <2>3. ReadLine(Append(done, F(k - 1)), Raw("minus", <<>>, r[k]))
            = Append(done, ReadInFile(F(k - 1), Raw("minus", <<>>, r[k])))
    BY <2>2, OnlyTheLast
  <2>4. ReadInFile(F(k - 1), Raw("minus", <<>>, r[k]))
            = Read(path, status, added, Append(SubSeq(r, 1, k - 1), r[k]))
    BY DEF Read, ReadInFile, Raw
  <2>5. QED
    BY <1>2, <1>4, <2>1, <2>3, <2>4
<1>6. g[0] = Append(done, Read(path, status, added, <<>>)) /\ g[n] = Append(done, Read(path, status, added, r))
  <2>1. 0 \in 0..n /\ n \in 0..n
    BY <1>1
  <2>2. g[0] = Append(done, F(0)) /\ g[n] = Append(done, F(n))
    BY <2>1
  <2>3. QED
    BY <1>3, <2>2
<1> HIDE DEF g, text, S, n
<1>7. Reads(g, Append(done, Read(path, status, added, <<>>)), text)
  BY <1>2, <1>5, <1>6 DEF Reads
<1>8. IsSequence(text)
  BY <1>2, OwnElements
<1>9. QED
  BY <1>2, <1>6, <1>7, <1>8 DEF Yields, text
\* Added lines, one by one.
LEMMA AddedAreRead ==
    ASSUME NEW done, IsSequence(done), NEW path, NEW status, NEW removed, NEW r, IsSequence(r)
    PROVE  Yields(Append(done, Read(path, status, <<>>, removed)),
                  [i \in DOMAIN r |-> Raw("plus", <<>>, r[i])],
                  Append(done, Read(path, status, r, removed)))
<1> DEFINE n == Len(r)
           text == [i \in DOMAIN r |-> Raw("plus", <<>>, r[i])]
           F(k) == Read(path, status, SubSeq(r, 1, k), removed)
           g == [k \in 0..n |-> Append(done, F(k))]
           S == {Raw("plus", <<>>, r[i]) : i \in DOMAIN r}
<1>1. r \in Seq(Range(r)) /\ n \in Nat /\ DOMAIN r = 1..n
  BY SequenceParts
<1>2. text \in Seq(S) /\ Len(text) = n /\ \A i \in 1..n : text[i] = Raw("plus", <<>>, r[i])
  <2>1. text \in [1..n -> S]
    BY <1>1
  <2>2. \A i \in 1..n : text[i] = Raw("plus", <<>>, r[i])
    BY <1>1
  <2> HIDE DEF text, S, n
  <2>3. QED
    BY <1>1, <2>1, <2>2
<1>3. SubSeq(r, 1, 0) = <<>> /\ SubSeq(r, 1, n) = r
  <2>1. SubSeq(r, 1, 0) = <<>>
    BY SubSeqEmpty
  <2>2. SubSeq(r, 1, n) = r
    BY <1>1, SubSeqFull
  <2>3. QED
    BY <2>1, <2>2
<1>4. ASSUME NEW k \in 1..n PROVE SubSeq(r, 1, k) = Append(SubSeq(r, 1, k - 1), r[k])
  <2>1. 1 \in 1..n /\ k \in 1..Len(r) /\ r[k] \in Range(r)
    BY <1>1 DEF Range
  <2>2. SubSeq(r, 1, k) = SubSeq(r, 1, k - 1) \o <<r[k]>>
    BY <1>1, <2>1, SubSeqRecursiveSecond
  <2>3. SubSeq(r, 1, k - 1) \in Seq(Range(r))
    <3>1. \A i \in 1..(k - 1) : r[i] \in Range(r)
      BY <1>1 DEF Range
    <3>2. QED
      BY <3>1, SubSeqProperties
  <2>4. QED
    BY <2>1, <2>2, <2>3, AppendIsConcat
<1>5. ASSUME NEW k \in 1..n PROVE g[k] = ReadLine(g[k - 1], text[k])
  <2>1. g[k] = Append(done, F(k)) /\ g[k - 1] = Append(done, F(k - 1))
    BY <1>1
  <2>2. Raw("plus", <<>>, r[k]).mark # "diff"
    BY DEF Raw
  <2>3. ReadLine(Append(done, F(k - 1)), Raw("plus", <<>>, r[k]))
            = Append(done, ReadInFile(F(k - 1), Raw("plus", <<>>, r[k])))
    BY <2>2, OnlyTheLast
  <2>4. ReadInFile(F(k - 1), Raw("plus", <<>>, r[k]))
            = Read(path, status, Append(SubSeq(r, 1, k - 1), r[k]), removed)
    BY DEF Read, ReadInFile, Raw
  <2>5. QED
    BY <1>2, <1>4, <2>1, <2>3, <2>4
<1>6. g[0] = Append(done, Read(path, status, <<>>, removed)) /\ g[n] = Append(done, Read(path, status, r, removed))
  <2>1. 0 \in 0..n /\ n \in 0..n
    BY <1>1
  <2>2. g[0] = Append(done, F(0)) /\ g[n] = Append(done, F(n))
    BY <2>1
  <2>3. QED
    BY <1>3, <2>2
<1> HIDE DEF g, text, S, n
<1>7. Reads(g, Append(done, Read(path, status, <<>>, removed)), text)
  BY <1>2, <1>5, <1>6 DEF Reads
<1>8. IsSequence(text)
  BY <1>2, OwnElements
<1>9. QED
  BY <1>2, <1>6, <1>7, <1>8 DEF Yields, text

\* The header of a file begins it.
LEMMA HeaderIsRead ==
    ASSUME NEW done, NEW path
    PROVE  Yields(done, <<Raw("diff", path, NoLine)>>,
                  Append(done, Read(path, "modified", <<>>, <<>>)))
<1>1. Raw("diff", path, NoLine).mark = "diff" /\ Raw("diff", path, NoLine).path = path
  BY DEF Raw
<1>2. ReadLine(done, Raw("diff", path, NoLine)) = Append(done, Read(path, "modified", <<>>, <<>>))
  BY <1>1 DEF ReadLine, NewFile, Read
<1>3. QED
  BY <1>2, OneLine

\* What git says of the file's status is understood.
LEMMA StatusIsRead ==
    ASSUME NEW done, IsSequence(done), NEW path, NEW status, NEW text,
           \/ status = "added" /\ text = <<Raw("newFile", <<>>, NoLine)>>
           \/ status = "removed" /\ text = <<Raw("deletedFile", <<>>, NoLine)>>
           \/ status = "renamed" /\ text = <<Raw("renameTo", path, NoLine)>>
           \/ status = "modified" /\ text = <<>>
    PROVE  Yields(Append(done, Read(path, "modified", <<>>, <<>>)), text,
                  Append(done, Read(path, status, <<>>, <<>>)))
<1> DEFINE f == Read(path, "modified", <<>>, <<>>)
<1>1. CASE status = "added" /\ text = <<Raw("newFile", <<>>, NoLine)>>
  <2> DEFINE raw == Raw("newFile", <<>>, NoLine)
  <2>1. raw.mark # "diff" /\ ReadInFile(f, raw) = Read(path, status, <<>>, <<>>)
    BY <1>1 DEF Read, ReadInFile, Raw
  <2> HIDE DEF f, raw
  <2>2. QED
    BY <1>1, <2>1, LineOfAFile DEF f, raw
<1>2. CASE status = "removed" /\ text = <<Raw("deletedFile", <<>>, NoLine)>>
  <2> DEFINE raw == Raw("deletedFile", <<>>, NoLine)
  <2>1. raw.mark # "diff" /\ ReadInFile(f, raw) = Read(path, status, <<>>, <<>>)
    BY <1>2 DEF Read, ReadInFile, Raw
  <2> HIDE DEF f, raw
  <2>2. QED
    BY <1>2, <2>1, LineOfAFile DEF f, raw
<1>3. CASE status = "renamed" /\ text = <<Raw("renameTo", path, NoLine)>>
  <2> DEFINE raw == Raw("renameTo", path, NoLine)
  <2>1. raw.mark # "diff" /\ ReadInFile(f, raw) = Read(path, status, <<>>, <<>>)
    BY <1>3 DEF Read, ReadInFile, Raw
  <2> HIDE DEF f, raw
  <2>2. QED
    BY <1>3, <2>1, LineOfAFile DEF f, raw
<1>4. CASE status = "modified" /\ text = <<>>
  <2>1. text \in Seq({}) /\ Len(text) = 0
    BY <1>4
  <2>2. IsSequence(text)
    BY <2>1, OwnElements
  <2>3. \A k \in 1..Len(text) : ReadLine(Append(done, f), text[k]) = Append(done, f)
    BY <2>1
  <2>4. Yields(Append(done, f), text, Append(done, f))
    <3> HIDE DEF f
    <3>1. QED
      BY <2>2, <2>3, NothingSaid
  <2>5. QED
    BY <1>4, <2>4
<1>5. QED
  BY <1>1, <1>2, <1>3, <1>4

\* Lines that are about the file and not of it.
LEMMA MarksAreSkipped ==
    ASSUME NEW done, IsSequence(done), NEW f, NEW text, IsSequence(text),
           \A k \in 1..Len(text) : text[k].mark \in {"oldName", "newName", "hunk", "context"}
    PROVE  Yields(Append(done, f), text, Append(done, f))
<1>1. ASSUME NEW k \in 1..Len(text) PROVE ReadLine(Append(done, f), text[k]) = Append(done, f)
  <2>1. text[k].mark # "diff" /\ ReadInFile(f, text[k]) = f
    BY DEF ReadInFile
  <2>2. QED
    BY <2>1, OnlyTheLast
<1>2. QED
  BY <1>1, NothingSaid

\* A file is read as it was written.
LEMMA FileIsRead ==
    ASSUME NEW done, IsSequence(done), NEW f, IsFile(f)
    PROVE  Yields(done, RenderFile(f), Append(done, f))
<1> DEFINE header == <<Raw("diff", f.path, NoLine)>>
           mode == CASE f.status = "added" -> <<Raw("newFile", <<>>, NoLine)>>
                     [] f.status = "removed" -> <<Raw("deletedFile", <<>>, NoLine)>>
                     [] f.status = "renamed" -> <<Raw("renameTo", f.path, NoLine)>>
                     [] f.status = "modified" -> <<>>
           names == <<Raw("oldName", <<>>, NoLine), Raw("newName", <<>>, NoLine), Raw("hunk", <<>>, NoLine)>>
           minus == [i \in DOMAIN f.removed |-> Raw("minus", <<>>, f.removed[i])]
           blank == <<Raw("context", <<>>, NoLine)>>
           plus == [i \in DOMAIN f.added |-> Raw("plus", <<>>, f.added[i])]
           S1 == Append(done, Read(f.path, "modified", <<>>, <<>>))
           S2 == Append(done, Read(f.path, f.status, <<>>, <<>>))
           S3 == Append(done, Read(f.path, f.status, <<>>, f.removed))
<1>1. /\ f = Read(f.path, f.status, f.added, f.removed)
      /\ f.status \in {"added", "modified", "removed", "renamed"}
      /\ IsSequence(f.added) /\ IsSequence(f.removed)
  BY DEF IsFile, IsSequence, Read
<1>2. Yields(done, header, S1)
  BY HeaderIsRead
<1>3. Yields(S1, mode, S2)
  <2>1. \/ f.status = "added" /\ mode = <<Raw("newFile", <<>>, NoLine)>>
        \/ f.status = "removed" /\ mode = <<Raw("deletedFile", <<>>, NoLine)>>
        \/ f.status = "renamed" /\ mode = <<Raw("renameTo", f.path, NoLine)>>
        \/ f.status = "modified" /\ mode = <<>>
    BY <1>1
  <2> HIDE DEF mode
  <2>2. QED
    BY <2>1, StatusIsRead
<1>4. Yields(S2, names, S2)
  <2> DEFINE T == {Raw("oldName", <<>>, NoLine), Raw("newName", <<>>, NoLine), Raw("hunk", <<>>, NoLine)}
  <2>1. names \in Seq(T) /\ Len(names) = 3
    OBVIOUS
  <2>2. \A k \in 1..3 : names[k] \in T
    BY <2>1
  <2>3. \A raw \in T : raw.mark \in {"oldName", "newName", "hunk", "context"}
    BY DEF Raw
  <2> HIDE DEF names, T
  <2>4. IsSequence(names)
    BY <2>1, OwnElements
  <2>5. \A k \in 1..Len(names) : names[k].mark \in {"oldName", "newName", "hunk", "context"}
    BY <2>1, <2>2, <2>3
  <2>6. QED
    BY <2>4, <2>5, MarksAreSkipped
<1>5. Yields(S2, minus, S3)
  BY <1>1, RemovedAreRead
<1>6. Yields(S3, blank, S3)
  <2> DEFINE T == {Raw("context", <<>>, NoLine)}
  <2>1. blank \in Seq(T) /\ Len(blank) = 1
    OBVIOUS
  <2>2. \A k \in 1..1 : blank[k] \in T
    BY <2>1
  <2>3. \A raw \in T : raw.mark \in {"oldName", "newName", "hunk", "context"}
    BY DEF Raw
  <2> HIDE DEF blank, T
  <2>4. IsSequence(blank)
    BY <2>1, OwnElements
  <2>5. \A k \in 1..Len(blank) : blank[k].mark \in {"oldName", "newName", "hunk", "context"}
    BY <2>1, <2>2, <2>3
  <2>6. QED
    BY <2>4, <2>5, MarksAreSkipped
<1>7. Yields(S3, plus, Append(done, f))
  <2>1. Yields(S3, plus, Append(done, Read(f.path, f.status, f.added, f.removed)))
    BY <1>1, AddedAreRead
  <2>2. QED
    BY <1>1, <2>1
<1>8. RenderFile(f) = ((((header \o mode) \o names) \o minus) \o blank) \o plus
  BY DEF RenderFile
<1> HIDE DEF header, mode, names, minus, blank, plus, S1, S2, S3
<1>9. Yields(done, header \o mode, S2)
  BY <1>2, <1>3, ReadOn
<1>10. Yields(done, (header \o mode) \o names, S2)
  BY <1>4, <1>9, ReadOn
<1>11. Yields(done, ((header \o mode) \o names) \o minus, S3)
  BY <1>5, <1>10, ReadOn
<1>12. Yields(done, (((header \o mode) \o names) \o minus) \o blank, S3)
  BY <1>6, <1>11, ReadOn
<1>13. Yields(done, ((((header \o mode) \o names) \o minus) \o blank) \o plus, Append(done, f))
  BY <1>7, <1>12, ReadOn
<1>14. QED
  BY <1>8, <1>13

\* Render writes one file after another.
LEMMA RenderedStepByStep ==
    ASSUME NEW files, IsSequence(files)
    PROVE  \E g : /\ g[0] = <<>> /\ g[Len(files)] = Render(files)
                  /\ \A k \in 1..Len(files) : g[k] = g[k - 1] \o RenderFile(files[k])
<1> DEFINE n == Len(files)
           Defines(g, m) ==
               g = [k \in 0..m |-> IF k = 0 THEN <<>> ELSE g[k - 1] \o RenderFile(files[k])]
           T == {m \in Nat : \E g : Defines(g, m)}
           rendered == CHOOSE g : Defines(g, n)
<1>0. n \in Nat
  BY SequenceParts
<1>1. 0 \in T
  <2>1. Defines([k \in 0..0 |-> <<>>], 0)
    OBVIOUS
  <2>2. QED
    BY <2>1
<1>2. ASSUME NEW m \in Nat, m \in T PROVE m + 1 \in T
  <2>1. PICK g : Defines(g, m)
    BY <1>2
  <2> DEFINE next == g[m] \o RenderFile(files[m + 1])
             h == [k \in 0..(m + 1) |-> IF k = m + 1 THEN next ELSE g[k]]
  <2>2. \A k \in 0..m : g[k] = IF k = 0 THEN <<>> ELSE g[k - 1] \o RenderFile(files[k])
    BY <2>1
  <2>3. ASSUME NEW k \in 0..(m + 1)
        PROVE  h[k] = IF k = 0 THEN <<>> ELSE h[k - 1] \o RenderFile(files[k])
    <3>1. CASE k = m + 1
      <4> HIDE DEF next
      <4>1. h[k] = next /\ k - 1 = m /\ m \in 0..(m + 1) /\ k # 0
        BY <3>1
      <4>2. h[m] = g[m]
        BY <4>1
      <4> USE DEF next
      <4>3. QED
        BY <3>1, <4>1, <4>2
    <3>2. CASE k = 0
      BY <2>2, <3>2
    <3>3. CASE k \in 1..m
      <4>1. h[k] = g[k] /\ k - 1 \in 0..m /\ k - 1 # m + 1 /\ k # 0 /\ k \in 0..m
        BY <3>3
      <4>2. h[k - 1] = g[k - 1]
        BY <4>1
      <4>3. g[k] = g[k - 1] \o RenderFile(files[k])
        BY <2>2, <4>1
      <4>4. QED
        BY <4>1, <4>2, <4>3
    <3>4. QED
      BY <3>1, <3>2, <3>3
  <2>4. h = [k \in 0..(m + 1) |-> h[k]]
    OBVIOUS
  <2> HIDE DEF h
  <2>5. Defines(h, m + 1)
    BY <2>3, <2>4
  <2>6. QED
    BY <2>5
<1>3. n \in T
  <2> HIDE DEF T, n
  <2>1. QED
    BY <1>0, <1>1, <1>2, InductionOnNaturals
<1>4. Defines(rendered, n)
  <2>1. \E g : Defines(g, n)
    BY <1>3
  <2> HIDE DEF Defines
  <2>2. QED
    BY <2>1
<1>5. Render(files) = rendered[n]
  BY Zenon DEF Render
<1> HIDE DEF rendered
<1>6. \A k \in 0..n : rendered[k] = IF k = 0 THEN <<>> ELSE rendered[k - 1] \o RenderFile(files[k])
  BY <1>4
<1>7. 0 \in 0..n /\ \A k \in 1..n : k \in 0..n /\ k # 0
  BY <1>0
<1>8. QED
  BY <1>5, <1>6, <1>7

\* The text of a diff says which files there are and what is in them.
LEMMA DiffSaysAll ==
    ASSUME NEW files, IsDiff(files)
    PROVE  parseUnifiedDiff(Render(files)) = files
<1> DEFINE n == Len(files)
           UpTo(k) == SubSeq(files, 1, k)
<1>0. IsSequence(files) /\ n \in Nat /\ files \in Seq(Range(files))
  BY SequenceParts DEF IsDiff
<1>1. PICK g : /\ g[0] = <<>> /\ g[n] = Render(files)
               /\ \A k \in 1..n : g[k] = g[k - 1] \o RenderFile(files[k])
  BY <1>0, RenderedStepByStep
<1> DEFINE T == {k \in 0..n : Yields(<<>>, g[k], UpTo(k))}
<1>2. 0 \in T
  <2>1. UpTo(0) = <<>>
    BY SubSeqEmpty
  <2>2. <<>> \in Seq({}) /\ Len(<<>>) = 0
    OBVIOUS
  <2>3. IsSequence(<<>>)
    BY <2>2, OwnElements
  <2>4. Yields(<<>>, <<>>, <<>>)
    BY <2>2, <2>3, NothingSaid
  <2> HIDE DEF UpTo
  <2>5. Yields(<<>>, g[0], UpTo(0))
    BY <1>1, <2>1, <2>4
  <2>6. 0 \in 0..n
    BY <1>0
  <2>7. QED
    BY <2>5, <2>6
<1>3. ASSUME NEW k \in 1..n, k - 1 \in T PROVE k \in T
  <2>1. files[k] \in Range(files)
    BY <1>0, SequenceParts
  <2>2. IsFile(files[k])
    BY <2>1 DEF IsDiff
  <2>3. UpTo(k - 1) \in Seq(Range(files))
    <3>1. \A i \in 1..(k - 1) : files[i] \in Range(files)
      BY <1>0, SequenceParts
    <3>2. k - 1 \in Int
      BY <1>0
    <3>3. QED
      BY <3>1, <3>2, SubSeqProperties
  <2>4. IsSequence(UpTo(k - 1))
    <3> HIDE DEF UpTo
    <3>1. QED
      BY <2>3, OwnElements
  <2>5. UpTo(k) = Append(UpTo(k - 1), files[k])
    <3>1. 1 \in 1..n /\ k \in 1..n
      BY <1>0
    <3>2. UpTo(k) = UpTo(k - 1) \o <<files[k]>>
      BY <1>0, <3>1, SubSeqRecursiveSecond
    <3>3. QED
      BY <2>1, <2>3, <3>2, AppendIsConcat
  <2>6. Yields(<<>>, g[k - 1], UpTo(k - 1))
    BY <1>3
  <2> HIDE DEF UpTo
  <2>7. Yields(UpTo(k - 1), RenderFile(files[k]), Append(UpTo(k - 1), files[k]))
    BY <2>2, <2>4, FileIsRead
  <2>8. Yields(<<>>, g[k - 1] \o RenderFile(files[k]), UpTo(k))
    BY <2>5, <2>6, <2>7, ReadOn
  <2>9. g[k] = g[k - 1] \o RenderFile(files[k])
    BY <1>1
  <2>10. k \in 0..n
    BY <1>0
  <2>11. QED
    BY <2>8, <2>9, <2>10
<1>4. \A k \in 0..n : k \in T
  <2> HIDE DEF T, n
  <2>1. QED
    BY <1>0, <1>2, <1>3, InductionOnPrefixes
<1>5. Yields(<<>>, g[n], UpTo(n))
  <2>1. n \in 0..n
    BY <1>0
  <2>2. QED
    BY <1>4, <2>1
<1>6. UpTo(n) = files
  BY <1>0, SubSeqFull
<1>7. QED
  BY <1>1, <1>5, <1>6, ParsedIsYielded

\* What is classified is what the pull request changes: of every file and every line in the
\* text of its diff parseUnifiedDiff (diff.ts) returns what was written, however many there
\* are, except for the lines and paths that DiffIsRead leaves out.
THEOREM DiffIsReadHolds == PolicySpec => []DiffIsRead
<1>1. ASSUME PolicyInv PROVE DiffIsRead
  <2>1. ASSUME NEW p \in PullRequests PROVE IsDiff(pr[p].files)
    BY <1>1, BeforeAStep DEF PullRequestOK
  <2>2. QED
    BY <2>1, DiffSaysAll DEF DiffIsRead
<1>2. QED
  BY PolicyInvariance, <1>1, PTL
=============================================================================
