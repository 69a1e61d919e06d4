------------------------ MODULE IssueSelectionProofs ------------------------
(***************************************************************************)
(* Proofs about IssueSelection, for bodies of any length, any backlog and  *)
(* any number of runs of the selection.                                    *)
(***************************************************************************)
EXTENDS IssueSelection, PrefixInduction

-----------------------------------------------------------------------------
\* A block that is being read, of references out of a set.
Blocks(U) == [refs : SUBSET U, open : BOOLEAN]

\* The references of the first n lines are out of a set.
RefsWithin(body, n, U) == \A k \in 1..n : body[k].refs \subseteq U

\* What a line may do to the block: add what it refers to, if the block is open and it is
\* an item; or end the block, which an item and a blank line that follows none do not.
ReadsLine(body, i, block, after) ==
    /\ block.refs \subseteq after.refs
    /\ after.refs \subseteq block.refs \cup body[i].refs
    /\ after.refs # block.refs => block.open /\ body[i].kind = "item"
    /\ after.open => block.open /\ body[i].kind \in {"item", "blank"}
    /\ block.open /\ body[i].kind = "item" => after.open /\ body[i].refs \subseteq after.refs
    /\ block.open /\ body[i].kind = "blank" /\ body[i - 1].kind # "item" => after.open

\* Consume does that.
LEMMA ConsumeReads ==
    ASSUME NEW U, NEW body, NEW n \in Nat, RefsWithin(body, n, U), NEW i \in 1..n,
           NEW block \in Blocks(U)
    PROVE  /\ Consume(body, block, i) \in Blocks(U)
           /\ ReadsLine(body, i, block, Consume(body, block, i))
<1> DEFINE after == Consume(body, block, i)
<1>0. body[i].refs \subseteq U
  BY DEF RefsWithin
<1>1. CASE ~block.open
  <2>1. after = block
    BY <1>1 DEF Consume
  <2>2. QED
    BY <1>1, <2>1 DEF Blocks, ReadsLine
<1>2. CASE block.open /\ body[i].kind = "item"
  <2>1. after = [block EXCEPT !.refs = @ \cup body[i].refs]
    BY <1>2 DEF Consume
  <2>2. after \in Blocks(U) /\ after.refs = block.refs \cup body[i].refs /\ after.open = block.open
    BY <1>0, <2>1 DEF Blocks
  <2>3. QED
    BY <1>2, <2>2 DEF ReadsLine
<1>3. CASE block.open /\ body[i].kind = "blank"
  <2>1. after = [block EXCEPT !.open = ~(block.refs # {} /\ body[i - 1].kind = "item")]
    BY <1>3 DEF Consume
  <2>2. /\ after \in Blocks(U) /\ after.refs = block.refs
        /\ after.open = ~(block.refs # {} /\ body[i - 1].kind = "item")
    BY <1>0, <2>1 DEF Blocks
  <2>3. QED
    BY <1>3, <2>2 DEF ReadsLine
<1>4. CASE block.open /\ body[i].kind \notin {"item", "blank"}
  <2>1. after = [block EXCEPT !.open = FALSE]
    BY <1>4 DEF Consume
  <2>2. after \in Blocks(U) /\ after.refs = block.refs /\ after.open = FALSE
    BY <1>0, <2>1 DEF Blocks
  <2>3. QED
    BY <1>4, <2>2 DEF ReadsLine
<1>5. QED
  BY <1>1, <1>2, <1>3, <1>4

\* A run of the inner loop over m lines after the heading h.
IsRun(block, body, found, h, m, U) ==
    /\ \A j \in 0..m : block[j] \in Blocks(U)
    /\ block[0] = [refs |-> found \cup body[h].refs, open |-> TRUE]
    /\ \A j \in 1..m : block[j] = Consume(body, block[j - 1], h + j)

\* The inner loop of parseDependencyDeclaration is such a run.
LEMMA BlockIsRun ==
    ASSUME NEW body, NEW n \in Nat, n = Len(body), NEW h \in 1..n,
           NEW U, RefsWithin(body, n, U), NEW found \in SUBSET U
    PROVE  /\ ~IsHeading(body[h]) => ReadBlock(body, found, h) = found
           /\ IsHeading(body[h]) =>
                \E block : /\ IsRun(block, body, found, h, n - h, U)
                           /\ ReadBlock(body, found, h) = block[n - h].refs
<1>0. PICK m \in Nat : m = n - h
  <2>1. n - h \in Nat
    OBVIOUS
  <2>2. QED
    BY <2>1
<1> DEFINE begin == [refs |-> found \cup body[h].refs, open |-> TRUE]
           Defines(g) == g = [j \in 0..(Len(body) - h) |->
                                 IF j = 0 THEN begin ELSE Consume(body, g[j - 1], h + j)]
           block == CHOOSE g : Defines(g)
           F == [j \in Nat |-> [b \in Blocks(U) |-> IF j \in 1..m THEN Consume(body, b, h + j) ELSE b]]
<1>1. begin \in Blocks(U)
  BY DEF Blocks, RefsWithin
<1>2. ASSUME NEW j \in 1..m, NEW b \in Blocks(U) PROVE Consume(body, b, h + j) \in Blocks(U)
  <2>1. h + j \in 1..n
    BY <1>0
  <2>2. QED
    BY <2>1, ConsumeReads
<1>3. F \in [Nat -> [Blocks(U) -> Blocks(U)]]
  BY <1>2
<1> HIDE DEF begin
<1>4. PICK g : Takes(g, m, Blocks(U), begin, F)
  <2> HIDE DEF F
  <2>1. QED
    BY <1>0, <1>1, <1>3, StepByStep
<1>5. g \in [0..m -> Blocks(U)] /\ g[0] = begin /\ \A j \in 1..m : g[j] = F[j][g[j - 1]]
  BY <1>4 DEF Takes
<1>6. ASSUME NEW j \in 1..m PROVE g[j] = Consume(body, g[j - 1], h + j)
  <2>1. j - 1 \in 0..m /\ j \in Nat
    BY <1>0
  <2>2. g[j - 1] \in Blocks(U)
    BY <1>5, <2>1
  <2>3. F[j][g[j - 1]] = Consume(body, g[j - 1], h + j)
    BY <2>1, <2>2
  <2>4. QED
    BY <1>5, <2>3
<1> HIDE DEF F
<1>7. Defines(g)
  <2>1. g = [j \in 0..m |-> g[j]]
    BY <1>5
  <2>2. \A j \in 0..m : g[j] = IF j = 0 THEN begin ELSE Consume(body, g[j - 1], h + j)
    BY <1>0, <1>5, <1>6
  <2>3. QED
    BY <1>0, <2>1, <2>2
<1>8. Defines(block)
  <2> HIDE DEF Defines
  <2>1. QED
    BY <1>7
<1>9. IsHeading(body[h]) => ReadBlock(body, found, h) = block[Len(body) - h].refs
  BY Zenon DEF ReadBlock, begin
<1>10. ~IsHeading(body[h]) => ReadBlock(body, found, h) = found
  BY Zenon DEF ReadBlock
<1> HIDE DEF block
<1>11. \A j \in 0..m : block[j] = IF j = 0 THEN begin ELSE Consume(body, block[j - 1], h + j)
  BY <1>0, <1>8
<1>12. block[0] = begin /\ \A j \in 1..m : block[j] = Consume(body, block[j - 1], h + j)
  <2>1. 0 \in 0..m /\ \A j \in 1..m : j \in 0..m /\ j # 0
    BY <1>0
  <2>2. QED
    BY <1>11, <2>1
<1>13. \A j \in 0..m : block[j] \in Blocks(U)
  <2>1. block[0] \in Blocks(U)
    BY <1>1, <1>12
  <2>2. \A j \in 1..m : block[j - 1] \in Blocks(U) => block[j] \in Blocks(U)
    BY <1>2, <1>12
  <2>3. QED
    BY <2>1, <2>2, PrefixesStayIn
<1>14. IsRun(block, body, found, h, m, U)
  BY <1>12, <1>13 DEF IsRun, begin
<1>15. QED
  BY <1>0, <1>9, <1>10, <1>14

\* A run loses nothing of what was found, and reads each line that certainly belongs to it.
LEMMA RunReadsItsBlock ==
    ASSUME NEW body, NEW n \in Nat, NEW h \in 1..n,
           NEW U, RefsWithin(body, n, U), NEW found,
           IsHeading(body[h]), NEW block, IsRun(block, body, found, h, n - h, U)
    PROVE  /\ found \subseteq block[n - h].refs
           /\ \A k \in h..n : CertainlyOf(body, h, k) => body[k].refs \subseteq block[n - h].refs
<1>0. PICK m \in Nat : m = n - h
  <2>1. n - h \in Nat
    OBVIOUS
  <2>2. QED
    BY <2>1
<1>1. /\ \A j \in 0..m : block[j] \in Blocks(U)
      /\ block[0] = [refs |-> found \cup body[h].refs, open |-> TRUE]
      /\ \A j \in 1..m : block[j] = Consume(body, block[j - 1], h + j)
  BY <1>0 DEF IsRun
<1>2. ASSUME NEW j \in 1..m
      PROVE  /\ h + j \in 1..n /\ j - 1 \in 0..m /\ j \in 0..m
             /\ block[j - 1].refs \subseteq block[j].refs
             /\ block[j - 1].open /\ body[h + j].kind = "item" =>
                    block[j].open /\ body[h + j].refs \subseteq block[j].refs
             /\ block[j - 1].open /\ body[h + j].kind = "blank" /\ body[(h + j) - 1].kind # "item" =>
                    block[j].open
  <2>1. h + j \in 1..n /\ j - 1 \in 0..m /\ j \in 0..m
    BY <1>0
  <2>2. block[j - 1] \in Blocks(U)
    BY <1>1, <2>1
  <2>3. block[j] = Consume(body, block[j - 1], h + j)
    BY <1>1
  <2>4. ReadsLine(body, h + j, block[j - 1], block[j])
    BY <2>1, <2>2, <2>3, ConsumeReads
  <2>5. QED
    BY <2>1, <2>4 DEF ReadsLine
<1>3. ASSUME NEW a \in 0..m PROVE block[a].refs \subseteq block[m].refs
  <2> DEFINE T == {j \in 0..m : j >= a => block[a].refs \subseteq block[j].refs}
  <2>1. 0 \in T
    OBVIOUS
  <2>2. ASSUME NEW j \in 1..m, j - 1 \in T PROVE j \in T
    <3>1. block[j - 1].refs \subseteq block[j].refs /\ j \in 0..m
      BY <1>2
    <3>2. CASE j = a
      BY <3>1, <3>2
    <3>3. CASE j # a
      <4>1. j >= a => j - 1 >= a
        BY <3>3
      <4>2. QED
        BY <2>2, <3>1, <4>1
    <3>4. QED
      BY <3>2, <3>3
  <2>3. \A j \in 0..m : j \in T
    <3> HIDE DEF T
    <3>1. QED
      BY <2>1, <2>2, InductionOnPrefixes
  <2>4. m \in T /\ m >= a
    BY <2>3
  <2>5. QED
    BY <2>4
<1>4. found \cup body[h].refs \subseteq block[m].refs
  <2>1. block[0].refs \subseteq block[m].refs
    BY <1>3
  <2>2. QED
    BY <1>1, <2>1
<1>5. ASSUME NEW k \in h..n, k # h, CertainlyOf(body, h, k) PROVE body[k].refs \subseteq block[m].refs
  <2>1. PICK b \in h..(k - 1) : Between(body, h, b, {"blank"}) /\ Between(body, b, k, {"item"})
    BY <1>5 DEF CertainlyOf
  <2> DEFINE T == {j \in 0..m : h + j <= k => /\ block[j].open
                                              /\ h + j > b => body[h + j].refs \subseteq block[j].refs}
  <2>2. 0 \in T
    BY <1>1, <2>1
  <2>3. ASSUME NEW j \in 1..m, j - 1 \in T PROVE j \in T
    <3>1. SUFFICES ASSUME h + j <= k
                   PROVE  block[j].open /\ (h + j > b => body[h + j].refs \subseteq block[j].refs)
      BY <1>2
    <3>2. block[j - 1].open
      BY <2>3, <3>1
    <3>3. CASE h + j <= b
      <4>1. h + j \in (h + 1)..b
        BY <3>3
      <4>2. body[h + j].kind = "blank"
        BY <2>1, <4>1 DEF Between
      <4>3. body[(h + j) - 1].kind # "item"
        <5>1. CASE j = 1
          <6>1. (h + j) - 1 = h
            BY <5>1
          <6>2. QED
            BY <6>1 DEF IsHeading
        <5>2. CASE j # 1
          <6>1. (h + j) - 1 \in (h + 1)..b
            BY <3>3, <5>2
          <6>2. QED
            BY <2>1, <6>1 DEF Between
        <5>3. QED
          BY <5>1, <5>2
      <4>4. QED
        BY <1>2, <3>2, <3>3, <4>2, <4>3
    <3>4. CASE h + j > b
      <4>1. h + j \in (b + 1)..k
        BY <3>1, <3>4
      <4>2. body[h + j].kind = "item"
        BY <2>1, <4>1 DEF Between
      <4>3. QED
        BY <1>2, <3>2, <4>2
    <3>5. QED
      BY <2>1, <3>3, <3>4
  <2>4. \A j \in 0..m : j \in T
    <3> HIDE DEF T
    <3>1. QED
      BY <2>2, <2>3, InductionOnPrefixes
  <2>5. PICK j \in Nat : j = k - h /\ j \in 0..m /\ h + j = k
    BY <1>0
  <2>6. body[k].refs \subseteq block[j].refs
    BY <2>1, <2>4, <2>5
  <2>7. QED
    BY <1>3, <2>5, <2>6
<1>6. QED
  BY <1>0, <1>4, <1>5

\* A run reads nothing but lines that may belong to its block.
LEMMA RunReadsOnlyItsBlock ==
    ASSUME NEW body, NEW n \in Nat, NEW h \in 1..n,
           NEW U, RefsWithin(body, n, U), NEW found,
           NEW block, IsRun(block, body, found, h, n - h, U),
           NEW P, found \subseteq P,
           \A k \in h..n : PossiblyOf(body, h, k) => body[k].refs \subseteq P
    PROVE  block[n - h].refs \subseteq P
<1>0. PICK m \in Nat : m = n - h
  <2>1. n - h \in Nat
    OBVIOUS
  <2>2. QED
    BY <2>1
<1>1. /\ \A j \in 0..m : block[j] \in Blocks(U)
      /\ block[0] = [refs |-> found \cup body[h].refs, open |-> TRUE]
      /\ \A j \in 1..m : block[j] = Consume(body, block[j - 1], h + j)
  BY <1>0 DEF IsRun
<1> DEFINE Unbroken(j) == \A i \in (h + 1)..(h + j) : body[i].kind \in {"item", "blank"}
           T == {j \in 0..m : block[j].refs \subseteq P /\ (block[j].open => Unbroken(j))}
<1>2. 0 \in T
  <2>1. PossiblyOf(body, h, h) /\ h \in h..n
    BY DEF PossiblyOf
  <2>2. Unbroken(0)
    OBVIOUS
  <2>3. block[0].refs = found \cup body[h].refs
    BY <1>1
  <2>4. QED
    BY <2>1, <2>2, <2>3
<1>3. ASSUME NEW j \in 1..m, j - 1 \in T PROVE j \in T
  <2>1. h + j \in 1..n /\ h + j \in h..n /\ j - 1 \in 0..m /\ j \in 0..m
    BY <1>0
  <2>2. block[j - 1] \in Blocks(U)
    BY <1>1, <2>1
  <2>3. block[j] = Consume(body, block[j - 1], h + j)
    BY <1>1
  <2>4. /\ block[j].refs \subseteq block[j - 1].refs \cup body[h + j].refs
        /\ block[j].refs # block[j - 1].refs => block[j - 1].open /\ body[h + j].kind = "item"
        /\ block[j].open => block[j - 1].open /\ body[h + j].kind \in {"item", "blank"}
    <3>1. ReadsLine(body, h + j, block[j - 1], block[j])
      BY <2>1, <2>2, <2>3, ConsumeReads
    <3>2. QED
      BY <3>1 DEF ReadsLine
  <2>5. block[j - 1].refs \subseteq P /\ (block[j - 1].open => Unbroken(j - 1))
    BY <1>3
  <2>6. ASSUME block[j - 1].open, body[h + j].kind \in {"item", "blank"} PROVE Unbroken(j)
    <3>1. ASSUME NEW i \in (h + 1)..(h + j), i # h + j PROVE body[i].kind \in {"item", "blank"}
      <4>1. i \in (h + 1)..(h + (j - 1))
        BY <3>1
      <4>2. QED
        BY <2>5, <2>6, <4>1
    <3>2. QED
      BY <2>6, <3>1
  <2>7. block[j].open => Unbroken(j)
    BY <2>4, <2>6
  <2>8. block[j].refs \subseteq P
    <3>1. CASE block[j].refs = block[j - 1].refs
      BY <2>5, <3>1
    <3>2. CASE block[j].refs # block[j - 1].refs
      <4>1. Unbroken(j)
        BY <2>4, <2>6, <3>2
      <4>2. PossiblyOf(body, h, h + j)
        BY <4>1 DEF PossiblyOf, Between
      <4>3. QED
        BY <2>1, <2>4, <2>5, <4>2
    <3>3. QED
      BY <3>1, <3>2
  <2>9. QED
    BY <2>1, <2>7, <2>8
<1>4. \A j \in 0..m : j \in T
  <2> HIDE DEF T
  <2>1. QED
    BY <1>2, <1>3, InductionOnPrefixes
<1>5. QED
  BY <1>0, <1>4

\* What reading one block adds to what was found: each line that certainly belongs to it,
\* and nothing but lines that may.
ReadsHeading(body, n, h, found, after) ==
    /\ found \subseteq after
    /\ IsHeading(body[h]) =>
         \A k \in h..n : CertainlyOf(body, h, k) => body[k].refs \subseteq after
    /\ \A P : /\ found \subseteq P
              /\ IsHeading(body[h]) =>
                    \A k \in h..n : PossiblyOf(body, h, k) => body[k].refs \subseteq P
              => after \subseteq P

\* ReadBlock does that.
LEMMA ReadBlockReads ==
    ASSUME NEW body, NEW n \in Nat, n = Len(body), NEW h \in 1..n,
           NEW U, RefsWithin(body, n, U), NEW found \in SUBSET U
    PROVE  /\ ReadBlock(body, found, h) \in SUBSET U
           /\ ReadsHeading(body, n, h, found, ReadBlock(body, found, h))
<1>1. CASE ~IsHeading(body[h])
  <2>1. ReadBlock(body, found, h) = found
    BY <1>1, BlockIsRun
  <2>2. QED
    BY <1>1, <2>1 DEF ReadsHeading
<1>2. CASE IsHeading(body[h])
  <2>1. PICK block : /\ IsRun(block, body, found, h, n - h, U)
                     /\ ReadBlock(body, found, h) = block[n - h].refs
    BY <1>2, BlockIsRun
  <2>2. block[n - h] \in Blocks(U)
    <3>1. n - h \in 0..(n - h)
      OBVIOUS
    <3>2. QED
      BY <2>1, <3>1 DEF IsRun
  <2>3. block[n - h].refs \subseteq U
    BY <2>2 DEF Blocks
  <2>4. /\ found \subseteq block[n - h].refs
        /\ \A k \in h..n : CertainlyOf(body, h, k) => body[k].refs \subseteq block[n - h].refs
    BY <1>2, <2>1, RunReadsItsBlock
  <2>5. ASSUME NEW P, found \subseteq P,
               \A k \in h..n : PossiblyOf(body, h, k) => body[k].refs \subseteq P
        PROVE  block[n - h].refs \subseteq P
    BY <2>1, <2>5, RunReadsOnlyItsBlock
  <2>6. QED
    BY <1>2, <2>1, <2>3, <2>4, <2>5 DEF ReadsHeading
<1>3. QED
  BY <1>1, <1>2

\* parseDependencyDeclaration reads each line that certainly belongs to a block, and none
\* that cannot.
LEMMA BodyIsRead ==
    ASSUME NEW body, IsBody(body)
    PROVE  /\ Refs(body, CertainlyOf) \subseteq parseIssueDependencies(body)
           /\ parseIssueDependencies(body) \subseteq Refs(body, PossiblyOf)
<1>0. PICK n \in Nat : n = Len(body) /\ DOMAIN body = 1..n
  BY DEF IsBody
<1> DEFINE U == UNION {body[k].refs : k \in 1..n}
           Defines(f) == f = [k \in 0..Len(body) |->
                                 IF k = 0 THEN {} ELSE ReadBlock(body, f[k - 1], k)]
           found == CHOOSE f : Defines(f)
           F == [k \in Nat |-> [s \in SUBSET U |-> IF k \in 1..n THEN ReadBlock(body, s, k) ELSE s]]
<1>1. RefsWithin(body, n, U)
  BY DEF RefsWithin
<1> HIDE DEF U
<1>2. ASSUME NEW k \in 1..n, NEW s \in SUBSET U
      PROVE  /\ ReadBlock(body, s, k) \in SUBSET U
             /\ ReadsHeading(body, n, k, s, ReadBlock(body, s, k))
  BY <1>0, <1>1, ReadBlockReads
<1>3. F \in [Nat -> [SUBSET U -> SUBSET U]]
  BY <1>2
<1>4. PICK g : Takes(g, n, SUBSET U, {}, F)
  <2> HIDE DEF F
  <2>1. QED
    BY <1>3, StepByStep
<1>5. g \in [0..n -> SUBSET U] /\ g[0] = {} /\ \A k \in 1..n : g[k] = F[k][g[k - 1]]
  BY <1>4 DEF Takes
<1>6. ASSUME NEW k \in 1..n PROVE g[k] = ReadBlock(body, g[k - 1], k)
  <2>1. k - 1 \in 0..n /\ k \in Nat
    OBVIOUS
  <2>2. g[k - 1] \in SUBSET U
    BY <1>5, <2>1
  <2>3. F[k][g[k - 1]] = ReadBlock(body, g[k - 1], k)
    BY <2>1, <2>2
  <2>4. QED
    BY <1>5, <2>3
<1> HIDE DEF F
<1>7. Defines(g)
  <2>1. g = [k \in 0..n |-> g[k]]
    BY <1>5
  <2>2. \A k \in 0..n : g[k] = IF k = 0 THEN {} ELSE ReadBlock(body, g[k - 1], k)
    BY <1>5, <1>6
  <2>3. QED
    BY <1>0, <2>1, <2>2
<1>8. Defines(found)
  <2> HIDE DEF Defines
  <2>1. QED
    BY <1>7
<1>9. parseIssueDependencies(body) = found[Len(body)]
  BY Zenon DEF parseIssueDependencies
<1> HIDE DEF found
<1>10. \A k \in 0..n : found[k] = IF k = 0 THEN {} ELSE ReadBlock(body, found[k - 1], k)
  BY <1>0, <1>8
<1>11. found[0] = {} /\ \A k \in 1..n : found[k] = ReadBlock(body, found[k - 1], k)
  <2>1. 0 \in 0..n /\ \A k \in 1..n : k \in 0..n /\ k # 0
    OBVIOUS
  <2>2. QED
    BY <1>10, <2>1
<1> HIDE DEF Defines
<1>12. \A k \in 0..n : found[k] \in SUBSET U
  <2>1. found[0] \in SUBSET U
    BY <1>11
  <2>2. \A k \in 1..n : found[k - 1] \in SUBSET U => found[k] \in SUBSET U
    BY <1>2, <1>11
  <2>3. QED
    BY <2>1, <2>2, PrefixesStayIn
<1>13. ASSUME NEW k \in 1..n PROVE found[k - 1] \subseteq found[k] /\ ReadsHeading(body, n, k, found[k - 1], found[k])
  <2>1. k - 1 \in 0..n
    OBVIOUS
  <2>2. found[k - 1] \in SUBSET U
    BY <1>12, <2>1
  <2>3. ReadsHeading(body, n, k, found[k - 1], found[k])
    BY <1>2, <1>11, <2>2
  <2>4. QED
    BY <2>3 DEF ReadsHeading
<1>14. ASSUME NEW a \in 0..n PROVE found[a] \subseteq found[n]
  <2> DEFINE T == {j \in 0..n : j >= a => found[a] \subseteq found[j]}
  <2>1. 0 \in T
    OBVIOUS
  <2>2. ASSUME NEW j \in 1..n, j - 1 \in T PROVE j \in T
    <3>1. found[j - 1] \subseteq found[j]
      BY <1>13
    <3>2. CASE j = a
      BY <3>2
    <3>3. CASE j # a
      <4>1. j >= a => j - 1 >= a
        BY <3>3
      <4>2. QED
        BY <2>2, <3>1, <4>1
    <3>4. QED
      BY <3>2, <3>3
  <2>3. \A j \in 0..n : j \in T
    <3> HIDE DEF T
    <3>1. QED
      BY <2>1, <2>2, InductionOnPrefixes
  <2>4. n \in T /\ n >= a
    BY <2>3
  <2>5. QED
    BY <2>4
<1>15. Refs(body, CertainlyOf) \subseteq found[n]
  <2>1. SUFFICES ASSUME NEW j \in 1..n, NEW h \in 1..j, IsHeading(body[h]), CertainlyOf(body, h, j)
                 PROVE  body[j].refs \subseteq found[n]
    BY <1>0 DEF Refs
  <2>2. h \in 1..n /\ h \in 0..n /\ j \in h..n
    OBVIOUS
  <2>3. body[j].refs \subseteq found[h]
    BY <1>13, <2>1, <2>2 DEF ReadsHeading
  <2>4. QED
    BY <1>14, <2>2, <2>3
<1>16. found[n] \subseteq Refs(body, PossiblyOf)
  <2> DEFINE P == Refs(body, PossiblyOf)
  <2>1. ASSUME NEW h \in 1..n, IsHeading(body[h]), NEW j \in h..n, PossiblyOf(body, h, j)
        PROVE  body[j].refs \subseteq P
    <3>1. j \in 1..n /\ h \in 1..j
      OBVIOUS
    <3>2. QED
      BY <1>0, <2>1, <3>1 DEF Refs
  <2> HIDE DEF P
  <2>2. found[0] \in SUBSET P
    BY <1>11
  <2>3. ASSUME NEW k \in 1..n, found[k - 1] \in SUBSET P PROVE found[k] \in SUBSET P
    <3>1. ReadsHeading(body, n, k, found[k - 1], found[k])
      BY <1>13
    <3>2. IsHeading(body[k]) => \A j \in k..n : PossiblyOf(body, k, j) => body[j].refs \subseteq P
      BY <2>1
    <3>3. QED
      BY <2>3, <3>1, <3>2 DEF ReadsHeading
  <2>4. \A k \in 0..n : found[k] \in SUBSET P
    BY <2>2, <2>3, PrefixesStayIn
  <2>5. QED
    BY <2>4 DEF P
<1>17. QED
  BY <1>0, <1>9, <1>15, <1>16

-----------------------------------------------------------------------------
\* The labels an issue may have.
Labels == ExcludedLabels \cup {"agent:ready"} \cup Range(priorityLabels)

\* The issues of a backlog.
Issues == [state : {"open", "closed"}, labels : SUBSET Labels, body : Bodies]

\* The runs of the selection.
Runs == [pc : {"idle", "claim", "label", "work", "stopped"},
         selected : IssueNumbers \cup {0}, skip : SUBSET IssueNumbers]

\* What the body n was selected with names is closed, and, for a body that names nothing, what
\* the map of the run that selected it does; or people have edited the body since.
Waited(issues, since, s, n) ==
    n \in since \/ \A d \in effective(FallbackOf(s), n, issues[n].body) : satisfied(issues, d)

\* The inductive invariant: what has been selected has waited, before work begins on it, and
\* whatever the others have done since the backlog was read.
SelectionInv ==
    /\ backlog \in [IssueNumbers -> Issues]
    /\ selector \in [Selectors -> Runs]
    /\ started \subseteq Selectors \X IssueNumbers
    /\ \A s \in Selectors : selector[s].pc \in {"claim", "label", "work"} =>
           /\ selector[s].selected \in IssueNumbers
           /\ Waited(backlog, edited, s, selector[s].selected)
    /\ \A b \in started : Waited(backlog, edited, b[1], b[2])

\* What no step undoes: an issue that is closed is not opened again, and a body is not
\* another unless it counts as edited.
Onward ==
    /\ backlog' \in [IssueNumbers -> Issues]
    /\ edited \subseteq edited'
    /\ \A n \in IssueNumbers :
          /\ backlog[n].state = "closed" => backlog'[n].state = "closed"
          /\ backlog'[n].body = backlog[n].body \/ n \in edited'

\* So what has waited has not to wait again.
LEMMA WaitedIsKept ==
    ASSUME backlog \in [IssueNumbers -> Issues], Onward, NEW s \in Selectors,
           NEW n \in IssueNumbers, Waited(backlog, edited, s, n)
    PROVE  Waited(backlog', edited', s, n)
<1>1. CASE n \in edited'
  BY <1>1 DEF Waited
<1>2. CASE n \notin edited'
  <2>1. n \notin edited /\ backlog'[n].body = backlog[n].body
    BY <1>2 DEF Onward
  <2>2. ASSUME NEW d \in effective(FallbackOf(s), n, backlog[n].body) PROVE satisfied(backlog', d)
    <3>1. satisfied(backlog, d)
      BY <2>1 DEF Waited
    <3>2. DOMAIN backlog = IssueNumbers /\ DOMAIN backlog' = IssueNumbers
      BY DEF Onward
    <3>3. QED
      BY <3>1, <3>2 DEF satisfied, Onward
  <2>3. QED
    BY <2>1, <2>2 DEF Waited
<1>3. QED
  BY <1>1, <1>2

\* A step that changes the labels of an issue, or closes it, leaves bodies alone.
LEMMA RelabelIsOnward ==
    ASSUME backlog \in [IssueNumbers -> Issues], NEW n \in IssueNumbers, NEW issue \in Issues,
           issue.body = backlog[n].body, backlog[n].state = "closed" => issue.state = "closed",
           backlog' = [backlog EXCEPT ![n] = issue], edited' = edited
    PROVE  Onward
BY DEF Onward

\* The same when nothing changes.
LEMMA NothingIsOnward ==
    ASSUME backlog \in [IssueNumbers -> Issues], backlog' = backlog, edited' = edited
    PROVE  Onward
BY DEF Onward

\* A run that has selected nothing, or what has waited.
RunHasWaited(s, run) ==
    run.pc \in {"claim", "label", "work"} =>
        run.selected \in IssueNumbers /\ Waited(backlog, edited, s, run.selected)

\* Issues that have waited, each for the run that has begun it.
HaveWaited(begun) ==
    /\ begun \subseteq Selectors \X IssueNumbers
    /\ \A b \in begun : Waited(backlog, edited, b[1], b[2])

\* The parts of the invariant follow, if the run that moves has waited where it must.
LEMMA RunMoves ==
    ASSUME SelectionInv, Onward, NEW s \in Selectors, NEW run \in Runs, RunHasWaited(s, run),
           selector' = [selector EXCEPT ![s] = run], HaveWaited(started')
    PROVE  SelectionInv'
<1>1. backlog' \in [IssueNumbers -> Issues]
  BY DEF Onward
<1>2. selector' \in [Selectors -> Runs]
  BY DEF SelectionInv
<1>3. started' \subseteq Selectors \X IssueNumbers
  BY DEF HaveWaited
<1>4. backlog \in [IssueNumbers -> Issues]
  BY DEF SelectionInv
<1>5. ASSUME NEW r \in Selectors, selector'[r].pc \in {"claim", "label", "work"}
      PROVE  /\ selector'[r].selected \in IssueNumbers
             /\ Waited(backlog', edited', r, selector'[r].selected)
  <2>1. CASE r = s
    <3>1. selector'[r] = run
      BY <2>1 DEF SelectionInv
    <3>2. QED
      BY <1>4, <1>5, <2>1, <3>1, WaitedIsKept DEF RunHasWaited
  <2>2. CASE r # s
    <3>1. selector'[r] = selector[r]
      BY <2>2 DEF SelectionInv
    <3>2. selector[r].selected \in IssueNumbers /\ Waited(backlog, edited, r, selector[r].selected)
      BY <1>5, <3>1 DEF SelectionInv
    <3>3. QED
      BY <1>4, <3>1, <3>2, WaitedIsKept
  <2>3. QED
    BY <2>1, <2>2
<1>6. ASSUME NEW b \in started' PROVE Waited(backlog', edited', b[1], b[2])
  <2>1. b[1] \in Selectors /\ b[2] \in IssueNumbers /\ Waited(backlog, edited, b[1], b[2])
    BY DEF HaveWaited
  <2>2. QED
    BY <1>4, <2>1, WaitedIsKept
<1>7. QED
  BY <1>1, <1>2, <1>3, <1>5, <1>6 DEF SelectionInv

\* The same when people act.
LEMMA PeopleAct ==
    ASSUME SelectionInv, Onward, selector' = selector, started' = started
    PROVE  SelectionInv'
<1>1. backlog' \in [IssueNumbers -> Issues]
  BY DEF Onward
<1>2. backlog \in [IssueNumbers -> Issues]
  BY DEF SelectionInv
<1>3. ASSUME NEW r \in Selectors, selector'[r].pc \in {"claim", "label", "work"}
      PROVE  /\ selector'[r].selected \in IssueNumbers
             /\ Waited(backlog', edited', r, selector'[r].selected)
  <2>1. selector[r].selected \in IssueNumbers /\ Waited(backlog, edited, r, selector[r].selected)
    BY <1>3 DEF SelectionInv
  <2>2. QED
    BY <1>2, <2>1, WaitedIsKept
<1>4. ASSUME NEW b \in started' PROVE Waited(backlog', edited', b[1], b[2])
  <2>1. b[1] \in Selectors /\ b[2] \in IssueNumbers /\ Waited(backlog, edited, b[1], b[2])
    BY DEF SelectionInv
  <2>2. QED
    BY <1>2, <2>1, WaitedIsKept
<1>5. QED
  BY <1>1, <1>3, <1>4 DEF SelectionInv

-----------------------------------------------------------------------------
\* Nothing has been selected to begin with.
LEMMA SelectionStarts == SelectionInit => SelectionInv
<1> SUFFICES ASSUME SelectionInit PROVE SelectionInv
  OBVIOUS
<1>1. backlog \in [IssueNumbers -> Issues]
  <2>1. {"agent:ready"} \in SUBSET Labels
    BY DEF Labels
  <2>2. QED
    BY <2>1 DEF SelectionInit, Issues
<1>2. AtEase \in Runs /\ AtEase.pc = "idle"
  BY DEF AtEase, Runs
<1>3. selector = [s \in Selectors |-> AtEase] /\ started = {}
  BY DEF SelectionInit
<1>4. QED
  BY <1>1, <1>2, <1>3 DEF SelectionInv

\* The steps of a run of the selection keep the invariant.
LEMMA RunKeepsSelectionInv ==
    ASSUME SelectionInv, NEW s \in Selectors,
           SelectIssue(s) \/ NothingSelected(s) \/ ClaimChecked(s) \/ ClaimIssue(s)
               \/ Ship(s) \/ GiveUpIssue(s)
    PROVE  SelectionInv'
<1> DEFINE n == selector[s].selected
<1>1. /\ backlog \in [IssueNumbers -> Issues]
      /\ selector[s] \in Runs
      /\ selector[s].pc \in {"claim", "label", "work"} =>
            n \in IssueNumbers /\ Waited(backlog, edited, s, n)
  BY DEF SelectionInv
<1>2. AtEase \in Runs /\ AtEase.pc = "idle"
  BY DEF AtEase, Runs
<1>3. HaveWaited(started)
  BY DEF SelectionInv, HaveWaited
<1>4. CASE SelectIssue(s)
  <2>1. PICK k \in Selection(s) :
            selector' = [selector EXCEPT ![s].pc = "claim", ![s].selected = k]
    BY <1>4 DEF SelectIssue
  <2>2. k \in IssueNumbers /\ Waited(backlog, edited, s, k)
    <3> DEFINE seen == Visible(s)
               map == FallbackOf(s)
    <3>1. /\ DOMAIN seen \subseteq IssueNumbers
          /\ \A m \in DOMAIN seen : seen[m] = backlog[m]
      BY DEF Visible
    <3> HIDE DEF seen, map
    <3>2. k \in DOMAIN seen /\ eligible(seen, k, map, selector[s].skip)
      BY DEF Selection, selectNextIssue, seen, map
    <3>3. \A d \in effective(map, k, seen[k].body) : satisfied(seen, d)
      BY <3>2 DEF eligible
    <3>4. ASSUME NEW d \in effective(map, k, backlog[k].body) PROVE satisfied(backlog, d)
      <4>1. seen[k].body = backlog[k].body
        BY <3>1, <3>2
      <4>2. satisfied(seen, d)
        BY <3>3, <4>1
      <4>3. QED
        BY <1>1, <3>1, <4>2 DEF satisfied
    <3>5. QED
      BY <3>1, <3>2, <3>4 DEF Waited, map
  <2> DEFINE run == [selector[s] EXCEPT !.pc = "claim", !.selected = k]
  <2>3. selector' = [selector EXCEPT ![s] = run]
    BY <2>1
  <2>4. run \in Runs /\ RunHasWaited(s, run)
    <3>1. run \in Runs /\ run.selected = k
      BY <1>1, <2>2 DEF Runs
    <3>2. QED
      BY <2>2, <3>1 DEF RunHasWaited
  <2>5. backlog' = backlog /\ edited' = edited /\ started' = started
    BY <1>4 DEF SelectIssue
  <2>6. Onward
    BY <1>1, <2>5, NothingIsOnward
  <2> HIDE DEF run
  <2>7. QED
    BY <1>3, <2>2, <2>3, <2>4, <2>5, <2>6, RunMoves
<1>5. CASE NothingSelected(s)
  <2> DEFINE run == [selector[s] EXCEPT !.pc = "stopped"]
  <2>1. selector' = [selector EXCEPT ![s] = run]
    BY <1>5 DEF NothingSelected
  <2>2. run \in Runs /\ RunHasWaited(s, run)
    BY <1>1 DEF Runs, RunHasWaited
  <2>3. backlog' = backlog /\ edited' = edited /\ started' = started
    BY <1>5 DEF NothingSelected
  <2>4. Onward
    BY <1>1, <2>3, NothingIsOnward
  <2> HIDE DEF run
  <2>5. QED
    BY <1>3, <2>1, <2>2, <2>3, <2>4, RunMoves
<1>6. CASE ClaimChecked(s)
  <2> DEFINE run == IF Claimable(n) THEN [selector[s] EXCEPT !.pc = "label"] ELSE AtEase
  <2>1. selector' = [selector EXCEPT ![s] = run]
    BY <1>6 DEF ClaimChecked
  <2>2. n \in IssueNumbers /\ Waited(backlog, edited, s, n)
    BY <1>1, <1>6 DEF ClaimChecked
  <2>3. run \in Runs /\ RunHasWaited(s, run)
    <3>1. run \in Runs /\ (run.pc # "idle" => run.selected = n)
      BY <1>1, <1>2 DEF Runs
    <3>2. QED
      BY <2>2, <3>1 DEF RunHasWaited
  <2>4. backlog' = backlog /\ edited' = edited /\ started' = started
    BY <1>6 DEF ClaimChecked
  <2>5. Onward
    BY <1>1, <2>4, NothingIsOnward
  <2> HIDE DEF run
  <2>6. QED
    BY <1>3, <2>1, <2>2, <2>3, <2>4, <2>5, RunMoves
<1>7. CASE ClaimIssue(s)
  <2>1. n \in IssueNumbers /\ Waited(backlog, edited, s, n)
    BY <1>1, <1>7 DEF ClaimIssue
  <2> DEFINE run == [selector[s] EXCEPT !.pc = "work"]
             issue == [backlog[n] EXCEPT !.labels = (@ \cup {"agent:in-progress"}) \ {"agent:ready"}]
  <2>2. selector' = [selector EXCEPT ![s] = run] /\ backlog' = [backlog EXCEPT ![n] = issue]
    BY <1>7 DEF ClaimIssue
  <2>3. run \in Runs /\ RunHasWaited(s, run)
    <3>1. run \in Runs /\ run.selected = n
      BY <1>1 DEF Runs
    <3>2. QED
      BY <2>1, <3>1 DEF RunHasWaited
  <2>4. issue \in Issues /\ issue.body = backlog[n].body /\ issue.state = backlog[n].state
    BY <1>1, <2>1 DEF Issues, Labels, ExcludedLabels
  <2>5. edited' = edited /\ started' = started \cup {<<s, n>>}
    BY <1>7 DEF ClaimIssue
  <2> HIDE DEF run, issue
  <2>6. Onward
    BY <1>1, <2>1, <2>2, <2>4, <2>5, RelabelIsOnward
  <2>7. HaveWaited(started')
    BY <1>3, <2>1, <2>5 DEF HaveWaited
  <2>8. QED
    BY <2>2, <2>3, <2>6, <2>7, RunMoves
<1>8. CASE Ship(s)
  <2>1. n \in IssueNumbers
    BY <1>1, <1>8 DEF Ship
  <2> DEFINE run == [AtEase EXCEPT !.skip = selector[s].skip]
             issue == [backlog[n] EXCEPT !.state = "closed",
                                         !.labels = @ \ ({"agent:ready"} \cup ExcludedLabels)]
  <2>2. selector' = [selector EXCEPT ![s] = run] /\ backlog' = [backlog EXCEPT ![n] = issue]
    BY <1>8 DEF Ship
  <2>3. run \in Runs /\ RunHasWaited(s, run)
    BY <1>1 DEF Runs, AtEase, RunHasWaited
  <2>4. issue \in Issues /\ issue.body = backlog[n].body /\ issue.state = "closed"
    BY <1>1, <2>1 DEF Issues
  <2>5. edited' = edited /\ started' = started
    BY <1>8 DEF Ship
  <2> HIDE DEF run, issue
  <2>6. Onward
    BY <1>1, <2>1, <2>2, <2>4, <2>5, RelabelIsOnward
  <2>7. QED
    BY <1>3, <2>2, <2>3, <2>5, <2>6, RunMoves
<1>9. CASE GiveUpIssue(s)
  <2>1. n \in IssueNumbers
    BY <1>1, <1>9 DEF GiveUpIssue
  <2> DEFINE skipped == IF s \in Local THEN selector[s].skip \cup {n} ELSE {}
             run == [AtEase EXCEPT !.skip = skipped]
             issue == [backlog[n] EXCEPT !.labels = (@ \cup {"agent:blocked"}) \ {"agent:in-progress"}]
  <2>2. selector' = [selector EXCEPT ![s] = run] /\ backlog' = [backlog EXCEPT ![n] = issue]
    BY <1>9 DEF GiveUpIssue
  <2>3. skipped \subseteq IssueNumbers
    BY <1>1, <2>1 DEF Runs
  <2>4. run \in Runs /\ RunHasWaited(s, run)
    <3> HIDE DEF skipped
    <3>1. QED
      BY <2>3 DEF Runs, AtEase, RunHasWaited
  <2>5. issue \in Issues /\ issue.body = backlog[n].body /\ issue.state = backlog[n].state
    BY <1>1, <2>1 DEF Issues, Labels, ExcludedLabels
  <2>6. edited' = edited /\ started' = started
    BY <1>9 DEF GiveUpIssue
  <2> HIDE DEF run, issue
  <2>7. Onward
    BY <1>1, <2>1, <2>2, <2>5, <2>6, RelabelIsOnward
  <2>8. QED
    BY <1>3, <2>2, <2>4, <2>6, <2>7, RunMoves
<1>10. QED
  BY <1>4, <1>5, <1>6, <1>7, <1>8, <1>9

\* What people do keeps the invariant.
LEMMA PeopleKeepSelectionInv ==
    ASSUME SelectionInv, NEW n \in IssueNumbers,
           EditBody(n) \/ Prioritise(n) \/ Unblock(n) \/ CloseIssue(n)
    PROVE  SelectionInv'
<1>1. backlog \in [IssueNumbers -> Issues] /\ backlog[n] \in Issues
  BY DEF SelectionInv
<1>2. selector' = selector /\ started' = started
  BY DEF EditBody, Prioritise, Unblock, CloseIssue, ByPerson
<1>3. CASE EditBody(n)
  <2>1. PICK b \in Bodies : backlog' = [backlog EXCEPT ![n] = [backlog[n] EXCEPT !.body = b]]
    BY <1>3 DEF EditBody, ByPerson
  <2>2. edited' = edited \cup {n}
    BY <1>3 DEF EditBody
  <2>3. /\ [backlog[n] EXCEPT !.body = b] \in Issues
        /\ [backlog[n] EXCEPT !.body = b].state = backlog[n].state
    BY <1>1 DEF Issues
  <2>4. Onward
    BY <1>1, <2>1, <2>2, <2>3 DEF Onward
  <2>5. QED
    BY <1>2, <2>4, PeopleAct
<1>4. CASE Prioritise(n)
  <2>1. PICK l \in Range(priorityLabels) :
            backlog' = [backlog EXCEPT ![n] = [backlog[n] EXCEPT !.labels = @ \cup {l}]]
    BY <1>4 DEF Prioritise, ByPerson
  <2> DEFINE issue == [backlog[n] EXCEPT !.labels = @ \cup {l}]
  <2>2. issue \in Issues /\ issue.body = backlog[n].body /\ issue.state = backlog[n].state
    BY <1>1 DEF Issues, Labels
  <2>3. backlog' = [backlog EXCEPT ![n] = issue] /\ edited' = edited
    BY <1>4, <2>1 DEF Prioritise
  <2> HIDE DEF issue
  <2>4. Onward
    BY <1>1, <2>2, <2>3, RelabelIsOnward
  <2>5. QED
    BY <1>2, <2>4, PeopleAct
<1>5. CASE Unblock(n)
  <2> DEFINE issue == [backlog[n] EXCEPT !.labels = (@ \ {"agent:blocked"}) \cup {"agent:ready"}]
  <2>1. issue \in Issues /\ issue.body = backlog[n].body /\ issue.state = backlog[n].state
    BY <1>1 DEF Issues, Labels
  <2>2. backlog' = [backlog EXCEPT ![n] = issue] /\ edited' = edited
    BY <1>5 DEF Unblock, ByPerson
  <2> HIDE DEF issue
  <2>3. Onward
    BY <1>1, <2>1, <2>2, RelabelIsOnward
  <2>4. QED
    BY <1>2, <2>3, PeopleAct
<1>6. CASE CloseIssue(n)
  <2> DEFINE issue == [backlog[n] EXCEPT !.state = "closed"]
  <2>1. issue \in Issues /\ issue.body = backlog[n].body /\ issue.state = "closed"
    BY <1>1 DEF Issues
  <2>2. backlog' = [backlog EXCEPT ![n] = issue] /\ edited' = edited
    BY <1>6 DEF CloseIssue, ByPerson
  <2> HIDE DEF issue
  <2>3. Onward
    BY <1>1, <2>1, <2>2, RelabelIsOnward
  <2>4. QED
    BY <1>2, <2>3, PeopleAct
<1>7. QED
  BY <1>3, <1>4, <1>5, <1>6

\* What every behaviour of the selection keeps: what is selected, or has been begun, names
\* nothing that was open when the backlog was read and is open still.
THEOREM SelectionInvariance == SelectionSpec => []SelectionInv
<1>1. ASSUME SelectionInv, SelectionNext PROVE SelectionInv'
  <2>1. CASE \E s \in Selectors :
                SelectIssue(s) \/ NothingSelected(s) \/ ClaimChecked(s) \/ ClaimIssue(s)
                    \/ Ship(s) \/ GiveUpIssue(s)
    BY <1>1, <2>1, RunKeepsSelectionInv
  <2>2. CASE \E n \in IssueNumbers : EditBody(n) \/ Prioritise(n) \/ Unblock(n) \/ CloseIssue(n)
    BY <1>1, <2>2, PeopleKeepSelectionInv
  <2>3. QED
    BY <1>1, <2>1, <2>2 DEF SelectionNext
<1>2. SelectionInv /\ UNCHANGED selectionVars => SelectionInv'
  <2>1. SUFFICES ASSUME SelectionInv, UNCHANGED selectionVars PROVE SelectionInv'
    OBVIOUS
  <2>2. backlog' = backlog /\ selector' = selector /\ started' = started /\ edited' = edited
    BY <2>1 DEF selectionVars
  <2>3. Onward
    BY <2>1, <2>2, NothingIsOnward DEF SelectionInv
  <2>4. QED
    BY <2>1, <2>2, <2>3, PeopleAct
<1>3. QED
  BY SelectionStarts, <1>1, <1>2, PTL DEF SelectionSpec

\* parseIssueDependencies reads every reference in a block and none from elsewhere, however
\* long the body is.
THEOREM BlockIsReadHolds == SelectionSpec => []BlockIsRead
<1>1. SelectionInv => BlockIsRead
  <2>1. SUFFICES ASSUME SelectionInv, NEW n \in IssueNumbers PROVE IsBody(backlog[n].body)
    BY BodyIsRead DEF BlockIsRead
  <2>2. backlog[n].body \in Bodies
    BY <2>1 DEF SelectionInv, Issues
  <2>3. QED
    BY <2>2, SelectionAssumption
<1>2. QED
  BY SelectionInvariance, <1>1, PTL

\* Work does not begin on an issue before what its body names is closed, nor the workflow's
\* before what the map names is: neither the age of the reading nor what other runs and people
\* do in between can change that.
THEOREM WorkedInOrderHolds == SelectionSpec => []WorkedInOrder
<1>1. SelectionInv => WorkedInOrder
  <2>1. SUFFICES ASSUME SelectionInv, NEW b \in started, NEW n, n = b[2], n \notin edited,
                        NEW map, map = FallbackOf(b[1]), NEW body, body = backlog[n].body,
                        NEW d \in Refs(body, CertainlyOf)
                                    \cup (IF AnswersItself(body) THEN {} ELSE Fallback(map, n))
                 PROVE  IsClosed(d)
    BY Zenon DEF WorkedInOrder
  <2>2. n \in IssueNumbers /\ DOMAIN backlog = IssueNumbers /\ body \in Bodies
    BY <2>1 DEF SelectionInv, Issues
  <2>3. /\ Refs(body, CertainlyOf) \subseteq parseIssueDependencies(body)
        /\ parseIssueDependencies(body) \subseteq Refs(body, PossiblyOf)
    BY <2>2, BodyIsRead, SelectionAssumption
  <2>4. parseIssueDependencies(body) # {} => Declared(body)
    <3>1. SUFFICES ASSUME NEW e \in Refs(body, PossiblyOf)
                   PROVE  \E k \in DOMAIN body : IsHeading(body[k])
      BY <2>3 DEF Declared
    <3>2. PICK j \in DOMAIN body : \E h \in 1..j : IsHeading(body[h])
      BY DEF Refs
    <3>3. PICK h \in 1..j : IsHeading(body[h])
      BY <3>2
    <3>4. PICK m \in Nat : DOMAIN body = 1..m
      BY <2>2, SelectionAssumption DEF IsBody
    <3>5. h \in 1..m
      BY <3>4
    <3>6. QED
      BY <3>3, <3>4, <3>5
  <2>5. d \in effective(map, n, body)
    <3>1. CASE d \in Refs(body, CertainlyOf)
      BY <2>3, <2>4, <3>1 DEF effective
    <3>2. CASE ~AnswersItself(body) /\ d \in Fallback(map, n)
      <4>1. ~Declared(body)
        BY <2>3, <3>2 DEF Declared, AnswersItself
      <4>2. QED
        BY <3>2, <4>1 DEF effective
    <3>3. QED
      BY <2>1, <3>1, <3>2
  <2>6. satisfied(backlog, d)
    BY <2>1, <2>5 DEF SelectionInv, Waited
  <2>7. QED
    BY <2>2, <2>6 DEF satisfied, IsClosed
<1>2. QED
  BY SelectionInvariance, <1>1, PTL
=============================================================================
