-------------------------- MODULE LocalRunnerProofs ---------------------------
(***************************************************************************)
(* Three parts of the local runner: what its lock guarantees, for any number *)
(* of runners; what one issue costs and what a settled issue has passed, for *)
(* any tiers and limits; and what the budget limits, for any windows,      *)
(* limits and number of events.                                            *)
(***************************************************************************)
EXTENDS RunnerLock, AgentRound, RunnerBudget, PrefixInduction

-----------------------------------------------------------------------------
(***************************************************************************)
(* RunnerLock.                                                             *)
(***************************************************************************)

\* As long as startups did not overlap and no namesake was mistaken, who takes the lock or works is alone, who
\* works finds its name in the file, and who is about to write finds no name there.
Alone ==
    ~raced /\ ~mistaken =>
        /\ \A p, q \in Taking \cup Holding : p = q
        /\ \A p \in Holding : file = p
        /\ \A p \in Runners : pc[p] = "write" => file \notin Runners

\* A runner that was never killed leaves only by way of release.
OwnerHolds == file \in Runners /\ file \notin killed => file \in Holding

\* The inductive invariant of the lock.
LockInv == TypeOK /\ Alone /\ OwnerHolds

\* At first there is no lock file and nobody looks for one.
LEMMA LockInit == Init => LockInv
BY LockAssumption
   DEF Init, LockInv, TypeOK, Alone, OwnerHolds, Dead, Taking, Holding

\* The runners that take or hold the lock change with the one that steps.
LEMMA GotoStep ==
    ASSUME TypeOK, NEW p \in Runners, NEW to, Goto(p, to)
    PROVE  /\ pc'[p] = to
           /\ \A q \in Runners \ {p} : pc'[q] = pc[q]
           /\ Taking' = (Taking \ {p}) \cup (IF to \in {"truncate", "write"} THEN {p} ELSE {})
           /\ Holding' = (Holding \ {p})
                            \cup (IF to \in {"working", "release", "remove"} THEN {p} ELSE {})
<1>1. /\ pc'[p] = to
      /\ \A q \in Runners \ {p} : pc'[q] = pc[q]
  BY DEF Goto, TypeOK
<1> QED
  BY <1>1 DEF Taking, Holding

\* Every access to the lock keeps the invariant.
LEMMA LockStep == LockInv /\ [Next]_vars => LockInv'
<1> SUFFICES ASSUME LockInv, [Next]_vars PROVE LockInv'
  OBVIOUS
<1> USE LockAssumption DEF LockInv
<1>1. ASSUME NEW p \in Runners, Launch(p) \/ Preflight(p) \/ RefuseLock(p) \/ Kill(p) PROVE LockInv'
  <2>1. PICK to \in {"preflight", "refused", "acquire", "off"} : Goto(p, to)
    BY <1>1 DEF Launch, Preflight, RefuseLock, Kill
  <2>2. TypeOK'
    BY <1>1, <2>1 DEF Launch, Preflight, RefuseLock, Kill, Goto, TypeOK, Dead
  <2>3. Taking' = Taking \ {p} /\ Holding' = Holding \ {p}
    BY <2>1, GotoStep
  <2>4. Alone'
    BY <1>1, <2>1, <2>3, GotoStep DEF Launch, Preflight, RefuseLock, Kill, Alone
  <2>5. OwnerHolds'
    BY <1>1, <2>3 DEF Launch, Preflight, RefuseLock, Kill, OwnerHolds, Holding, Dead
  <2> QED
    BY <2>2, <2>4, <2>5
\* The owner of a lock that is not Held is not at work, unless it is a namesake's.
<1>2. ASSUME NEW p \in Runners, Acquire(p) PROVE LockInv'
  <2>1. Goto(p, "truncate") /\ UNCHANGED <<file, killed>> /\ pc[p] = "acquire" /\ ~Held(p)
    BY <1>2 DEF Acquire
  <2>2. TypeOK'
    BY <1>2, <2>1 DEF Acquire, Goto, TypeOK
  <2>3. Taking' = Taking \cup {p} /\ Holding' = Holding
    BY <2>1, GotoStep DEF Taking, Holding
  <2>4. ASSUME ~raced', ~mistaken'
        PROVE  ~raced /\ ~mistaken /\ Taking = {} /\ ~LivesElsewhere(p)
    BY <1>2, <2>4 DEF Acquire
  <2>5. ASSUME ~raced', ~mistaken' PROVE Holding = {}
    <3>1. ASSUME NEW q \in Holding PROVE FALSE
      <4>1. file = q /\ q \in Runners /\ Alive(file)
        BY <2>4, <2>5, <3>1 DEF Alone, Holding, Alive, Dead
      <4>2. Host[file] = Host[p] /\ ~isRunning(p)
        BY <2>1, <4>1 DEF Held
      <4>3. Machine[file] # Machine[p]
        BY <4>1, <4>2 DEF isRunning
      <4> QED
        BY <2>4, <2>5, <4>1, <4>2, <4>3 DEF LivesElsewhere
    <3> QED
      BY <3>1
  <2>6. Alone'
    BY <2>1, <2>3, <2>4, <2>5, GotoStep DEF Alone
  <2> QED
    BY <2>1, <2>2, <2>3, <2>6 DEF OwnerHolds
<1>3. ASSUME NEW p \in Runners, Truncate(p) PROVE LockInv'
  <2>1. TypeOK'
    BY <1>3 DEF Truncate, Goto, TypeOK
  <2>2. Taking' = Taking /\ Holding' = Holding /\ p \in Taking
    BY <1>3, GotoStep DEF Truncate, Taking, Holding
  <2>3. ~raced /\ ~mistaken => Holding = {}
    BY <1>3, <2>2 DEF Truncate, Alone, Holding
  <2> QED
    BY <1>3, <2>1, <2>2, <2>3 DEF Truncate, Alone, OwnerHolds
<1>4. ASSUME NEW p \in Runners, WriteLock(p) PROVE LockInv'
  <2>1. TypeOK'
    BY <1>4 DEF WriteLock, Goto, TypeOK
  <2>2. Taking' = Taking \ {p} /\ Holding' = Holding \cup {p} /\ p \in Taking
    BY <1>4, GotoStep DEF WriteLock, Taking, Holding
  <2>3. ~raced /\ ~mistaken => Holding = {} /\ Taking = {p} /\ file' = p
    BY <1>4, <2>2 DEF WriteLock, Alone, Holding
  <2>4. Alone'
    BY <1>4, <2>2, <2>3 DEF WriteLock, Alone, Taking
  <2>5. OwnerHolds'
    BY <1>4, <2>2 DEF WriteLock, OwnerHolds
  <2> QED
    BY <2>1, <2>4, <2>5
<1>5. ASSUME NEW p \in Runners, EndWork(p) PROVE LockInv'
  <2>1. TypeOK'
    BY <1>5 DEF EndWork, Goto, TypeOK
  <2>2. Taking' = Taking /\ Holding' = Holding
    BY <1>5, GotoStep DEF EndWork, Taking, Holding
  <2> QED
    BY <1>5, <2>1, <2>2, GotoStep DEF EndWork, Alone, OwnerHolds
<1>6. ASSUME NEW p \in Runners, Release(p) PROVE LockInv'
  <2>1. TypeOK'
    BY <1>6 DEF Release, Goto, TypeOK, Dead
  <2>2. /\ Taking' = Taking
        /\ Holding' = IF Own(p) THEN Holding ELSE Holding \ {p}
        /\ file = p => Own(p)
    BY <1>6, GotoStep DEF Release, Taking, Holding, Own
  <2>3. Alone'
    BY <1>6, <2>2, GotoStep DEF Release, Alone
  <2> QED
    BY <1>6, <2>1, <2>2, <2>3 DEF Release, OwnerHolds
<1>7. ASSUME NEW p \in Runners, Unlink(p) PROVE LockInv'
  <2>1. TypeOK'
    BY <1>7 DEF Unlink, Goto, TypeOK, Dead
  <2>2. Taking' = Taking /\ Holding' = Holding \ {p} /\ p \in Holding
    BY <1>7, GotoStep DEF Unlink, Taking, Holding
  <2>3. Alone'
    BY <1>7, <2>2 DEF Unlink, Alone
  <2> QED
    BY <1>7, <2>1, <2>2, <2>3 DEF Unlink, OwnerHolds
<1>8. CASE Delete
  <2>1. PICK p \in Runners :
           /\ Host[p] = Host[file]
           /\ ~isRunning(p)
           /\ mistaken' = (mistaken \/ LivesElsewhere(p))
    BY <1>8 DEF Delete
  <2>2. file \in Runners /\ file' = Free /\ UNCHANGED <<pc, raced, killed>>
    BY <1>8 DEF Delete
  <2>3. ASSUME ~raced', ~mistaken' PROVE Holding = {}
    <3>1. ASSUME NEW q \in Holding PROVE FALSE
      <4>1. file = q /\ Alive(file)
        BY <2>1, <2>2, <2>3, <3>1 DEF Alone, Holding, Alive, Dead
      <4>2. Machine[file] # Machine[p]
        BY <2>1, <2>2, <4>1 DEF isRunning
      <4> QED
        BY <2>1, <2>2, <2>3, <4>1, <4>2 DEF LivesElsewhere
    <3> QED
      BY <3>1
  <2>4. Taking' = Taking /\ Holding' = Holding
    BY <2>2 DEF Taking, Holding
  <2>5. TypeOK'
    BY <2>1, <2>2 DEF TypeOK
  <2>6. Alone'
    <3> SUFFICES ASSUME ~raced', ~mistaken'
                 PROVE  /\ \A q, r \in Taking' \cup Holding' : q = r
                        /\ \A q \in Holding' : file' = q
                        /\ \A q \in Runners : pc'[q] = "write" => file' \notin Runners
      BY DEF Alone
    <3>1. ~raced /\ ~mistaken
      BY <2>1, <2>2
    <3> QED
      BY <2>2, <2>3, <2>4, <3>1 DEF Alone
  <2> QED
    BY <2>2, <2>5, <2>6 DEF OwnerHolds
<1>9. CASE UNCHANGED vars
  BY <1>9 DEF vars, TypeOK, Alone, OwnerHolds, Taking, Holding
<1> QED
  BY <1>1, <1>2, <1>3, <1>4, <1>5, <1>6, <1>7, <1>8, <1>9 DEF Next

\* Every access to the lock file keeps it, so it holds throughout.
LEMMA LockKnown == Spec => []LockInv
BY LockInit, LockStep, PTL DEF Spec

\* One runner works at a time, as long as none ever read the lock while another was
\* about to write it (acquireLock reads, decides, and then writes), and no living runner's
\* lock was taken for a dead one's on another machine that goes by the same name.
THEOREM ExclusiveAlways == Spec => []ExclusiveUnlessOverlapped
<1>1. LockInv => ExclusiveUnlessOverlapped
  BY DEF LockInv, Alone, ExclusiveUnlessOverlapped
<1> QED
  BY <1>1, LockKnown, PTL

\* Only a killed runner leaves a lock behind (release, in main's finally).
THEOREM OnlyKillsLeaveLocksAlways == Spec => []OnlyKillsLeaveLocks
<1>1. LockInv => OnlyKillsLeaveLocks
  BY DEF LockInv, OwnerHolds, OnlyKillsLeaveLocks, Holding, Alive, Dead
<1> QED
  BY <1>1, LockKnown, PTL

-----------------------------------------------------------------------------
(***************************************************************************)
(* AgentRound.                                                             *)
(***************************************************************************)

\* The types of the parts.
Places == {"implement", "coding", "verify", "probing", "checking", "review", "reviewing",
           "settled", "blocked"}
Verifying == {"verify", "probing", "checking"}
Reviewing == {"review", "reviewing", "settled"}

StepNames == {stepsForRisk(l)[i].name : l \in RiskLevels, i \in Nat}
Outcomes == {"passed", "failed", "not-applicable", "unavailable"}
StepResult == [name : StepNames, outcome : Outcomes]

ReviewsType == [usable : Seq(ReviewResult), pass : Nat \ {0}, attempt : 0..(Retries - 1)]

RoundTypes ==
    /\ at \in Places
    /\ turn \in 0..(FixRounds - 1)
    /\ risk.level \in RiskLevels
    /\ steps \in Seq(StepResult)
    /\ reviews \in ReviewsType
    /\ approving \in Nat
    /\ invocations \in Nat

\* The steps of the tier of the change.
Tier == stepsForRisk(risk.level)

\* The results recorded are those of the first steps of the tier, and mean what they say.
ResultOK(i) ==
    /\ steps[i].outcome = "passed" => Tier[i].name \in passed
    /\ steps[i].outcome = "not-applicable" => ~Applies(Tier[i], risk.files)

ResultsAreTrue ==
    at \in Verifying \cup Reviewing =>
        /\ Len(steps) <= Len(Tier)
        /\ \A i \in 1..Len(steps) : ResultOK(i)

\* A step that runs is one of the tier; what is reviewed has been through all of them.
StepRuns == at \in {"probing", "checking"} => Len(steps) < Len(Tier)
AllSteps ==
    at \in Reviewing =>
        /\ Len(steps) = Len(Tier)
        /\ \A i \in 1..Len(steps) : steps[i].outcome \in {"passed", "not-applicable"}

\* Reviews that all approve were heard in time.
AllApprove == \A i \in 1..Len(reviews.usable) : Approving(reviews.usable[i])
ApprovalsAreTrue ==
    /\ at \in Verifying \cup Reviewing => (AllApprove => approving >= Len(reviews.usable))
    /\ at = "settled" => AllApprove /\ Len(reviews.usable) >= Required

\* The inductive invariant of a round.
RoundInv == RoundTypes /\ ResultsAreTrue /\ StepRuns /\ AllSteps /\ ApprovalsAreTrue

-----------------------------------------------------------------------------
\* The steps of all tiers.
TierSteps == UNION {Range(Tiers[l].steps) : l \in RiskLevels}

\* What collect of stepsForRisk gathers: own steps after those inherited.
Gathered(c, l) == (IF Inherits(l) THEN c[Tiers[l].inherits] ELSE <<>>) \o Tiers[l].steps

Gathers(c) == c = [l \in RiskLevels |-> Gathered(c, l)]

\* The steps of a tier are steps.
LEMMA OwnSteps ==
    ASSUME NEW l \in RiskLevels
    PROVE  Tiers[l].steps \in Seq(TierSteps)
<1> DEFINE s == Tiers[l].steps
<1>1. s \in Seq(Range(s))
  BY TiersAssumption
<1>2. Range(s) \subseteq TierSteps
  BY DEF TierSteps
<1> HIDE DEF s
<1>3. s \in Seq(TierSteps)
  BY <1>1, <1>2
<1>4. QED
  BY <1>3 DEF s

\* Where inheritance ends, collect ends: it gathers the same after as many rounds as the
\* longest line of heirs.
LEMMA SomethingGathers == \E c : Gathers(c)
<1>1. PICK depth \in [RiskLevels -> 0..Cardinality(RiskLevels)] :
          \A l \in RiskLevels : Inherits(l) => depth[Tiers[l].inherits] < depth[l]
  BY TiersAssumption
<1>2. PICK m \in Nat : m = Cardinality(RiskLevels)
  BY TiersAssumption, FS_CardinalityType
<1> DEFINE S == [RiskLevels -> Seq(TierSteps)]
           base == [l \in RiskLevels |-> <<>>]
           F == [k \in Nat |-> [c \in S |-> [l \in RiskLevels |-> Gathered(c, l)]]]
<1>3. base \in S
  OBVIOUS
<1>4. ASSUME NEW c \in S, NEW l \in RiskLevels PROVE Gathered(c, l) \in Seq(TierSteps)
  <2>1. Tiers[l].steps \in Seq(TierSteps)
    BY OwnSteps
  <2>2. Inherits(l) => c[Tiers[l].inherits] \in Seq(TierSteps)
    BY DEF Inherits
  <2>3. <<>> \in Seq(TierSteps)
    OBVIOUS
  <2>4. QED
    BY <2>1, <2>2, <2>3 DEF Gathered
<1>5. F \in [Nat -> [S -> S]]
  BY <1>4
<1>6. PICK g : Takes(g, m + 2, S, base, F)
  <2> HIDE DEF F, S, base
  <2>1. m + 2 \in Nat
    BY <1>2
  <2>2. QED
    BY <1>3, <1>5, <2>1, StepByStep
<1>7. g \in [0..(m + 2) -> S] /\ \A k \in 1..(m + 2) : g[k] = F[k][g[k - 1]]
  BY <1>6 DEF Takes
<1>8. ASSUME NEW k \in 1..(m + 2) PROVE g[k] = [l \in RiskLevels |-> Gathered(g[k - 1], l)]
  <2>1. k - 1 \in 0..(m + 2) /\ k \in Nat
    BY <1>2
  <2>2. g[k - 1] \in S
    BY <1>7, <2>1
  <2>3. F[k][g[k - 1]] = [l \in RiskLevels |-> Gathered(g[k - 1], l)]
    BY <2>1, <2>2
  <2>4. QED
    BY <1>7, <2>3
<1> HIDE DEF F, S
<1> DEFINE T == {k \in 0..(m + 1) : \A l \in RiskLevels : depth[l] < k => g[k][l] = g[k + 1][l]}
<1>9. 0 \in T
  BY <1>1, <1>2
<1>10. ASSUME NEW k \in 1..(m + 1), k - 1 \in T PROVE k \in T
  <2>1. SUFFICES ASSUME NEW l \in RiskLevels, depth[l] < k PROVE g[k][l] = g[k + 1][l]
    BY <1>2
  <2>2. /\ k \in 1..(m + 2) /\ k + 1 \in 1..(m + 2) /\ (k + 1) - 1 = k
        /\ (k - 1) + 1 = k
    BY <1>2
  <2>3. g[k][l] = Gathered(g[k - 1], l)
    BY <1>8, <2>2
  <2>4. g[k + 1][l] = Gathered(g[k], l)
    <3>1. g[k + 1] = [h \in RiskLevels |-> Gathered(g[(k + 1) - 1], h)]
      BY <1>8, <2>2
    <3>2. g[k + 1][l] = Gathered(g[(k + 1) - 1], l)
      BY <3>1
    <3>3. QED
      BY <2>2, <3>2
  <2>5. CASE Inherits(l)
    <3>1. Tiers[l].inherits \in RiskLevels /\ depth[Tiers[l].inherits] < depth[l]
      BY <1>1, <2>5 DEF Inherits
    <3>2. depth[Tiers[l].inherits] < k - 1
      BY <1>1, <1>2, <2>1, <3>1
    <3>3. g[k - 1][Tiers[l].inherits] = g[k][Tiers[l].inherits]
      BY <1>10, <2>2, <3>1, <3>2
    <3>4. QED
      BY <2>3, <2>4, <3>3 DEF Gathered
  <2>6. CASE ~Inherits(l)
    BY <2>3, <2>4, <2>6 DEF Gathered
  <2>7. QED
    BY <2>5, <2>6
<1>11. \A k \in 0..(m + 1) : k \in T
  <2> HIDE DEF T
  <2>1. m + 1 \in Nat
    BY <1>2
  <2>2. QED
    BY <1>9, <1>10, <2>1, InductionOnPrefixes
<1>12. ASSUME NEW l \in RiskLevels PROVE g[m + 1][l] = Gathered(g[m + 1], l)
  <2>1. m + 1 \in T /\ depth[l] < m + 1
    BY <1>1, <1>2, <1>11
  <2>2. g[m + 1][l] = g[(m + 1) + 1][l]
    BY <2>1
  <2>3. (m + 1) + 1 \in 1..(m + 2) /\ ((m + 1) + 1) - 1 = m + 1
    BY <1>2
  <2>4. g[(m + 1) + 1] = [h \in RiskLevels |-> Gathered(g[m + 1], h)]
    BY <1>8, <2>3
  <2>5. QED
    BY <2>2, <2>4
<1>13. g[m + 1] = [l \in RiskLevels |-> g[m + 1][l]]
  <2>1. m + 1 \in 1..(m + 2)
    BY <1>2
  <2>2. g[m + 1] = [l \in RiskLevels |-> Gathered(g[(m + 1) - 1], l)]
    BY <1>8, <2>1
  <2>3. QED
    BY <2>2
<1>14. Gathers(g[m + 1])
  BY <1>12, <1>13 DEF Gathers
<1>15. QED
  BY <1>14

\* Whatever gathers so has sequences of steps.
LEMMA GatheredAreSteps ==
    ASSUME NEW c, Gathers(c), NEW l \in RiskLevels
    PROVE  c[l] \in Seq(TierSteps) /\ c[l] = Gathered(c, l)
<1>1. PICK depth \in [RiskLevels -> 0..Cardinality(RiskLevels)] :
          \A h \in RiskLevels : Inherits(h) => depth[Tiers[h].inherits] < depth[h]
  BY TiersAssumption
<1>2. PICK m \in Nat : m = Cardinality(RiskLevels)
  BY TiersAssumption, FS_CardinalityType
<1>3. \A h \in RiskLevels : c[h] = Gathered(c, h)
  BY DEF Gathers
<1> DEFINE T == {k \in 0..(m + 1) : \A h \in RiskLevels : depth[h] < k => c[h] \in Seq(TierSteps)}
<1>4. 0 \in T
  BY <1>1, <1>2
<1>5. ASSUME NEW k \in 1..(m + 1), k - 1 \in T PROVE k \in T
  <2>1. SUFFICES ASSUME NEW h \in RiskLevels, depth[h] < k PROVE c[h] \in Seq(TierSteps)
    BY <1>2
  <2>2. Tiers[h].steps \in Seq(TierSteps)
    BY OwnSteps
  <2>3. CASE Inherits(h)
    <3>1. Tiers[h].inherits \in RiskLevels /\ depth[Tiers[h].inherits] < depth[h]
      BY <1>1, <2>3 DEF Inherits
    <3>2. depth[Tiers[h].inherits] < k - 1
      BY <1>1, <1>2, <2>1, <3>1
    <3>3. c[Tiers[h].inherits] \in Seq(TierSteps)
      BY <1>5, <3>1, <3>2
    <3>4. c[h] = c[Tiers[h].inherits] \o Tiers[h].steps
      BY <1>3, <2>3 DEF Gathered
    <3>5. QED
      BY <2>2, <3>3, <3>4
  <2>4. CASE ~Inherits(h)
    <3>1. c[h] = <<>> \o Tiers[h].steps
      BY <1>3, <2>4 DEF Gathered
    <3>2. QED
      BY <2>2, <3>1
  <2>5. QED
    BY <2>3, <2>4
<1>6. \A k \in 0..(m + 1) : k \in T
  <2> HIDE DEF T
  <2>1. m + 1 \in Nat
    BY <1>2
  <2>2. QED
    BY <1>4, <1>5, <2>1, InductionOnPrefixes
<1>7. m + 1 \in T /\ depth[l] < m + 1
  BY <1>1, <1>2, <1>6
<1>8. QED
  BY <1>3, <1>7

\* The names of some steps.
Names(s) == {s[i].name : i \in DOMAIN s}

\* No name is there twice.
EachOnce(s) == \A i, j \in DOMAIN s : s[i].name = s[j].name => i = j

\* Once adds a name that is not there, and nothing else.
LEMMA OnceAdds ==
    ASSUME NEW A, NEW kept \in Seq(A), NEW step \in A, EachOnce(kept)
    PROVE  /\ Once(kept, step) \in Seq(A)
           /\ EachOnce(Once(kept, step))
           /\ Names(Once(kept, step)) = Names(kept) \cup {step.name}
<1>1. CASE \E i \in DOMAIN kept : kept[i].name = step.name
  BY <1>1 DEF Once, Names
<1>2. CASE ~\E i \in DOMAIN kept : kept[i].name = step.name
  <2>1. PICK n \in Nat : n = Len(kept) /\ DOMAIN kept = 1..n
    OBVIOUS
  <2> DEFINE more == Append(kept, step)
  <2>2. Once(kept, step) = more
    BY <1>2 DEF Once
  <2>3. /\ more \in Seq(A) /\ DOMAIN more = 1..(n + 1) /\ more[n + 1] = step
        /\ \A i \in 1..n : more[i] = kept[i]
    BY <2>1
  <2> HIDE DEF more
  <2>4. EachOnce(more)
    BY <1>2, <2>1, <2>3 DEF EachOnce
  <2>5. Names(more) = Names(kept) \cup {step.name}
    <3>1. ASSUME NEW i \in 1..(n + 1) PROVE more[i].name \in Names(kept) \cup {step.name}
      <4>1. CASE i = n + 1
        BY <2>3, <4>1
      <4>2. CASE i \in 1..n
        BY <2>1, <2>3, <4>2 DEF Names
      <4>3. QED
        BY <4>1, <4>2
    <3>2. ASSUME NEW i \in 1..n PROVE kept[i].name \in Names(more)
      <4>1. i \in 1..(n + 1) /\ kept[i].name = more[i].name
        BY <2>1, <2>3
      <4>2. QED
        BY <2>3, <4>1 DEF Names
    <3>3. step.name \in Names(more)
      <4>1. n + 1 \in 1..(n + 1)
        BY <2>1
      <4>2. QED
        BY <2>3, <4>1 DEF Names
    <3>4. QED
      BY <2>1, <2>3, <3>1, <3>2, <3>3 DEF Names
  <2>6. QED
    BY <2>2, <2>3, <2>4, <2>5
<1>3. QED
  BY <1>1, <1>2

\* What stepsForRisk leaves of what is gathered: each name, once.
Listed(s, gathered) == s \in Seq(TierSteps) /\ EachOnce(s) /\ Names(s) = Names(gathered)

\* stepsForRisk lists what something gathers, the same for all tiers.
LEMMA TierIsListed ==
    /\ \A l \in RiskLevels : stepsForRisk(l) \in Seq(TierSteps)
    /\ \E c : Gathers(c) /\ \A l \in RiskLevels : Listed(stepsForRisk(l), c[l])
<1> DEFINE collect == CHOOSE c : Gathers(c)
<1>1. Gathers(collect)
  BY SomethingGathers
<1>2. ASSUME NEW l \in RiskLevels PROVE Listed(stepsForRisk(l), collect[l])
  <2> DEFINE all == collect[l]
             Defines(f) == f = [k \in 0..Len(all) |-> IF k = 0 THEN <<>> ELSE Once(f[k - 1], all[k])]
             kept == CHOOSE f : Defines(f)
  <2>1. stepsForRisk(l) = kept[Len(all)]
    BY Zenon DEF stepsForRisk, Gathers, Gathered
  <2> HIDE DEF collect
  <2>2. all \in Seq(TierSteps)
    BY <1>1, GatheredAreSteps
  <2> HIDE DEF all
  <2>3. PICK n \in Nat : n = Len(all) /\ DOMAIN all = 1..n /\ \A k \in 1..n : all[k] \in TierSteps
    BY <2>2
  <2> DEFINE S == {s \in Seq(TierSteps) : EachOnce(s)}
             F == [k \in Nat |-> [s \in S |-> IF k \in 1..n THEN Once(s, all[k]) ELSE s]]
  <2>4. ASSUME NEW k \in 1..n, NEW s \in S
        PROVE  Once(s, all[k]) \in S /\ Names(Once(s, all[k])) = Names(s) \cup {all[k].name}
    BY <2>3, OnceAdds
  <2>5. F \in [Nat -> [S -> S]]
    BY <2>4
  <2>6. <<>> \in S
    BY DEF EachOnce
  <2>7. PICK g : Takes(g, n, S, <<>>, F)
    <3> HIDE DEF F, S
    <3>1. QED
      BY <2>5, <2>6, StepByStep
  <2>8. g \in [0..n -> S] /\ g[0] = <<>> /\ \A k \in 1..n : g[k] = F[k][g[k - 1]]
    BY <2>7 DEF Takes
  <2> HIDE DEF S
  <2>9. ASSUME NEW k \in 1..n PROVE g[k] = Once(g[k - 1], all[k])
    <3>1. k - 1 \in 0..n /\ k \in Nat
      OBVIOUS
    <3>2. g[k - 1] \in S
      BY <2>8, <3>1
    <3>3. F[k][g[k - 1]] = Once(g[k - 1], all[k])
      BY <3>1, <3>2
    <3>4. QED
      BY <2>8, <3>3
  <2> HIDE DEF F
  <2>10. Defines(g)
    <3>1. g = [k \in 0..n |-> g[k]]
      BY <2>8
    <3>2. \A k \in 0..n : g[k] = IF k = 0 THEN <<>> ELSE Once(g[k - 1], all[k])
      BY <2>8, <2>9
    <3>3. QED
      BY <2>3, <3>1, <3>2
  <2>11. Defines(kept)
    <3> HIDE DEF Defines
    <3>1. QED
      BY <2>10
  <2> HIDE DEF kept
  <2>12. \A k \in 0..n : kept[k] = IF k = 0 THEN <<>> ELSE Once(kept[k - 1], all[k])
    BY <2>3, <2>11
  <2>13. kept[0] = <<>> /\ \A k \in 1..n : kept[k] = Once(kept[k - 1], all[k])
    <3>1. 0 \in 0..n /\ \A k \in 1..n : k \in 0..n /\ k # 0
      OBVIOUS
    <3>2. QED
      BY <2>12, <3>1
  <2> HIDE DEF Defines
  <2> DEFINE T == {k \in 0..n : kept[k] \in S /\ Names(kept[k]) = {all[i].name : i \in 1..k}}
  <2>14. 0 \in T
    <3>1. Names(<<>>) = {}
      BY DEF Names
    <3>2. QED
      BY <2>6, <2>13, <3>1
  <2>15. ASSUME NEW k \in 1..n, k - 1 \in T PROVE k \in T
    <3>1. kept[k] \in S /\ Names(kept[k]) = Names(kept[k - 1]) \cup {all[k].name}
      BY <2>4, <2>13, <2>15
    <3>2. {all[i].name : i \in 1..(k - 1)} \cup {all[k].name} = {all[i].name : i \in 1..k}
      OBVIOUS
    <3>3. Names(kept[k - 1]) = {all[i].name : i \in 1..(k - 1)}
      BY <2>15
    <3>4. QED
      BY <3>1, <3>2, <3>3
  <2>16. \A k \in 0..n : k \in T
    <3> HIDE DEF T
    <3>1. QED
      BY <2>14, <2>15, InductionOnPrefixes
  <2>17. kept[n] \in S /\ Names(kept[n]) = Names(all)
    <3>1. n \in T
      BY <2>16
    <3>2. Names(all) = {all[i].name : i \in 1..n}
      BY <2>3 DEF Names
    <3>3. QED
      BY <3>1, <3>2
  <2>18. QED
    BY <2>1, <2>3, <2>17 DEF Listed, S, all
<1> HIDE DEF collect
<1>3. QED
  BY <1>1, <1>2 DEF Listed

\* Tiers are cumulative ("medium inherits low, high inherits medium", loop-policy.json): the
\* names of the steps stepsForRisk lists are those of the tier and those it lists for the
\* tier that is inherited, each once, whatever the tiers name twice.
THEOREM TiersAreCumulative ==
    ASSUME NEW l \in RiskLevels
    PROVE  /\ EachOnce(stepsForRisk(l))
           /\ Names(stepsForRisk(l)) =
                  Names(Tiers[l].steps)
                      \cup (IF Inherits(l) THEN Names(stepsForRisk(Tiers[l].inherits)) ELSE {})
<1>1. PICK c : Gathers(c) /\ \A h \in RiskLevels : Listed(stepsForRisk(h), c[h])
  BY TierIsListed
<1>2. EachOnce(stepsForRisk(l)) /\ Names(stepsForRisk(l)) = Names(c[l])
  BY <1>1 DEF Listed
<1>3. c[l] = Gathered(c, l) /\ Tiers[l].steps \in Seq(TierSteps)
  BY <1>1, GatheredAreSteps, OwnSteps
<1>4. ASSUME NEW s \in Seq(TierSteps), NEW t \in Seq(TierSteps)
      PROVE  Names(s \o t) = Names(s) \cup Names(t)
  <2>1. PICK a \in Nat, b \in Nat : a = Len(s) /\ b = Len(t)
    <3>1. Len(s) \in Nat
      OBVIOUS
    <3>2. Len(t) \in Nat
      OBVIOUS
    <3>3. QED
      BY <3>1, <3>2
  <2> DEFINE u == s \o t
  <2>2. /\ DOMAIN s = 1..a /\ DOMAIN t = 1..b /\ DOMAIN u = 1..(a + b)
        /\ \A i \in 1..a : u[i] = s[i]
        /\ \A i \in 1..b : u[a + i] = t[i]
    BY <2>1
  <2> HIDE DEF u
  <2>3. ASSUME NEW i \in 1..(a + b) PROVE u[i].name \in Names(s) \cup Names(t)
    <3>1. CASE i \in 1..a
      BY <2>2, <3>1 DEF Names
    <3>2. CASE i \notin 1..a
      <4>1. i - a \in 1..b /\ a + (i - a) = i
        BY <3>2
      <4>2. u[i] = t[i - a]
        BY <2>2, <4>1
      <4>3. QED
        BY <2>2, <4>1, <4>2 DEF Names
    <3>3. QED
      BY <3>1, <3>2
  <2>4. ASSUME NEW i \in 1..a PROVE s[i].name \in Names(u)
    <3>1. i \in 1..(a + b) /\ u[i] = s[i]
      BY <2>2
    <3>2. QED
      BY <2>2, <3>1 DEF Names
  <2>5. ASSUME NEW i \in 1..b PROVE t[i].name \in Names(u)
    <3>1. a + i \in 1..(a + b) /\ u[a + i] = t[i]
      BY <2>2
    <3>2. QED
      BY <2>2, <3>1 DEF Names
  <2>6. Names(u) = Names(s) \cup Names(t)
    <3>1. Names(u) \subseteq Names(s) \cup Names(t)
      <4>1. Names(u) = {u[i].name : i \in 1..(a + b)}
        BY <2>2 DEF Names
      <4>2. QED
        BY <2>3, <4>1
    <3>2. Names(s) \subseteq Names(u)
      <4>1. Names(s) = {s[i].name : i \in 1..a}
        BY <2>2 DEF Names
      <4>2. QED
        BY <2>4, <4>1
    <3>3. Names(t) \subseteq Names(u)
      <4>1. Names(t) = {t[i].name : i \in 1..b}
        BY <2>2 DEF Names
      <4>2. QED
        BY <2>5, <4>1
    <3>4. QED
      BY <3>1, <3>2, <3>3
  <2>7. QED
    BY <2>6 DEF u
<1>5. CASE Inherits(l)
  <2>1. Tiers[l].inherits \in RiskLevels
    BY <1>5 DEF Inherits
  <2>2. c[Tiers[l].inherits] \in Seq(TierSteps)
    BY <1>1, <2>1, GatheredAreSteps
  <2>3. Names(c[l]) = Names(c[Tiers[l].inherits]) \cup Names(Tiers[l].steps)
    BY <1>3, <1>4, <1>5, <2>2 DEF Gathered
  <2>4. Names(stepsForRisk(Tiers[l].inherits)) = Names(c[Tiers[l].inherits])
    BY <1>1, <2>1 DEF Listed
  <2>5. QED
    BY <1>2, <1>5, <2>3, <2>4
<1>6. CASE ~Inherits(l)
  <2>1. c[l] = <<>> \o Tiers[l].steps /\ <<>> \in Seq(TierSteps)
    BY <1>3, <1>6 DEF Gathered
  <2>2. Names(c[l]) = Names(<<>>) \cup Names(Tiers[l].steps)
    BY <1>3, <1>4, <2>1
  <2>3. Names(<<>>) = {}
    BY DEF Names
  <2>4. QED
    BY <1>2, <1>6, <2>2, <2>3
<1>7. QED
  BY <1>5, <1>6

\* The steps of a tier are a sequence.
LEMMA TierIsSequence ==
    ASSUME NEW l \in RiskLevels
    PROVE  Len(stepsForRisk(l)) \in Nat /\ DOMAIN stepsForRisk(l) = 1..Len(stepsForRisk(l))
<1> DEFINE T == stepsForRisk(l)
<1>1. T \in Seq(TierSteps)
  BY TierIsListed
<1> HIDE DEF T
<1>2. Len(T) \in Nat /\ DOMAIN T = 1..Len(T)
  BY <1>1
<1> QED BY <1>2 DEF T

\* At the start nothing has been recorded.
LEMMA RoundInitOK == RoundInit => RoundInv
<1> SUFFICES ASSUME RoundInit PROVE RoundInv
  OBVIOUS
<1> USE DEF RoundInit
<1>1. risk.level \in RiskLevels
  BY RoundAssumption DEF NotClassified
<1>2. reviews \in ReviewsType
  BY RoundAssumption DEF ReviewsType
<1>3. RoundTypes
  BY <1>1, <1>2 DEF RoundTypes, Places
<1>4. at \notin Verifying /\ at \notin Reviewing
  BY DEF Verifying, Reviewing
<1> QED
  BY <1>3, <1>4 DEF RoundInv, ResultsAreTrue, StepRuns, AllSteps, ApprovalsAreTrue, Verifying, Reviewing

\* What only the child does changes nothing of the round.
LEMMA ChildStep == RoundInv /\ keepsRound => RoundInv'
<1> SUFFICES ASSUME RoundInv, keepsRound PROVE RoundInv'
  OBVIOUS
<1>1. /\ at' = at /\ turn' = turn /\ risk' = risk /\ steps' = steps /\ reviews' = reviews
      /\ passed' = passed /\ approving' = approving /\ invocations' = invocations
  BY DEF keepsRound
<1> QED
  BY <1>1 DEF RoundInv, RoundTypes, ResultsAreTrue, ResultOK, StepRuns, AllSteps, AllApprove,
     ApprovalsAreTrue, Tier, Required

\* A round that begins, and a round that has given up, promise nothing.
LEMMA Nothing ==
    ASSUME RoundTypes', at' \in {"implement", "coding", "blocked"}
    PROVE  RoundInv'
BY DEF RoundInv, ResultsAreTrue, StepRuns, AllSteps, ApprovalsAreTrue, Verifying, Reviewing

\* The agent starts: what was checked before no longer counts.
LEMMA ImplementOK == RoundInv /\ Implement => RoundInv'
<1> SUFFICES ASSUME RoundInv, Implement PROVE RoundInv'
  OBVIOUS
<1>1. RoundTypes'
  BY DEF RoundInv, RoundTypes, Implement, Call, Places
<1> QED BY <1>1, Nothing DEF Implement, Call

\* The agent has stopped: what the verification starts from, or the issue blocks.
LEMMA ImplementedOK == RoundInv /\ Implemented => RoundInv'
<1> SUFFICES ASSUME RoundInv, Implemented PROVE RoundInv'
  OBVIOUS
<1>1. steps' = <<>> /\ reviews' = [usable |-> <<>>, pass |-> 1, attempt |-> 0]
  BY DEF Implemented
<1>2. reviews' \in ReviewsType
  BY <1>1, RoundAssumption DEF ReviewsType
<1>3. /\ at' \in {"verify", "blocked"} /\ risk'.level \in RiskLevels
      /\ turn' = turn /\ approving' = approving /\ invocations' = invocations
  BY DEF RoundInv, RoundTypes, Implemented, Blocked
<1>4. RoundTypes'
  BY <1>1, <1>2, <1>3 DEF RoundInv, RoundTypes, Places
<1>5. Len(Tier') \in Nat
  BY <1>3, TierIsSequence DEF Tier
<1>6. ResultsAreTrue'
  BY <1>1, <1>5 DEF ResultsAreTrue
<1>7. ApprovalsAreTrue'
  BY <1>1, <1>3, <1>4 DEF ApprovalsAreTrue, RoundTypes
<1> QED
  BY <1>3, <1>4, <1>6, <1>7 DEF RoundInv, StepRuns, AllSteps, Reviewing

\* Nothing to commit: the issue blocks.
LEMMA NothingCommittedOK == RoundInv /\ NothingCommitted => RoundInv'
<1> SUFFICES ASSUME RoundInv, NothingCommitted PROVE RoundInv'
  OBVIOUS
<1>1. RoundTypes'
  BY DEF RoundInv, RoundTypes, NothingCommitted, Blocked, Places
<1> QED BY <1>1, Nothing DEF NothingCommitted, Blocked

-----------------------------------------------------------------------------
\* A result that means what it says is added to those of the steps before it.
LEMMA RecordOK ==
    ASSUME RoundInv, at \in Verifying, Len(steps) < Len(Tier),
           NEW outcome \in Outcomes, recordStep(outcome),
           outcome = "passed" => CurrentStep.name \in passed',
           outcome = "not-applicable" => ~Applies(CurrentStep, risk.files),
           passed \subseteq passed',
           at' = "verify", keepsVerified
    PROVE  RoundInv'
<1>1. /\ turn' = turn /\ risk' = risk /\ reviews' = reviews
      /\ approving' = approving /\ invocations' = invocations
  BY DEF keepsVerified
<1>2. steps \in Seq(StepResult) /\ risk.level \in RiskLevels
  BY DEF RoundInv, RoundTypes
<1>3. Len(steps) \in Nat /\ Len(steps) + 1 \in Nat
  BY <1>2
<1>4. CurrentStep.name \in StepNames
  BY <1>2, <1>3 DEF CurrentStep, StepNames
<1> DEFINE new == [name |-> CurrentStep.name, outcome |-> outcome]
<1>5. new \in StepResult
  BY <1>4 DEF StepResult
<1>6. steps' = Append(steps, new)
  BY DEF recordStep
<1>7. new.outcome = outcome
  OBVIOUS
<1> HIDE DEF new
<1>8. /\ steps' \in Seq(StepResult) /\ Len(steps') = Len(steps) + 1
      /\ steps'[Len(steps) + 1] = new
      /\ \A i \in 1..Len(steps) : steps'[i] = steps[i]
  BY <1>2, <1>5, <1>6
<1>9. RoundTypes'
  BY <1>1, <1>8 DEF RoundInv, RoundTypes, Places
<1>10. Len(Tier) \in Nat /\ Tier' = Tier
  BY <1>1, <1>2, TierIsSequence DEF Tier
<1>11. Len(steps') <= Len(Tier')
  BY <1>3, <1>8, <1>10
<1>12. ASSUME NEW i \in 1..Len(steps')
       PROVE  ResultOK(i)'
  <2>1. CASE i = Len(steps) + 1
    <3>1. steps'[i].outcome = outcome /\ Tier'[i] = CurrentStep
      BY <2>1, <1>7, <1>8, <1>10 DEF CurrentStep, Tier
    <3> QED BY <3>1, <1>1 DEF ResultOK
  <2>2. CASE i \in 1..Len(steps)
    <3>1. steps'[i] = steps[i] /\ Tier'[i] = Tier[i]
      BY <2>2, <1>8, <1>10
    <3>2. ResultOK(i)
      BY <2>2 DEF RoundInv, ResultsAreTrue
    <3> QED BY <3>1, <3>2, <1>1 DEF ResultOK
  <2> QED BY <2>1, <2>2, <1>3, <1>8
<1>13. ResultsAreTrue'
  BY <1>11, <1>12 DEF ResultsAreTrue
<1>14. ApprovalsAreTrue'
  BY <1>1 DEF RoundInv, ApprovalsAreTrue, AllApprove
<1> QED
  BY <1>9, <1>13, <1>14 DEF RoundInv, StepRuns, AllSteps, Reviewing

\* Something runs, and nothing has been recorded yet.
LEMMA RunsOK ==
    ASSUME RoundInv, at \in Verifying, Len(steps) < Len(Tier),
           steps' = steps, passed' = passed, keepsVerified, at' \in {"probing", "checking"}
    PROVE  RoundInv'
<1>1. /\ turn' = turn /\ risk' = risk /\ reviews' = reviews
      /\ approving' = approving /\ invocations' = invocations
  BY DEF keepsVerified
<1>2. RoundTypes'
  BY <1>1 DEF RoundInv, RoundTypes, Places
<1>3. ResultsAreTrue'
  BY <1>1 DEF RoundInv, ResultsAreTrue, ResultOK, Tier
<1>4. StepRuns'
  BY <1>1 DEF StepRuns, Tier
<1>5. ApprovalsAreTrue'
  BY <1>1 DEF RoundInv, ApprovalsAreTrue, AllApprove
<1> QED
  BY <1>2, <1>3, <1>4, <1>5 DEF RoundInv, AllSteps, Reviewing

\* A step of the tier is left.
LEMMA StepLeft == AtStep => at \in Verifying /\ Len(steps) < Len(Tier)
BY DEF AtStep, Remaining, Verifying, Tier

\* A step that does not apply, and one whose tool is missing.
LEMMA SkippedOK == RoundInv /\ (NotApplicable \/ ToolMissing) => RoundInv'
<1> SUFFICES ASSUME RoundInv, NotApplicable \/ ToolMissing PROVE RoundInv'
  OBVIOUS
<1>1. AtStep /\ at' = "verify" /\ passed' = passed /\ keepsVerified
  BY DEF NotApplicable, ToolMissing, AtStep
<1>2. CASE NotApplicable
  <2>1. recordStep("not-applicable") /\ ~Applies(CurrentStep, risk.files)
    BY <1>2 DEF NotApplicable
  <2>2. "not-applicable" \in Outcomes
    BY DEF Outcomes
  <2> QED BY <1>1, <2>1, <2>2, StepLeft, RecordOK
<1>3. CASE ToolMissing
  <2>1. recordStep("unavailable")
    BY <1>3 DEF ToolMissing
  <2>2. "unavailable" \in Outcomes
    BY DEF Outcomes
  <2> QED BY <1>1, <2>1, <2>2, StepLeft, RecordOK
<1> QED BY <1>2, <1>3

\* A step starts, with its probe or without.
LEMMA RunStepOK == RoundInv /\ RunStep => RoundInv'
<1> SUFFICES ASSUME RoundInv, RunStep PROVE RoundInv'
  OBVIOUS
<1>1. /\ AtStep /\ at' \in {"probing", "checking"} /\ steps' = steps
      /\ passed' = passed /\ keepsVerified
  BY DEF RunStep, Call
<1> QED BY <1>1, StepLeft, RunsOK

\* A probe has ended.
LEMMA ProbedOK == RoundInv /\ Probed => RoundInv'
<1> SUFFICES ASSUME RoundInv, Probed PROVE RoundInv'
  OBVIOUS
<1>1. at \in Verifying /\ Len(steps) < Len(Tier)
  BY DEF RoundInv, StepRuns, Probed, Verifying
<1>2. passed' = passed /\ keepsVerified
  BY DEF Probed
<1>3. CASE child.code = 0
  BY <1>1, <1>2, <1>3, RunsOK DEF Probed, Call
<1>4. CASE child.code # 0
  <2>1. recordStep("unavailable") /\ at' = "verify" /\ "unavailable" \in Outcomes
    BY <1>4 DEF Probed, Outcomes
  <2> QED BY <1>1, <1>2, <2>1, RecordOK
<1> QED BY <1>3, <1>4

\* A step has ended: it has passed only if it exited 0, in time.
LEMMA CheckedOK == RoundInv /\ Checked => RoundInv'
<1> SUFFICES ASSUME RoundInv, Checked PROVE RoundInv'
  OBVIOUS
<1>1. at \in Verifying /\ Len(steps) < Len(Tier)
  BY DEF RoundInv, StepRuns, Checked, Verifying
<1>2. at' = "verify" /\ keepsVerified /\ passed \subseteq passed'
  BY DEF Checked
<1>3. CASE StepPassed
  <2>1. recordStep("passed") /\ CurrentStep.name \in passed' /\ "passed" \in Outcomes
    BY <1>3 DEF Checked, StepPassed, InTime, Outcomes
  <2> QED BY <1>1, <1>2, <2>1, RecordOK
<1>4. CASE ~StepPassed
  <2>1. recordStep("failed") /\ "failed" \in Outcomes
    BY <1>4 DEF Checked, Outcomes
  <2> QED BY <1>1, <1>2, <2>1, RecordOK
<1> QED BY <1>3, <1>4

\* All steps have run: to the reviews only if each passed or did not apply.
LEMMA VerifiedIsOK == RoundInv /\ Verified => RoundInv'
<1> SUFFICES ASSUME RoundInv, Verified PROVE RoundInv'
  OBVIOUS
<1>1. /\ risk' = risk /\ steps' = steps /\ reviews' = reviews /\ passed' = passed
      /\ approving' = approving /\ invocations' = invocations
  BY DEF Verified
<1>2. /\ at = "verify" /\ at \in Verifying /\ at' \in {"review", "blocked", "implement"}
      /\ VerifiedOk <=> at' = "review"
      /\ turn' = turn \/ (turn' = turn + 1 /\ turn # FixRounds - 1)
  BY DEF Verified, Blocked, Verifying
<1>3. RoundTypes'
  <2>1. turn' \in 0..(FixRounds - 1)
    BY <1>2, RoundAssumption DEF RoundInv, RoundTypes
  <2> QED BY <1>1, <1>2, <2>1 DEF RoundInv, RoundTypes, Places
<1>4. CASE at' # "review"
  BY <1>2, <1>3, <1>4, Nothing
<1>5. CASE at' = "review"
  <2>1. /\ steps \in Seq(StepResult) /\ risk.level \in RiskLevels
        /\ Len(steps) <= Len(Tier)
    BY <1>2 DEF RoundInv, RoundTypes, ResultsAreTrue
  <2>2. ~HasFailed(steps) /\ ~HasUnavailable(steps)
    BY <1>2, <1>5 DEF VerifiedOk
  <2>3. Len(steps) = Len(Tier)
    <3>1. ~(Len(steps) < Len(Tier))
      BY <2>2 DEF Verified, Remaining, Tier
    <3>2. Len(steps) \in Nat /\ Len(Tier) \in Nat
      BY <2>1, TierIsSequence DEF Tier
    <3> QED BY <3>1, <3>2, <2>1
  <2>4. \A i \in 1..Len(steps) : steps[i].outcome \in {"passed", "not-applicable"}
    <3> SUFFICES ASSUME NEW i \in 1..Len(steps)
                 PROVE  steps[i].outcome \in {"passed", "not-applicable"}
      OBVIOUS
    <3>1. i \in DOMAIN steps /\ steps[i] \in StepResult
      BY <2>1
    <3>2. steps[i].outcome \in Outcomes
      BY <3>1 DEF StepResult
    <3>3. steps[i].outcome # "failed" /\ steps[i].outcome # "unavailable"
      BY <3>1, <2>2 DEF HasFailed, HasUnavailable
    <3> QED BY <3>2, <3>3 DEF Outcomes
  <2>5. AllSteps'
    BY <1>1, <2>3, <2>4 DEF AllSteps, Tier
  <2>6. ResultsAreTrue'
    BY <1>1, <1>2 DEF RoundInv, ResultsAreTrue, ResultOK, Tier
  <2>7. ApprovalsAreTrue'
    BY <1>1, <1>2, <1>5 DEF RoundInv, ApprovalsAreTrue, AllApprove
  <2> QED BY <1>3, <1>5, <2>5, <2>6, <2>7 DEF RoundInv, StepRuns
<1> QED BY <1>4, <1>5

-----------------------------------------------------------------------------
\* A reviewer starts: the reviews are as they were.
LEMMA ReviewOK == RoundInv /\ Review => RoundInv'
<1> SUFFICES ASSUME RoundInv, Review PROVE RoundInv'
  OBVIOUS
<1>1. /\ at = "review" /\ at' = "reviewing" /\ turn' = turn /\ risk' = risk /\ steps' = steps
      /\ reviews' = reviews /\ passed' = passed /\ approving' = approving
      /\ invocations' = invocations + 1
  BY DEF Review, Call
<1>2. RoundTypes'
  BY <1>1 DEF RoundInv, RoundTypes, Places
<1> QED
  BY <1>1, <1>2 DEF RoundInv, ResultsAreTrue, ResultOK, StepRuns, AllSteps, ApprovalsAreTrue,
     AllApprove, Tier, Verifying, Reviewing

\* The reviews after an answer, or after its absence.
LEMMA HeardType ==
    ASSUME reviews \in ReviewsType, NEW review \in Said, Heard(review)
    PROVE  /\ reviews' \in ReviewsType
           /\ reviews'.usable = reviews.usable \o review
<1>1. review \in Seq(ReviewResult)
  <2>1. CASE review = <<>>
    BY <2>1
  <2>2. CASE review # <<>>
    <3>1. PICK r \in ReviewResult : review = <<r>>
      BY <2>2 DEF Said
    <3> QED BY <3>1
  <2> QED BY <2>1, <2>2
<1>2. reviews.usable \o review \in Seq(ReviewResult)
  BY <1>1 DEF ReviewsType
<1>3. CASE review # <<>> \/ reviews.attempt + 1 >= Retries
  <2>1. reviews' = [usable |-> reviews.usable \o review, pass |-> reviews.pass + 1, attempt |-> 0]
    BY <1>3 DEF Heard
  <2> QED BY <2>1, <1>2, RoundAssumption DEF ReviewsType
<1>4. CASE ~(review # <<>> \/ reviews.attempt + 1 >= Retries)
  <2>1. reviews' = [reviews EXCEPT !.attempt = reviews.attempt + 1]
    BY <1>4 DEF Heard
  <2>2. reviews' = [usable |-> reviews.usable, pass |-> reviews.pass,
                    attempt |-> reviews.attempt + 1]
    BY <2>1 DEF ReviewsType
  <2>3. reviews.attempt + 1 \in 0..(Retries - 1)
    BY <1>4, RoundAssumption DEF ReviewsType
  <2>4. reviews.usable \o review = reviews.usable
    BY <1>4 DEF ReviewsType
  <2> QED BY <2>2, <2>3, <2>4 DEF ReviewsType
<1> QED BY <1>3, <1>4

\* An answer counts only if the reviewer ended in time.
LEMMA ReviewedOK == RoundInv /\ Reviewed => RoundInv'
<1> SUFFICES ASSUME RoundInv, Reviewed PROVE RoundInv'
  OBVIOUS
<1>1. /\ at = "reviewing" /\ at' = "review" /\ turn' = turn /\ risk' = risk /\ steps' = steps
      /\ passed' = passed /\ invocations' = invocations
  BY DEF Reviewed
<1>2. PICK payload \in Payloads, structured \in Said, text \in Said :
        LET review == IF interpretInvocation(payload) THEN extractReview(structured, text) ELSE <<>>
        IN  /\ Heard(review)
            /\ approving' = approving +
                   (IF InTime /\ review # <<>> /\ Approving(review[1]) THEN 1 ELSE 0)
  BY DEF Reviewed
<1>3. PICK review \in Said :
        /\ Heard(review)
        /\ review # <<>> => InTime
        /\ approving' = approving +
               (IF InTime /\ review # <<>> /\ Approving(review[1]) THEN 1 ELSE 0)
  <2> DEFINE heard ==
        IF interpretInvocation(payload) THEN extractReview(structured, text) ELSE <<>>
  <2>1. heard \in Said
    BY DEF extractReview, Said
  <2>2. heard # <<>> => InTime
    BY DEF interpretInvocation, InTime
  <2> QED BY <1>2, <2>1, <2>2
<1>6. reviews \in ReviewsType /\ approving \in Nat
  BY DEF RoundInv, RoundTypes
<1>7. reviews' \in ReviewsType /\ reviews'.usable = reviews.usable \o review
  BY <1>3, <1>6, HeardType
<1>8. approving' \in Nat
  BY <1>3, <1>6
<1>9. RoundTypes'
  BY <1>1, <1>7, <1>8 DEF RoundInv, RoundTypes, Places
<1>10. ASSUME AllApprove' PROVE approving' >= Len(reviews'.usable)
  <2>1. reviews.usable \in Seq(ReviewResult) /\ reviews'.usable \in Seq(ReviewResult)
    BY <1>6, <1>7 DEF ReviewsType
  <2>2. CASE review = <<>>
    <3>1. reviews'.usable = reviews.usable /\ approving' = approving
      BY <2>1, <2>2, <1>3, <1>6, <1>7
    <3>2. AllApprove
      BY <1>10, <3>1 DEF AllApprove
    <3> QED BY <3>1, <3>2, <1>1 DEF RoundInv, ApprovalsAreTrue, Reviewing
  <2>3. CASE review # <<>>
    <3>1. PICK r \in ReviewResult : review = <<r>>
      BY <1>3, <2>3 DEF Said
    <3> DEFINE n == Len(reviews.usable)
    <3>2. /\ Len(reviews'.usable) = n + 1 /\ n \in Nat
          /\ reviews'.usable[n + 1] = review[1]
          /\ \A i \in 1..n : reviews'.usable[i] = reviews.usable[i]
      BY <2>1, <3>1, <1>7
    <3> HIDE DEF n
    <3>3. Approving(review[1])
      BY <1>10, <3>2 DEF AllApprove
    <3>4. approving' = approving + 1
      BY <2>3, <3>3, <1>3
    <3>5. \A i \in 1..n : Approving(reviews.usable[i])
      <4> SUFFICES ASSUME NEW i \in 1..n PROVE Approving(reviews.usable[i])
        OBVIOUS
      <4>1. i \in 1..Len(reviews'.usable)
        BY <3>2
      <4>2. Approving(reviews'.usable[i])
        BY <1>10, <4>1 DEF AllApprove
      <4> QED BY <4>2, <3>2
    <3>6. approving >= n
      BY <3>5, <1>1 DEF RoundInv, ApprovalsAreTrue, AllApprove, Reviewing, n
    <3> QED BY <3>2, <3>4, <3>6, <1>6
  <2> QED BY <2>2, <2>3
<1>11. ApprovalsAreTrue'
  BY <1>1, <1>10 DEF ApprovalsAreTrue
<1>12. ResultsAreTrue'
  BY <1>1 DEF RoundInv, ResultsAreTrue, ResultOK, Tier, Reviewing, Verifying
<1>13. AllSteps'
  BY <1>1 DEF RoundInv, AllSteps, Tier, Reviewing
<1> QED
  BY <1>1, <1>9, <1>11, <1>12, <1>13 DEF RoundInv, StepRuns

\* The verdict: approval only if as many approve as the tier asks for.
LEMMA JudgeOK == RoundInv /\ Judge => RoundInv'
<1> SUFFICES ASSUME RoundInv, Judge PROVE RoundInv'
  OBVIOUS
<1> DEFINE verdict == IF EnoughReviews THEN combine(reviews.usable) ELSE "blocked"
<1>1. /\ at = "review" /\ risk' = risk /\ steps' = steps /\ reviews' = reviews
      /\ passed' = passed /\ approving' = approving /\ invocations' = invocations
  BY DEF Judge
<1>2. verdict \in Verdicts
  BY DEF combine, Verdicts
<1>3. (CASE verdict = "approve" -> at' = "settled" /\ UNCHANGED <<child, turn>>
        [] verdict = "blocked" \/ (verdict = "request_changes" /\ turn = FixRounds - 1) ->
               Blocked /\ UNCHANGED turn
        [] OTHER -> at' = "implement" /\ turn' = turn + 1 /\ UNCHANGED child)
  BY DEF Judge
<1> HIDE DEF verdict
<1>4. /\ at' \in {"settled", "blocked", "implement"}
      /\ at' = "settled" => verdict = "approve"
      /\ turn' = turn \/ (turn' = turn + 1 /\ turn # FixRounds - 1)
  BY <1>2, <1>3 DEF Blocked, Verdicts
<1>5. RoundTypes'
  <2>1. turn' \in 0..(FixRounds - 1)
    BY <1>4, RoundAssumption DEF RoundInv, RoundTypes
  <2> QED BY <1>1, <1>4, <2>1 DEF RoundInv, RoundTypes, Places
<1>6. CASE at' # "settled"
  BY <1>4, <1>5, <1>6, Nothing
<1>7. CASE at' = "settled"
  <2>1. EnoughReviews /\ combine(reviews.usable) = "approve"
    BY <1>4, <1>7 DEF verdict
  <2>2. reviews.usable \in Seq(ReviewResult)
    BY DEF RoundInv, RoundTypes, ReviewsType
  <2>3. AllApprove
    <3> SUFFICES ASSUME NEW i \in 1..Len(reviews.usable) PROVE Approving(reviews.usable[i])
      BY DEF AllApprove
    <3> DEFINE r == reviews.usable[i]
    <3>1. i \in DOMAIN reviews.usable /\ r \in ReviewResult
      BY <2>2
    <3>2. r \in Range(reviews.usable)
      BY <3>1 DEF Range
    <3>3. r.status # "blocked" /\ r.status # "request_changes" /\ ~(r.worst >= BlockingSeverity)
      BY <2>1, <3>2 DEF combine
    <3>4. r.status \in Verdicts /\ r.worst \in {0, 4}
      BY <3>1 DEF ReviewResult
    <3> QED BY <3>3, <3>4, RoundAssumption DEF Approving, Verdicts
  <2>4. ApprovalsAreTrue'
    BY <1>1, <2>1, <2>3 DEF RoundInv, ApprovalsAreTrue, AllApprove, EnoughReviews, Required, Reviewing
  <2>5. ResultsAreTrue'
    BY <1>1 DEF RoundInv, ResultsAreTrue, ResultOK, Tier, Reviewing, Verifying
  <2>6. AllSteps'
    BY <1>1 DEF RoundInv, AllSteps, Tier, Reviewing
  <2> QED BY <1>5, <1>7, <2>4, <2>5, <2>6 DEF RoundInv, StepRuns
<1> QED BY <1>6, <1>7

-----------------------------------------------------------------------------
\* How many invocations an issue has taken: those of the rounds before, the agent, and the
\* attempts of the reviewers that have been asked.
PerRound == 1 + MostReviewers * Retries
Spent(rounds) == rounds * PerRound
Asked(pass) == (pass - 1) * Retries

EffortInv ==
    /\ at = "implement" => invocations <= Spent(turn)
    /\ at = "coding" => invocations <= Spent(turn) + 1
    /\ at \in Verifying =>
           /\ reviews.pass = 1 /\ reviews.attempt = 0
           /\ invocations <= Spent(turn) + 1
    /\ at = "review" =>
           /\ reviews.pass <= Required + 1
           /\ reviews.pass = Required + 1 => reviews.attempt = 0
           /\ invocations <= Spent(turn) + 1 + Asked(reviews.pass) + reviews.attempt
    /\ at = "reviewing" =>
           /\ reviews.pass <= Required
           /\ invocations <= Spent(turn) + 2 + Asked(reviews.pass) + reviews.attempt
    /\ at \in {"settled", "blocked"} => invocations <= Spent(turn + 1)

\* A product grows with its first factor.
LEMMA ProductGrows ==
    ASSUME NEW a \in Nat, NEW b \in Nat, NEW c \in Nat, a <= b
    PROVE  a * c \in Nat /\ a * c <= b * c
<1>1. PICK d \in Nat : b = a + d
  <2>1. b - a \in Nat /\ b = a + (b - a)
    OBVIOUS
  <2> QED BY <2>1
<1>2. (a + d) * c = a * c + d * c /\ a * c \in Nat /\ d * c \in Nat
  OBVIOUS
<1> QED BY <1>1, <1>2

\* One round more is one PerRound more.
LEMMA SpentGrows ==
    ASSUME NEW t \in Nat
    PROVE  /\ PerRound \in Nat \ {0} /\ Spent(t) \in Nat
           /\ Spent(t + 1) = Spent(t) + PerRound
           /\ t + 1 <= FixRounds => Spent(t + 1) <= FixRounds * PerRound
<1>1. MostReviewers * Retries \in Nat
  BY RoundAssumption, ProductGrows
<1>2. PerRound \in Nat \ {0}
  BY <1>1 DEF PerRound
<1> HIDE DEF PerRound
<1>3. Spent(t) \in Nat /\ Spent(t + 1) = Spent(t) + PerRound
  BY <1>2, ProductGrows DEF Spent
<1>4. t + 1 <= FixRounds => Spent(t + 1) <= FixRounds * PerRound
  BY <1>2, ProductGrows, RoundAssumption DEF Spent
<1> QED BY <1>2, <1>3, <1>4

\* One pass more is Retries attempts more, and all of them fit in a round.
LEMMA AskedGrows ==
    ASSUME risk.level \in RiskLevels, NEW p \in Nat \ {0}, p <= Required + 1
    PROVE  /\ Asked(p) \in Nat /\ Asked(1) = 0
           /\ Asked(p + 1) = Asked(p) + Retries
           /\ Asked(p) + 1 <= PerRound
<1>1. Required \in Nat /\ Required <= MostReviewers
  BY RoundAssumption DEF Required
<1>2. p - 1 \in Nat /\ p - 1 <= MostReviewers /\ Retries \in Nat /\ MostReviewers \in Nat
  BY <1>1, RoundAssumption
<1>3. (p - 1) * Retries \in Nat /\ (p - 1) * Retries <= MostReviewers * Retries
  BY <1>2, ProductGrows
<1>4. Asked(p) \in Nat /\ Asked(p) + 1 <= PerRound
  BY <1>2, <1>3, ProductGrows DEF Asked, PerRound
<1>5. Asked(1) = 0
  BY <1>2 DEF Asked
<1>6. Asked(p + 1) = Asked(p) + Retries
  <2>1. (p + 1) - 1 = (p - 1) + 1
    BY <1>2
  <2>2. ((p - 1) + 1) * Retries = (p - 1) * Retries + Retries
    BY <1>2
  <2> QED BY <2>1, <2>2 DEF Asked
<1> QED BY <1>4, <1>5, <1>6

\* What is spent is a number, which grows by at least one with each round.
LEMMA SpentNow ==
    ASSUME RoundTypes
    PROVE  /\ turn \in Nat /\ turn + 1 <= FixRounds
           /\ PerRound \in Nat \ {0} /\ Spent(turn) \in Nat
           /\ Spent(turn + 1) = Spent(turn) + PerRound
<1>1. turn \in Nat /\ turn + 1 <= FixRounds
  BY RoundAssumption DEF RoundTypes
<1> QED BY <1>1, SpentGrows

\* While the child runs, and while the steps do, nothing is spent.
LEMMA EffortStays ==
    ASSUME EffortInv, invocations' = invocations, turn' = turn, reviews' = reviews, risk' = risk,
           at' = at \/ (at \in Verifying /\ at' \in Verifying)
    PROVE  EffortInv'
<1>1. CASE at' = at
  BY <1>1 DEF EffortInv, Required
<1>2. CASE at \in Verifying /\ at' \in Verifying
  BY <1>2 DEF EffortInv, Verifying
<1> QED BY <1>1, <1>2

\* The agent is called once in a round.
LEMMA ImplementEffort == RoundInv /\ EffortInv /\ Implement => EffortInv'
<1> SUFFICES ASSUME RoundInv, EffortInv, Implement PROVE EffortInv'
  OBVIOUS
<1>1. /\ at = "implement" /\ at' = "coding" /\ turn' = turn /\ invocations' = invocations + 1
  BY DEF Implement, Call
<1>2. invocations \in Nat /\ Spent(turn) \in Nat
  BY SpentNow DEF RoundInv, RoundTypes
<1> QED BY <1>1, <1>2 DEF EffortInv, Verifying

\* The agent has stopped, or nothing was committed.
LEMMA ImplementedEffort ==
    RoundInv /\ EffortInv /\ (Implemented \/ NothingCommitted) => EffortInv'
<1> SUFFICES ASSUME RoundInv, EffortInv, Implemented \/ NothingCommitted PROVE EffortInv'
  OBVIOUS
<1>1. /\ at \in {"coding", "verify"} /\ at' \in {"verify", "blocked"}
      /\ turn' = turn /\ invocations' = invocations
      /\ at' = "verify" => reviews'.pass = 1 /\ reviews'.attempt = 0
  BY DEF Implemented, NothingCommitted, Blocked
<1>2. invocations \in Nat /\ Spent(turn) \in Nat /\ PerRound \in Nat \ {0}
      /\ Spent(turn + 1) = Spent(turn) + PerRound
  BY SpentNow DEF RoundInv, RoundTypes
<1>3. invocations <= Spent(turn) + 1
  BY <1>1 DEF EffortInv, Verifying
<1>4. invocations <= Spent(turn + 1)
  BY <1>2, <1>3
<1> QED BY <1>1, <1>3, <1>4 DEF EffortInv, Verifying

\* The steps have run: to the reviews, to a round more, or the issue blocks.
LEMMA VerifiedEffort == RoundInv /\ EffortInv /\ Verified => EffortInv'
<1> SUFFICES ASSUME RoundInv, EffortInv, Verified PROVE EffortInv'
  OBVIOUS
<1>1. /\ at = "verify" /\ reviews' = reviews /\ risk' = risk /\ invocations' = invocations
      /\ \/ at' \in {"review", "blocked"} /\ turn' = turn
         \/ at' = "implement" /\ turn' = turn + 1
  BY DEF Verified, Blocked
<1>2. /\ invocations \in Nat /\ Spent(turn) \in Nat /\ PerRound \in Nat \ {0}
      /\ Spent(turn + 1) = Spent(turn) + PerRound
      /\ risk.level \in RiskLevels
  BY SpentNow DEF RoundInv, RoundTypes
<1>3. invocations <= Spent(turn) + 1 /\ reviews.pass = 1 /\ reviews.attempt = 0
  BY <1>1 DEF EffortInv, Verifying
<1>4. invocations <= Spent(turn + 1)
  BY <1>2, <1>3
<1>5. CASE at' \in {"implement", "blocked"}
  BY <1>1, <1>4, <1>5 DEF EffortInv, Verifying
<1>6. CASE at' = "review"
  <2>1. Required \in Nat \ {0} /\ Required' = Required
    BY <1>1, <1>2, RoundAssumption DEF Required
  <2>2. Asked(1) = 0
    BY <1>2, <2>1, AskedGrows
  <2>3. reviews'.pass = 1 /\ reviews'.attempt = 0 /\ turn' = turn
    BY <1>1, <1>3, <1>6
  <2>4. invocations' <= Spent(turn') + 1 + Asked(reviews'.pass) + reviews'.attempt
    BY <1>1, <1>2, <1>3, <2>2, <2>3
  <2> QED BY <1>6, <2>1, <2>3, <2>4 DEF EffortInv, Verifying
<1> QED BY <1>1, <1>5, <1>6

\* A reviewer is asked: one invocation more.
LEMMA ReviewEffort == RoundInv /\ EffortInv /\ Review => EffortInv'
<1> SUFFICES ASSUME RoundInv, EffortInv, Review PROVE EffortInv'
  OBVIOUS
<1>1. /\ at = "review" /\ at' = "reviewing" /\ reviews.pass <= Required
      /\ turn' = turn /\ risk' = risk /\ reviews' = reviews /\ invocations' = invocations + 1
  BY DEF Review, Call
<1>2. /\ invocations \in Nat /\ Spent(turn) \in Nat /\ risk.level \in RiskLevels
      /\ reviews.pass \in Nat \ {0} /\ reviews.attempt \in Nat
  BY SpentNow, RoundAssumption DEF RoundInv, RoundTypes, ReviewsType
<1>3. Required \in Nat
  BY <1>2, RoundAssumption DEF Required
<1>4. Asked(reviews.pass) \in Nat
  BY <1>1, <1>2, <1>3, AskedGrows
<1>5. invocations <= Spent(turn) + 1 + Asked(reviews.pass) + reviews.attempt
  BY <1>1 DEF EffortInv
<1>6. invocations' <= Spent(turn') + 2 + Asked(reviews'.pass) + reviews'.attempt
  BY <1>1, <1>2, <1>4, <1>5
<1>7. reviews'.pass <= Required'
  BY <1>1 DEF Required
<1> QED BY <1>1, <1>6, <1>7 DEF EffortInv, Verifying

\* An answer ends the pass, its absence an attempt, the last of which ends the pass too.
LEMMA ReviewedEffort == RoundInv /\ EffortInv /\ Reviewed => EffortInv'
<1> SUFFICES ASSUME RoundInv, EffortInv, Reviewed PROVE EffortInv'
  OBVIOUS
<1>1. /\ at = "reviewing" /\ at' = "review"
      /\ turn' = turn /\ risk' = risk /\ invocations' = invocations
  BY DEF Reviewed
<1>2. /\ invocations \in Nat /\ Spent(turn) \in Nat /\ risk.level \in RiskLevels
      /\ reviews.pass \in Nat \ {0} /\ reviews.attempt \in 0..(Retries - 1)
      /\ reviews \in ReviewsType /\ Retries \in Nat \ {0}
  BY SpentNow, RoundAssumption DEF RoundInv, RoundTypes, ReviewsType
<1>3. Required \in Nat /\ Required' = Required
  BY <1>1, <1>2, RoundAssumption DEF Required
<1>4. /\ reviews.pass <= Required
      /\ invocations <= Spent(turn) + 2 + Asked(reviews.pass) + reviews.attempt
  BY <1>1 DEF EffortInv
<1>5. /\ Asked(reviews.pass) \in Nat
      /\ Asked(reviews.pass + 1) = Asked(reviews.pass) + Retries
  BY <1>2, <1>3, <1>4, AskedGrows
<1>6. PICK review \in Said : Heard(review)
  <2>1. \A s, t \in Said : extractReview(s, t) \in Said
    BY DEF extractReview
  <2>2. <<>> \in Said
    BY DEF Said
  <2> QED BY <2>1, <2>2 DEF Reviewed
<1>7. \/ reviews'.pass = reviews.pass + 1 /\ reviews'.attempt = 0
      \/ /\ reviews'.pass = reviews.pass /\ reviews'.attempt = reviews.attempt + 1
         /\ reviews.attempt + 1 < Retries
  <2>1. CASE review # <<>> \/ reviews.attempt + 1 >= Retries
    BY <1>6, <2>1 DEF Heard
  <2>2. CASE ~(review # <<>> \/ reviews.attempt + 1 >= Retries)
    <3>1. reviews' = [reviews EXCEPT !.attempt = reviews.attempt + 1]
      BY <1>6, <2>2 DEF Heard
    <3>2. reviews'.pass = reviews.pass /\ reviews'.attempt = reviews.attempt + 1
      BY <3>1, <1>2 DEF ReviewsType
    <3> QED BY <3>2, <2>2, <1>2
  <2> QED BY <2>1, <2>2
<1>8. /\ reviews'.pass <= Required' + 1
      /\ reviews'.pass = Required' + 1 => reviews'.attempt = 0
      /\ invocations' <= Spent(turn') + 1 + Asked(reviews'.pass) + reviews'.attempt
  BY <1>1, <1>2, <1>3, <1>4, <1>5, <1>7
<1> QED BY <1>1, <1>8 DEF EffortInv, Verifying

\* The verdict: all passes fit in the round.
LEMMA JudgeEffort == RoundInv /\ EffortInv /\ Judge => EffortInv'
<1> SUFFICES ASSUME RoundInv, EffortInv, Judge PROVE EffortInv'
  OBVIOUS
<1>1. /\ at = "review" /\ reviews.pass > Required /\ invocations' = invocations
      /\ \/ at' \in {"settled", "blocked"} /\ turn' = turn
         \/ at' = "implement" /\ turn' = turn + 1
  BY DEF Judge, Blocked
<1>2. /\ invocations \in Nat /\ Spent(turn) \in Nat /\ PerRound \in Nat \ {0}
      /\ Spent(turn + 1) = Spent(turn) + PerRound
      /\ risk.level \in RiskLevels /\ reviews.pass \in Nat \ {0}
  BY SpentNow DEF RoundInv, RoundTypes, ReviewsType
<1>3. Required \in Nat
  BY <1>2, RoundAssumption DEF Required
<1>4. /\ reviews.pass <= Required + 1
      /\ reviews.pass = Required + 1 => reviews.attempt = 0
      /\ invocations <= Spent(turn) + 1 + Asked(reviews.pass) + reviews.attempt
  BY <1>1 DEF EffortInv
<1>5. reviews.attempt = 0
  BY <1>1, <1>2, <1>3, <1>4
<1>6. Asked(reviews.pass) \in Nat /\ Asked(reviews.pass) + 1 <= PerRound
  BY <1>2, <1>3, <1>4, AskedGrows
<1>7. invocations <= Spent(turn + 1)
  BY <1>2, <1>4, <1>5, <1>6
<1> QED BY <1>1, <1>7 DEF EffortInv, Verifying

-----------------------------------------------------------------------------
\* The inductive invariant: where a round is says what has been recorded and what was spent.
THEOREM RoundInvariant == RoundSpec => [](RoundInv /\ EffortInv)
<1>1. RoundInit => RoundInv /\ EffortInv
  <2> SUFFICES ASSUME RoundInit PROVE EffortInv
    BY RoundInitOK
  <2>1. RoundInv
    BY RoundInitOK
  <2>2. at = "implement" /\ invocations = 0 /\ Spent(turn) \in Nat
    BY <2>1, SpentNow DEF RoundInit, RoundInv
  <2> QED BY <2>2 DEF EffortInv, Verifying
<1>2. RoundInv /\ EffortInv /\ [RoundNext]_roundVars => (RoundInv /\ EffortInv)'
  <2> SUFFICES ASSUME RoundInv, EffortInv, [RoundNext]_roundVars PROVE (RoundInv /\ EffortInv)'
    OBVIOUS
  <2>1. CASE UNCHANGED roundVars
    <3>1. keepsRound /\ at' = at
      BY <2>1 DEF roundVars, keepsRound
    <3> QED BY <3>1, ChildStep, EffortStays DEF keepsRound
  <2>2. CASE Deadline \/ HardKill \/ ChildExits \/ OutputEnds
    <3>1. keepsRound
      BY <2>2 DEF Deadline, HardKill, ChildExits, OutputEnds
    <3> QED BY <3>1, ChildStep, EffortStays DEF keepsRound
  <2>3. CASE Implement
    BY <2>3, ImplementOK, ImplementEffort
  <2>4. CASE Implemented \/ NothingCommitted
    BY <2>4, ImplementedOK, NothingCommittedOK, ImplementedEffort
  <2>5. CASE NotApplicable \/ ToolMissing \/ RunStep \/ Probed \/ Checked
    <3>1. at \in Verifying /\ at' \in Verifying /\ keepsVerified
      BY <2>5 DEF NotApplicable, ToolMissing, RunStep, Probed, Checked, AtStep, Call, Verifying
    <3> QED
      BY <2>5, <3>1, SkippedOK, RunStepOK, ProbedOK, CheckedOK, EffortStays DEF keepsVerified
  <2>6. CASE Verified
    BY <2>6, VerifiedIsOK, VerifiedEffort
  <2>7. CASE Review
    BY <2>7, ReviewOK, ReviewEffort
  <2>8. CASE Reviewed
    BY <2>8, ReviewedOK, ReviewedEffort
  <2>9. CASE Judge
    BY <2>9, JudgeOK, JudgeEffort
  <2> QED
    BY <2>1, <2>2, <2>3, <2>4, <2>5, <2>6, <2>7, <2>8, <2>9 DEF RoundNext
<1> QED
  BY <1>1, <1>2, PTL DEF RoundSpec

\* A change that is published has passed every step of its tier that applies to it, and as
\* many reviewers as the tier asks for approve of it (verify.ts, gatherReviews): AllSteps and
\* ApprovalsAreTrue, read at the end of the round.
THEOREM SettledIsAlwaysChecked == RoundSpec => []SettledIsChecked
<1>1. RoundInv => SettledIsChecked
  <2> SUFFICES ASSUME RoundInv, at = "settled" PROVE
           /\ \A i \in DOMAIN Tier : Applies(Tier[i], risk.files) => Tier[i].name \in passed
           /\ approving >= Required
    BY DEF SettledIsChecked, Tier, Required
  <2>1. risk.level \in RiskLevels
    BY DEF RoundInv, RoundTypes
  <2>2. DOMAIN Tier = 1..Len(steps)
    BY <2>1, TierIsSequence DEF RoundInv, AllSteps, Reviewing, Tier
  <2>3. ASSUME NEW i \in DOMAIN Tier, Applies(Tier[i], risk.files)
        PROVE  Tier[i].name \in passed
    <3>1. steps[i].outcome \in {"passed", "not-applicable"} /\ ResultOK(i)
      BY <2>2 DEF RoundInv, AllSteps, ResultsAreTrue, Reviewing
    <3> QED BY <3>1, <2>3 DEF ResultOK
  <2>4. approving >= Len(reviews.usable) /\ Len(reviews.usable) >= Required
    BY DEF RoundInv, ApprovalsAreTrue, Reviewing
  <2>5. approving \in Nat /\ Len(reviews.usable) \in Nat /\ Required \in Nat
    BY <2>1, RoundAssumption DEF RoundInv, RoundTypes, ReviewsType, Required
  <2>6. approving >= Required
    BY <2>4, <2>5
  <2> QED BY <2>3, <2>6
<1> QED BY <1>1, RoundInvariant, PTL

\* However the children end, an issue takes no more invocations than its rounds and the
\* retries of their reviews (workIssue, gatherReviews): each place of a round bounds what
\* the round has spent, and the passes of its reviews fit in what is left of it.
THEOREM EffortIsAlwaysBounded == RoundSpec => []EffortIsBounded
<1>1. RoundInv /\ EffortInv => EffortIsBounded
  <2> SUFFICES ASSUME RoundInv, EffortInv PROVE invocations <= FixRounds * PerRound
    BY DEF EffortIsBounded, PerRound
  <2>1. /\ Spent(turn) \in Nat /\ PerRound \in Nat \ {0}
        /\ Spent(turn + 1) = Spent(turn) + PerRound
        /\ Spent(turn + 1) <= FixRounds * PerRound
        /\ FixRounds * PerRound \in Nat
    <3>1. turn \in Nat /\ turn + 1 <= FixRounds
      BY SpentNow DEF RoundInv
    <3>2. PerRound \in Nat
      BY <3>1, SpentGrows
    <3>3. FixRounds * PerRound \in Nat
      BY <3>2, RoundAssumption, ProductGrows
    <3> QED BY <3>1, <3>3, SpentGrows
  <2>2. invocations \in Nat /\ at \in Places /\ risk.level \in RiskLevels
        /\ reviews.pass \in Nat \ {0} /\ reviews.attempt \in 0..(Retries - 1)
    BY DEF RoundInv, RoundTypes, ReviewsType
  <2>3. Retries \in Nat \ {0} /\ Required \in Nat
    BY <2>2, RoundAssumption DEF Required
  <2>4. CASE at \notin {"review", "reviewing"}
    <3>1. invocations <= Spent(turn) + 1 \/ invocations <= Spent(turn + 1)
      BY <2>1, <2>2, <2>4 DEF EffortInv, Places, Verifying
    <3> QED BY <3>1, <2>1, <2>2
  <2>5. CASE at = "review" /\ reviews.pass = Required + 1
    <3>1. reviews.attempt = 0 /\ invocations <= Spent(turn) + 1 + Asked(reviews.pass)
      BY <2>1, <2>2, <2>5, AskedGrows, <2>3 DEF EffortInv
    <3>2. Asked(reviews.pass) \in Nat /\ Asked(reviews.pass) + 1 <= PerRound
      BY <2>2, <2>3, <2>5, AskedGrows
    <3> QED BY <2>1, <2>2, <3>1, <3>2
  <2>6. CASE (at = "review" /\ reviews.pass <= Required) \/ at = "reviewing"
    <3>1. /\ reviews.pass <= Required
          /\ invocations <= Spent(turn) + 2 + Asked(reviews.pass) + reviews.attempt
      <4>1. Asked(reviews.pass) \in Nat
        BY <2>2, <2>3, <2>6, AskedGrows DEF EffortInv
      <4> QED BY <2>1, <2>2, <2>3, <2>6, <4>1 DEF EffortInv
    <3>2. /\ Asked(reviews.pass) \in Nat
          /\ Asked(reviews.pass + 1) = Asked(reviews.pass) + Retries
      BY <2>2, <2>3, <3>1, AskedGrows
    <3>3. Asked(reviews.pass + 1) + 1 <= PerRound
      BY <2>2, <2>3, <3>1, AskedGrows
    <3> QED BY <2>1, <2>2, <2>3, <3>1, <3>2, <3>3
  <2>7. at = "review" => reviews.pass <= Required \/ reviews.pass = Required + 1
    BY <2>2, <2>3 DEF EffortInv
  <2> QED BY <2>4, <2>5, <2>6, <2>7
<1> QED BY <1>1, RoundInvariant, PTL

-----------------------------------------------------------------------------
(***************************************************************************)
(* RunnerBudget.  A log of timestamps is in order, and any `limit` entries *)
(* after one are more than a window later than it.                         *)
(***************************************************************************)

\* A log whose entries follow each other, none of them in the future.
InOrder(timestamps) ==
    /\ \A i \in DOMAIN timestamps : timestamps[i] <= clock
    /\ \A i, j \in DOMAIN timestamps : i <= j => timestamps[i] <= timestamps[j]

\* Any `limit` events after one are more than a window later than it.
Spaced(timestamps, limit, window) ==
    \A i \in DOMAIN timestamps :
        i + limit \in DOMAIN timestamps => timestamps[i] + window < timestamps[i + limit]

\* Events that are spaced are few in every window.
LEMMA SpacedAreFew ==
    ASSUME NEW ts \in Seq(Nat), NEW limit \in Nat, NEW window \in Nat,
           \A i, j \in DOMAIN ts : i <= j => ts[i] <= ts[j],
           Spaced(ts, limit, window), NEW end \in Nat
    PROVE  Rolling(ts, end, window) <= limit
<1> DEFINE S == {i \in DOMAIN ts : ts[i] <= end /\ end <= ts[i] + window}
<1>0. DOMAIN ts = 1..Len(ts) /\ Len(ts) \in Nat /\ \A i \in DOMAIN ts : ts[i] \in Nat
  OBVIOUS
<1>1. CASE S = {}
  <2>1. Cardinality(S) = 0
    BY <1>1, FS_EmptySet
  <2>2. Rolling(ts, end, window) = Cardinality(S)
    BY DEF Rolling
  <2> HIDE DEF S
  <2>3. QED
    BY <2>1, <2>2
<1>2. CASE S # {}
  <2>1. S \subseteq Nat
    BY <1>0
  <2>2. PICK a \in S : \A y \in S : a <= y
    BY <1>2, <2>1, LeastOfNaturals
  <2>3. ASSUME NEW y \in S PROVE y < a + limit
    <3>1. SUFFICES ASSUME a + limit <= y PROVE FALSE
      BY <1>0, <2>2
    <3>2. a + limit \in DOMAIN ts
      BY <1>0, <2>2, <3>1
    <3>3. ts[a] + window < ts[a + limit]
      BY <2>2, <3>2 DEF Spaced
    <3>4. ts[a + limit] <= ts[y]
      BY <3>1, <3>2, <1>0
    <3>5. ts[y] <= end /\ end <= ts[a] + window
      BY <2>2, <2>3
    <3>6. QED
      BY <3>3, <3>4, <3>5, <1>0, <3>2, <2>2, <2>3
  <2>4. limit > 0
    BY <2>3, <2>2, <1>0
  <2>5. PICK b \in Nat : b = a + limit - 1
    BY <2>1, <2>2, <2>4
  <2>6. S \subseteq a..b /\ a \in Nat /\ a <= b + 1
    BY <2>1, <2>2, <2>3, <2>4, <2>5
  <2>7. Rolling(ts, end, window) = Cardinality(S)
    BY DEF Rolling
  <2>8. Cardinality(S) <= limit
    <3> HIDE DEF S
    <3>1. Cardinality(S) \in Nat /\ Cardinality(S) <= b - a + 1
      BY <2>6, AtMostInRange
    <3>2. QED
      BY <2>5, <2>6, <3>1
  <2> HIDE DEF S
  <2>9. QED
    BY <2>7, <2>8
<1>3. QED
  BY <1>1, <1>2

-----------------------------------------------------------------------------
\* The types of the state.
BudgetTypeOK ==
    /\ clock \in Nat
    /\ calls \in Seq(Nat) /\ issues \in Seq(Nat)
    /\ called \in Seq(Nat) /\ begun \in Seq(Nat)
    /\ DOMAIN runner = {"pc", "made", "until"}
    /\ runner.pc \in {"cycle", "working", "waiting", "finished"}
    /\ runner.made \in 0..CallsPerIssue

\* The issues whose work is over.
Over == IF runner.pc = "working" THEN Len(begun) - 1 ELSE Len(begun)

\* The budget holds the last issues that were begun and finished; the others were begun too
\* long ago.
IssuesAreCounted ==
    /\ runner.pc = "working" => begun # <<>>
    /\ Len(issues) <= Over
    /\ \A k \in DOMAIN issues : begun[Over - Len(issues) + k] <= issues[k]
    /\ \A j \in 1..(Over - Len(issues)) : begun[j] + Day < clock

\* And the last invocations that were made.
CallsAreCounted ==
    /\ Len(calls) <= Len(called)
    /\ \A k \in DOMAIN calls : calls[k] = called[Len(called) - Len(calls) + k]
    /\ \A j \in 1..(Len(called) - Len(calls)) : called[j] + Hour < clock

\* When the issue at hand was begun, fewer than PerHour invocations were an hour old at most.
BegunWithinBudget ==
    /\ runner.made <= Len(called)
    /\ runner.pc = "working" /\ PerHour > 0 =>
           \A j \in DOMAIN called :
               j = Len(called) - runner.made + 1 - PerHour => called[j] + Hour < clock

\* The four logs are in order.
AllInOrder == InOrder(calls) /\ InOrder(issues) /\ InOrder(called) /\ InOrder(begun)

\* What the two properties come down to: the issues begun and the invocations made are spaced.
AllSpaced ==
    /\ PerDay > 0 => Spaced(begun, PerDay, Day)
    /\ PerHour > 0 => Spaced(called, PerHour + CallsPerIssue - 1, Hour)

\* The inductive invariant of the budget.
BudgetInv ==
    /\ BudgetTypeOK /\ AllInOrder
    /\ IssuesAreCounted /\ CallsAreCounted /\ BegunWithinBudget
    /\ AllSpaced

-----------------------------------------------------------------------------
\* The assumption on the constants, as the proofs use it.
LEMMA BudgetConstants ==
    /\ Hour \in Nat /\ Day \in Nat /\ PerHour \in Nat /\ PerDay \in Nat
    /\ MaxRuntime \in Nat /\ CallsPerIssue \in Nat
BY BudgetAssumption

\* prune drops a prefix, and only what has aged out.
LEMMA ShiftedIsASuffix ==
    ASSUME NEW ts \in Seq(Nat), NEW window \in Nat, clock \in Nat
    PROVE  \E d \in 0..Len(ts) :
               /\ Shifted(ts, window) \in Seq(Nat)
               /\ Len(Shifted(ts, window)) = Len(ts) - d
               /\ \A k \in 1..(Len(ts) - d) : Shifted(ts, window)[k] = ts[d + k]
               /\ \A j \in 1..d : ts[j] + window < clock
<1> DEFINE kept == {i \in DOMAIN ts : InWindow(ts[i], window)}
           m == Min(kept \cup {Len(ts) + 1})
<1>0. DOMAIN ts = 1..Len(ts) /\ Len(ts) \in Nat /\ \A i \in DOMAIN ts : ts[i] \in Nat
  OBVIOUS
<1>1. m \in kept \cup {Len(ts) + 1} /\ \A y \in kept \cup {Len(ts) + 1} : m <= y
  <2> HIDE DEF m
  <2>1. kept \cup {Len(ts) + 1} \subseteq Nat /\ kept \cup {Len(ts) + 1} # {}
    BY <1>0
  <2> HIDE DEF kept
  <2>2. QED
    BY <2>1, MinIsLeast DEF m
<1>2. m \in 1..(Len(ts) + 1)
  BY <1>0, <1>1
<1>3. PICK d \in 0..Len(ts) : m = d + 1
  <2> HIDE DEF m
  <2>1. m - 1 \in 0..Len(ts) /\ m = (m - 1) + 1
    BY <1>0, <1>2
  <2>2. QED
    BY <2>1
<1>4. Shifted(ts, window) = SubSeq(ts, d + 1, Len(ts))
  <2>1. Shifted(ts, window) = SubSeq(ts, m, Len(ts))
    BY Zenon DEF Shifted
  <2>2. QED
    BY <2>1, <1>3
<1>5. ASSUME NEW j \in 1..d PROVE ts[j] + window < clock
  <2>1. j \notin kept /\ j \in DOMAIN ts
    <3> HIDE DEF m, kept
    <3>1. QED
      BY <1>0, <1>1, <1>3
  <2>2. QED
    BY <2>1, <1>0 DEF InWindow
<1> HIDE DEF m, kept
<1>6. SubSeq(ts, d + 1, Len(ts)) \in Seq(Nat)
  BY <1>0, <1>3
<1>7. Len(SubSeq(ts, d + 1, Len(ts))) = Len(ts) - d
  <2>1. PICK n \in Nat : n = Len(ts)
    BY <1>0
  <2>2. d + 1 <= n + 1 /\ d \in Nat
    BY <2>1
  <2>3. Len(SubSeq(ts, d + 1, n)) = IF d + 1 <= n THEN n - (d + 1) + 1 ELSE 0
    BY <2>1, <2>2
  <2>4. QED
    BY <2>1, <2>2, <2>3
<1>8. \A k \in 1..(Len(ts) - d) : SubSeq(ts, d + 1, Len(ts))[k] = ts[d + k]
  BY <1>0, <1>3
<1>9. QED
  BY <1>4, <1>5, <1>6, <1>7, <1>8

\* What pushing makes of a sequence of times.
LEMMA Pushed ==
    ASSUME NEW ts \in Seq(Nat), NEW t \in Nat
    PROVE  /\ Append(ts, t) \in Seq(Nat) /\ Append(ts, t) # <<>>
           /\ Len(Append(ts, t)) = Len(ts) + 1 /\ Append(ts, t)[Len(ts) + 1] = t
           /\ \A j \in 1..Len(ts) : Append(ts, t)[j] = ts[j]
OBVIOUS

\* Pushing the time keeps a sequence in order.
LEMMA PushedInOrder ==
    ASSUME NEW ts \in Seq(Nat), clock \in Nat, InOrder(ts)
    PROVE  InOrder(Append(ts, clock))
BY DEF InOrder

\* A suffix of a sequence in order is in order.
LEMMA SuffixInOrder ==
    ASSUME NEW ts \in Seq(Nat), NEW us \in Seq(Nat), clock \in Nat, InOrder(ts),
           NEW d \in 0..Len(ts), Len(us) = Len(ts) - d,
           \A k \in 1..(Len(ts) - d) : us[k] = ts[d + k]
    PROVE  InOrder(us)
<1>1. PICK n \in Nat, m \in Nat : n = Len(ts) /\ m = Len(us)
  OBVIOUS
<1>2. DOMAIN ts = 1..n /\ DOMAIN us = 1..m /\ d \in Nat /\ m = n - d
  BY <1>1
<1>3. ASSUME NEW i \in DOMAIN us PROVE d + i \in DOMAIN ts /\ us[i] = ts[d + i]
  <2>1. i \in 1..m /\ i \in 1..(Len(ts) - d)
    BY <1>1, <1>2
  <2>2. us[i] = ts[d + i]
    BY <2>1
  <2>3. d + i \in 1..n
    <3>1. d \in Nat /\ m \in Nat /\ n \in Nat /\ m = n - d
      BY <1>2
    <3>2. i \in Nat /\ 1 <= i /\ i <= m
      BY <2>1
    <3>3. QED
      BY <3>1, <3>2
  <2>4. QED
    BY <1>2, <2>2, <2>3
<1>4. \A i, j \in DOMAIN us : i <= j => d + i <= d + j
  BY <1>2
<1>5. QED
  BY <1>3, <1>4 DEF InOrder

\* When fewer than `limit` are in the window, the one `limit` back has left it.
LEMMA RoomInWindow ==
    ASSUME NEW ts \in Seq(Nat), NEW window \in Nat, NEW limit \in Nat, clock \in Nat,
           InOrder(ts), within(ts, window) < limit, NEW k \in DOMAIN ts,
           k + limit = Len(ts) + 1
    PROVE  ts[k] + window < clock
<1> DEFINE S == {i \in DOMAIN ts : InWindow(ts[i], window)}
<1>0. DOMAIN ts = 1..Len(ts) /\ Len(ts) \in Nat /\ \A i \in DOMAIN ts : ts[i] \in Nat
  OBVIOUS
<1>1. SUFFICES ASSUME InWindow(ts[k], window) PROVE FALSE
  BY <1>0 DEF InWindow
<1>2. k..Len(ts) \subseteq S
  BY <1>0, <1>1 DEF InOrder, InWindow
<1>3. S \subseteq 1..Len(ts)
  BY <1>0
<1>4. within(ts, window) = Cardinality(S)
  BY DEF within
<1> HIDE DEF S
<1>5. PICK n \in Nat : n = Len(ts)
  BY <1>0
<1>6. IsFiniteSet(S) /\ Cardinality(S) \in Nat
  <2>1. 1 \in Nat /\ 1 <= n + 1 /\ S \subseteq 1..n
    BY <1>3, <1>5
  <2>2. QED
    BY <2>1, AtMostInRange
<1>7. Cardinality(S) >= n - k + 1
  <2>1. k \in Nat /\ k <= n + 1 /\ k..n \subseteq S
    BY <1>0, <1>2, <1>5
  <2>2. QED
    BY <2>1, <1>6, AtLeastRange
<1>8. QED
  BY <1>0, <1>4, <1>5, <1>6, <1>7

\* The budget's properties follow from the spacing.
LEMMA SpacedKeepsTheBudget ==
    ASSUME BudgetInv PROVE IssuesPerDay /\ CallsPerHour
<1>1. IssuesPerDay
  <2>1. SUFFICES ASSUME PerDay > 0, NEW i \in DOMAIN begun
                 PROVE  Rolling(begun, begun[i], Day) <= PerDay
    BY DEF IssuesPerDay
  <2>2. begun \in Seq(Nat) /\ begun[i] \in Nat /\ Spaced(begun, PerDay, Day)
    BY <2>1 DEF BudgetInv, BudgetTypeOK, AllSpaced
  <2>3. \A k, j \in DOMAIN begun : k <= j => begun[k] <= begun[j]
    BY DEF BudgetInv, AllInOrder, InOrder
  <2>4. QED
    BY <2>2, <2>3, BudgetConstants, SpacedAreFew
<1>2. CallsPerHour
  <2>1. SUFFICES ASSUME PerHour > 0, NEW i \in DOMAIN called
                 PROVE  Rolling(called, called[i], Hour) < PerHour + CallsPerIssue
    BY DEF CallsPerHour
  <2>2. PICK limit \in Nat : limit = PerHour + CallsPerIssue - 1
    BY <2>1, BudgetConstants
  <2>3. called \in Seq(Nat) /\ called[i] \in Nat /\ Spaced(called, limit, Hour)
    BY <2>1, <2>2 DEF BudgetInv, BudgetTypeOK, AllSpaced
  <2>4. \A k, j \in DOMAIN called : k <= j => called[k] <= called[j]
    BY DEF BudgetInv, AllInOrder, InOrder
  <2>5. Rolling(called, called[i], Hour) <= limit
    BY <2>3, <2>4, BudgetConstants, SpacedAreFew
  <2>6. Rolling(called, called[i], Hour) \in Nat
    <3>1. {j \in DOMAIN called : called[j] <= called[i] /\ called[i] <= called[j] + Hour}
              \subseteq 1..Len(called)
      BY <2>3
    <3>2. QED
      BY <3>1, <2>3, AtMostInRange DEF Rolling
  <2>7. QED
    BY <2>2, <2>5, <2>6, BudgetConstants
<1>3. QED
  BY <1>1, <1>2

-----------------------------------------------------------------------------
\* Time alone takes nothing away.
LEMMA TickKeepsInv == ASSUME BudgetInv, Tick PROVE BudgetInv'
<1> USE BudgetConstants
<1>0. /\ clock \in Nat /\ clock' = clock + 1
      /\ UNCHANGED <<calls, issues, runner, consecutive, called, begun>>
      /\ calls \in Seq(Nat) /\ issues \in Seq(Nat) /\ called \in Seq(Nat) /\ begun \in Seq(Nat)
  BY DEF Tick, BudgetInv, BudgetTypeOK
<1>1. BudgetTypeOK'
  BY <1>0 DEF BudgetInv, BudgetTypeOK
<1>2. AllInOrder'
  <2>1. \A t \in Nat : t <= clock => t <= clock'
    BY <1>0
  <2>2. /\ \A i \in DOMAIN calls : calls[i] \in Nat
        /\ \A i \in DOMAIN issues : issues[i] \in Nat
        /\ \A i \in DOMAIN called : called[i] \in Nat
        /\ \A i \in DOMAIN begun : begun[i] \in Nat
    BY <1>0
  <2>3. QED
    BY <1>0, <2>1, <2>2 DEF BudgetInv, AllInOrder, InOrder
<1>3. Over' = Over /\ Over <= Len(begun) /\ Over \in Int
  BY <1>0 DEF Over
<1>4. IssuesAreCounted'
  <2>1. \A j \in 1..(Over - Len(issues)) : begun[j] \in Nat /\ begun[j] + Day < clock
    <3>1. \A j \in 1..(Over - Len(issues)) : j \in 1..Len(begun)
      BY <1>0, <1>3
    <3>2. QED
      BY <1>0, <3>1 DEF BudgetInv, IssuesAreCounted
  <2>2. \A j \in 1..(Over - Len(issues)) : begun[j] + Day < clock'
    BY <1>0, <2>1
  <2>3. QED
    BY <1>0, <1>3, <2>2 DEF BudgetInv, IssuesAreCounted
<1>5. CallsAreCounted'
  <2>1. \A j \in 1..(Len(called) - Len(calls)) : called[j] \in Nat /\ called[j] + Hour < clock
    <3>1. \A j \in 1..(Len(called) - Len(calls)) : j \in 1..Len(called)
      BY <1>0
    <3>2. QED
      BY <1>0, <3>1 DEF BudgetInv, CallsAreCounted
  <2>2. \A j \in 1..(Len(called) - Len(calls)) : called[j] + Hour < clock'
    BY <1>0, <2>1
  <2>3. QED
    BY <1>0, <2>2 DEF BudgetInv, CallsAreCounted
<1>6. BegunWithinBudget'
  <2>1. \A j \in DOMAIN called : called[j] \in Nat
    BY <1>0
  <2>2. \A j \in DOMAIN called : called[j] + Hour < clock => called[j] + Hour < clock'
    BY <1>0, <2>1
  <2>3. QED
    BY <1>0, <2>2 DEF BudgetInv, BegunWithinBudget
<1>7. AllSpaced'
  BY <1>0 DEF BudgetInv, AllSpaced, Spaced
<1>8. QED
  BY <1>1, <1>2, <1>4, <1>5, <1>6, <1>7 DEF BudgetInv

\* What any step of the loop other than Ask, Invoke and Worked leaves alone is all there is.
LEMMA WaitingKeepsInv ==
    ASSUME BudgetInv, DOMAIN runner' = {"pc", "made", "until"},
           runner'.pc \in {"cycle", "waiting", "finished"}, runner.pc # "working",
           runner'.made \in {0, runner.made},
           UNCHANGED <<clock, calls, issues, called, begun>>
    PROVE  BudgetInv'
<1> USE BudgetConstants
<1>1. BudgetTypeOK'
  BY DEF BudgetInv, BudgetTypeOK
<1>2. AllInOrder'
  BY DEF BudgetInv, AllInOrder, InOrder
<1>3. Over' = Over
  BY DEF Over
<1>4. IssuesAreCounted'
  BY <1>3 DEF BudgetInv, IssuesAreCounted
<1>5. CallsAreCounted'
  BY DEF BudgetInv, CallsAreCounted
<1>6. BegunWithinBudget'
  BY DEF BudgetInv, BegunWithinBudget, BudgetTypeOK
<1>7. AllSpaced'
  BY DEF BudgetInv, AllSpaced, Spaced
<1>8. QED
  BY <1>1, <1>2, <1>4, <1>5, <1>6, <1>7 DEF BudgetInv

\* What a failure makes of the loop.
LEMMA ToleratedRunner ==
    ASSUME tolerate
    PROVE  /\ DOMAIN runner' = {"pc", "made", "until"}
           /\ runner'.pc \in {"waiting", "finished"}
           /\ runner'.made = 0
<1> DEFINE t == clock + waitMs(consecutive')
<1>1. \/ runner' = [AtRest EXCEPT !.pc = "finished"]
      \/ runner' = [AtRest EXCEPT !.pc = "waiting", !.until = t]
  BY DEF tolerate
<1> HIDE DEF t
<1> QED
  BY <1>1 DEF AtRest

\* A failure of the cycle, and the wait after it.
LEMMA CycleFailsKeepsInv == ASSUME BudgetInv, CycleFails \/ Waited PROVE BudgetInv'
<1>0. DOMAIN runner = {"pc", "made", "until"}
  BY DEF BudgetInv, BudgetTypeOK
<1>1. CASE CycleFails
  <2>1. /\ DOMAIN runner' = {"pc", "made", "until"}
        /\ runner'.pc \in {"waiting", "finished"}
        /\ runner'.made = 0
    BY <1>1, ToleratedRunner DEF CycleFails
  <2>2. runner.pc # "working" /\ UNCHANGED <<clock, calls, issues, called, begun>>
    BY <1>1 DEF CycleFails
  <2>3. QED
    BY <2>1, <2>2, WaitingKeepsInv
<1>2. CASE Waited
  <2>1. /\ DOMAIN runner' = {"pc", "made", "until"}
        /\ runner'.pc = "cycle" /\ runner'.made = 0
    BY <1>2 DEF Waited, AtRest
  <2>2. runner.pc # "working" /\ UNCHANGED <<clock, calls, issues, called, begun>>
    BY <1>2 DEF Waited
  <2>3. QED
    BY <2>1, <2>2, WaitingKeepsInv
<1>3. QED
  BY <1>1, <1>2

\* An issue whose work throws is struck from the issues that are counted, before it was.
LEMMA WorkFailsKeepsInv == ASSUME BudgetInv, WorkFails PROVE BudgetInv'
<1> USE BudgetConstants
<1>0. /\ clock \in Nat /\ UNCHANGED <<clock, calls, issues, called>>
      /\ runner.pc = "working" /\ begun \in Seq(Nat) /\ begun # <<>>
      /\ begun' = SubSeq(begun, 1, Len(begun) - 1)
  BY DEF WorkFails, BudgetInv, BudgetTypeOK, IssuesAreCounted
<1>1. /\ DOMAIN runner' = {"pc", "made", "until"}
      /\ runner'.pc \in {"waiting", "finished"} /\ runner'.made = 0
  BY ToleratedRunner DEF WorkFails
<1>2. PICK n \in Nat : Len(begun) = n + 1
  <2>1. Len(begun) \in Nat /\ Len(begun) # 0
    BY <1>0
  <2>2. Len(begun) - 1 \in Nat /\ Len(begun) = (Len(begun) - 1) + 1
    BY <2>1
  <2>3. QED
    BY <2>2
<1>3. /\ begun' \in Seq(Nat) /\ Len(begun') = n
      /\ DOMAIN begun' = 1..n /\ DOMAIN begun = 1..(n + 1)
      /\ \A j \in 1..n : begun'[j] = begun[j]
      /\ \A j \in 1..n : j \in 1..(n + 1)
  BY <1>0, <1>2
<1>4. BudgetTypeOK'
  <2>1. called' \in Seq(Nat) /\ calls' \in Seq(Nat) /\ issues' \in Seq(Nat) /\ clock' \in Nat
    BY <1>0 DEF BudgetInv, BudgetTypeOK
  <2>2. QED
    BY <1>1, <1>3, <2>1 DEF BudgetTypeOK
<1>5. AllInOrder'
  <2>1. InOrder(calls)' /\ InOrder(issues)' /\ InOrder(called)'
    BY <1>0 DEF BudgetInv, AllInOrder, InOrder
  <2>2. InOrder(begun)
    BY DEF BudgetInv, AllInOrder
  <2>3. InOrder(begun)'
    BY <1>0, <1>3, <2>2 DEF InOrder
  <2>4. QED
    BY <2>1, <2>3 DEF AllInOrder
<1>6. Over = n /\ Over' = n
  BY <1>0, <1>1, <1>2, <1>3 DEF Over
<1>7. IssuesAreCounted'
  <2>1. PICK l \in Nat : Len(issues) = l /\ DOMAIN issues = 1..l /\ l <= n
    <3>1. issues \in Seq(Nat) /\ Len(issues) <= n
      BY <1>6 DEF BudgetInv, BudgetTypeOK, IssuesAreCounted
    <3>2. QED
      BY <3>1
  <2>2. \A k \in 1..l : begun'[n - l + k] <= issues[k]
    <3>1. \A k \in 1..l : n - l + k \in 1..n
      BY <2>1
    <3>2. \A k \in 1..l : begun[n - l + k] <= issues[k]
      BY <1>6, <2>1 DEF BudgetInv, IssuesAreCounted
    <3>3. QED
      BY <1>3, <3>1, <3>2
  <2>3. \A j \in 1..(n - l) : begun'[j] + Day < clock
    <3>1. \A j \in 1..(n - l) : j \in 1..n
      BY <2>1
    <3>2. \A j \in 1..(n - l) : begun[j] + Day < clock
      BY <1>6, <2>1 DEF BudgetInv, IssuesAreCounted
    <3>3. QED
      BY <1>3, <3>1, <3>2
  <2>4. QED
    BY <1>0, <1>1, <1>6, <2>1, <2>2, <2>3 DEF IssuesAreCounted
<1>8. CallsAreCounted'
  BY <1>0 DEF BudgetInv, CallsAreCounted
<1>9. BegunWithinBudget'
  <2>1. called \in Seq(Nat)
    BY DEF BudgetInv, BudgetTypeOK
  <2>2. 0 <= Len(called)
    BY <2>1
  <2>3. QED
    BY <1>0, <1>1, <2>2 DEF BegunWithinBudget
<1>10. AllSpaced'
  <2>1. ASSUME PerDay > 0 PROVE Spaced(begun', PerDay, Day)
    <3>1. Spaced(begun, PerDay, Day)
      BY <2>1 DEF BudgetInv, AllSpaced
    <3>2. \A i \in 1..n : i + PerDay \in 1..n
              => /\ i \in DOMAIN begun /\ i + PerDay \in DOMAIN begun
                 /\ begun'[i] = begun[i] /\ begun'[i + PerDay] = begun[i + PerDay]
      BY <1>3
    <3>3. QED
      BY <1>3, <3>1, <3>2 DEF Spaced
  <2>2. QED
    BY <1>0, <2>1 DEF BudgetInv, AllSpaced, Spaced
<1>11. QED
  BY <1>4, <1>5, <1>7, <1>8, <1>9, <1>10 DEF BudgetInv

-----------------------------------------------------------------------------
\* Pruned invocations are still the last of them.
LEMMA PrunedCallsAreCounted ==
    ASSUME BudgetInv
    PROVE  /\ pruned.calls \in Seq(Nat) /\ InOrder(pruned.calls)
           /\ Len(pruned.calls) <= Len(called)
           /\ \A k \in DOMAIN pruned.calls :
                  pruned.calls[k] = called[Len(called) - Len(pruned.calls) + k]
           /\ \A j \in 1..(Len(called) - Len(pruned.calls)) : called[j] + Hour < clock
<1> USE BudgetConstants
<1>0. pruned.calls = Shifted(calls, Hour)
  BY DEF pruned
<1>1. clock \in Nat /\ calls \in Seq(Nat) /\ called \in Seq(Nat) /\ InOrder(calls)
  BY DEF BudgetInv, BudgetTypeOK, AllInOrder
<1>2. PICK us \in Seq(Nat), d \in 0..Len(calls) :
         /\ us = Shifted(calls, Hour)
         /\ Len(us) = Len(calls) - d
         /\ \A k \in 1..(Len(calls) - d) : us[k] = calls[d + k]
         /\ \A j \in 1..d : calls[j] + Hour < clock
  BY <1>1, ShiftedIsASuffix
<1>3. InOrder(us)
  BY <1>1, <1>2, SuffixInOrder
<1>4. PICK n \in Nat, m \in Nat, l \in Nat : n = Len(called) /\ m = Len(calls) /\ l = Len(us)
  BY <1>1
<1>5. d \in Nat /\ d <= m /\ l = m - d /\ m <= n
  BY <1>2, <1>4 DEF BudgetInv, CallsAreCounted
<1>6. /\ \A k \in 1..m : calls[k] = called[n - m + k]
      /\ \A j \in 1..(n - m) : called[j] + Hour < clock
  <2>1. DOMAIN calls = 1..m
    BY <1>1, <1>4
  <2>2. \A k \in DOMAIN calls : calls[k] = called[n - m + k]
    BY <1>4 DEF BudgetInv, CallsAreCounted
  <2>3. \A j \in 1..(n - m) : called[j] + Hour < clock
    BY <1>4 DEF BudgetInv, CallsAreCounted
  <2>4. QED
    BY <2>1, <2>2, <2>3
<1>7. ASSUME NEW k \in 1..l PROVE us[k] = called[n - l + k]
  <2>1. us[k] = calls[d + k] /\ d + k \in 1..m
    BY <1>2, <1>4, <1>5
  <2>2. n - m + (d + k) = n - l + k
    BY <1>5
  <2>3. QED
    BY <1>6, <2>1, <2>2
<1>8. ASSUME NEW j \in 1..(n - l) PROVE called[j] + Hour < clock
  <2>1. CASE j <= n - m
    BY <1>5, <1>6, <2>1
  <2>2. CASE ~(j <= n - m)
    <3>1. PICK i \in 1..d : j = n - m + i
      <4>1. j - (n - m) \in 1..d /\ j = n - m + (j - (n - m))
        BY <1>5, <2>2
      <4>2. QED
        BY <4>1
    <3>2. calls[i] = called[j] /\ calls[i] + Hour < clock
      BY <1>2, <1>5, <1>6, <3>1
    <3>3. QED
      BY <3>2
  <2>3. QED
    BY <2>1, <2>2
<1>9. DOMAIN us = 1..l
  BY <1>4
<1>10. Len(us) <= Len(called)
  <2>1. l <= n
    BY <1>5
  <2>2. QED
    BY <1>4, <2>1
<1>11. \A k \in DOMAIN us : us[k] = called[Len(called) - Len(us) + k]
  BY <1>4, <1>7, <1>9
<1>12. \A j \in 1..(Len(called) - Len(us)) : called[j] + Hour < clock
  BY <1>4, <1>8
<1>13. us = pruned.calls
  BY <1>0, <1>2
<1>14. QED
  BY <1>3, <1>10, <1>11, <1>12, <1>13

\* Pruned issues are still the last that were finished, each later than it was begun.
LEMMA PrunedIssuesAreCounted ==
    ASSUME BudgetInv
    PROVE  /\ pruned.issues \in Seq(Nat) /\ InOrder(pruned.issues)
           /\ Len(pruned.issues) <= Over
           /\ \A k \in DOMAIN pruned.issues :
                  begun[Over - Len(pruned.issues) + k] <= pruned.issues[k]
           /\ \A j \in 1..(Over - Len(pruned.issues)) : begun[j] + Day < clock
<1> USE BudgetConstants
<1>0. pruned.issues = Shifted(issues, Day)
  BY DEF pruned
<1>1. clock \in Nat /\ issues \in Seq(Nat) /\ begun \in Seq(Nat) /\ InOrder(issues)
  BY DEF BudgetInv, BudgetTypeOK, AllInOrder
<1>2. PICK us \in Seq(Nat), d \in 0..Len(issues) :
         /\ us = Shifted(issues, Day)
         /\ Len(us) = Len(issues) - d
         /\ \A k \in 1..(Len(issues) - d) : us[k] = issues[d + k]
         /\ \A j \in 1..d : issues[j] + Day < clock
  BY <1>1, ShiftedIsASuffix
<1>3. InOrder(us)
  BY <1>1, <1>2, SuffixInOrder
<1>4. PICK n \in Nat, m \in Nat, l \in Nat : n = Over /\ m = Len(issues) /\ l = Len(us)
  <2>1. Over \in Nat
    <3>1. Len(begun) \in Nat /\ (begun # <<>> => Len(begun) - 1 \in Nat)
      BY <1>1
    <3>2. QED
      BY <3>1 DEF BudgetInv, IssuesAreCounted, Over
  <2>2. Len(issues) \in Nat /\ Len(us) \in Nat
    BY <1>1
  <2>3. QED
    BY <2>1, <2>2
<1>5. d \in Nat /\ d <= m /\ l = m - d /\ m <= n /\ n <= Len(begun)
  BY <1>1, <1>2, <1>4 DEF BudgetInv, IssuesAreCounted, Over
<1>6. /\ \A k \in 1..m : begun[n - m + k] <= issues[k]
      /\ \A j \in 1..(n - m) : begun[j] + Day < clock
      /\ \A k \in 1..m : issues[k] \in Nat
      /\ \A k \in 1..n : begun[k] \in Nat
  <2>1. DOMAIN issues = 1..m /\ \A k \in DOMAIN issues : issues[k] \in Nat
    BY <1>1, <1>4
  <2>2. \A k \in 1..n : begun[k] \in Nat
    BY <1>1, <1>5
  <2>3. \A k \in DOMAIN issues : begun[n - m + k] <= issues[k]
    BY <1>4 DEF BudgetInv, IssuesAreCounted
  <2>4. \A j \in 1..(n - m) : begun[j] + Day < clock
    BY <1>4 DEF BudgetInv, IssuesAreCounted
  <2>5. QED
    BY <2>1, <2>2, <2>3, <2>4
<1>7. ASSUME NEW k \in 1..l PROVE begun[n - l + k] <= us[k]
  <2>1. us[k] = issues[d + k] /\ d + k \in 1..m
    BY <1>2, <1>4, <1>5
  <2>2. n - m + (d + k) = n - l + k
    BY <1>5
  <2>3. QED
    BY <1>6, <2>1, <2>2
<1>8. ASSUME NEW j \in 1..(n - l) PROVE begun[j] + Day < clock
  <2>1. CASE j <= n - m
    BY <1>5, <1>6, <2>1
  <2>2. CASE ~(j <= n - m)
    <3>1. PICK i \in 1..d : j = n - m + i
      <4>1. j - (n - m) \in 1..d /\ j = n - m + (j - (n - m))
        BY <1>5, <2>2
      <4>2. QED
        BY <4>1
    <3>2. begun[j] <= issues[i] /\ issues[i] + Day < clock
      BY <1>2, <1>5, <1>6, <3>1
    <3>3. issues[i] \in Nat /\ begun[j] \in Nat
      BY <1>5, <1>6, <3>1
    <3>4. clock \in Nat /\ Day \in Nat
      BY <1>1
    <3>5. QED
      BY <3>2, <3>3, <3>4
  <2>3. QED
    BY <2>1, <2>2
<1>9. DOMAIN us = 1..l
  BY <1>4
<1>10. Len(us) <= Over
  <2>1. l <= n
    BY <1>5
  <2>2. QED
    BY <1>4, <2>1
<1>11. \A k \in DOMAIN us : begun[Over - Len(us) + k] <= us[k]
  BY <1>4, <1>7, <1>9
<1>12. \A j \in 1..(Over - Len(us)) : begun[j] + Day < clock
  BY <1>4, <1>8
<1>13. us = pruned.issues
  BY <1>0, <1>2
<1>14. QED
  BY <1>3, <1>10, <1>11, <1>12, <1>13

-----------------------------------------------------------------------------
\* The budget is asked: what is pruned is still counted, and work begins only while there is
\* room in both windows.
LEMMA AskKeepsInv == ASSUME BudgetInv, Ask PROVE BudgetInv'
<1> USE BudgetConstants
<1>0. /\ clock \in Nat /\ clock' = clock /\ called' = called
      /\ called \in Seq(Nat) /\ begun \in Seq(Nat)
      /\ calls' = pruned.calls /\ issues' = pruned.issues
      /\ runner.pc = "cycle"
  BY DEF Ask, BudgetInv, BudgetTypeOK
<1>1. \/ Exceeded(pruned) /\ begun' = begun /\ runner' = [runner EXCEPT !.pc = "finished"]
      \/ ~Exceeded(pruned) /\ begun' = Append(begun, clock)
            /\ runner' = [AtRest EXCEPT !.pc = "working"]
  BY Zenon DEF Ask
<1>2. /\ DOMAIN runner' = {"pc", "made", "until"}
      /\ runner'.pc \in {"working", "finished"} /\ runner'.made \in {0, runner.made}
      /\ runner'.pc = "working" => runner'.made = 0
  BY <1>1 DEF AtRest, BudgetInv, BudgetTypeOK
<1>3. /\ calls' \in Seq(Nat) /\ InOrder(calls')
      /\ Len(calls') <= Len(called)
      /\ \A k \in DOMAIN calls' : calls'[k] = called[Len(called) - Len(calls') + k]
      /\ \A j \in 1..(Len(called) - Len(calls')) : called[j] + Hour < clock
  BY <1>0, PrunedCallsAreCounted
<1>4. Over = Len(begun) /\ Over' = Over
  BY <1>0, <1>1, <1>2 DEF Over, AtRest
<1>5. /\ issues' \in Seq(Nat) /\ InOrder(issues')
      /\ Len(issues') <= Len(begun)
      /\ \A k \in DOMAIN issues' : begun[Len(begun) - Len(issues') + k] <= issues'[k]
      /\ \A j \in 1..(Len(begun) - Len(issues')) : begun[j] + Day < clock
  BY <1>0, <1>4, PrunedIssuesAreCounted
<1>6. /\ begun' \in Seq(Nat)
      /\ \A j \in 1..Len(begun) : begun'[j] = begun[j]
  <2>1. CASE begun' = begun
    BY <1>0, <2>1
  <2>2. CASE begun' = Append(begun, clock)
    BY <1>0, <2>2, Pushed
  <2>3. QED
    BY <1>1, <2>1, <2>2
<1>7. InOrder(begun) /\ InOrder(called)
  BY DEF BudgetInv, AllInOrder
<1>8. BudgetTypeOK'
  <2>1. runner'.made \in 0..CallsPerIssue
    BY <1>2 DEF BudgetInv, BudgetTypeOK
  <2>2. QED
    BY <1>0, <1>2, <1>3, <1>5, <1>6, <2>1 DEF BudgetTypeOK
<1>9. AllInOrder'
  <2>1. InOrder(begun')
    BY <1>0, <1>1, <1>7, PushedInOrder
  <2>2. QED
    BY <1>0, <1>3, <1>5, <1>7, <2>1 DEF AllInOrder, InOrder
<1>10. IssuesAreCounted'
  <2>1. runner'.pc = "working" => begun' # <<>>
    <3>1. ASSUME runner'.pc = "working" PROVE begun' = Append(begun, clock)
      <4>1. runner' # [runner EXCEPT !.pc = "finished"]
        BY <3>1 DEF BudgetInv, BudgetTypeOK
      <4>2. QED
        BY <1>1, <4>1
    <3>2. QED
      BY <1>0, <3>1, Pushed
  <2>2. ASSUME NEW k \in DOMAIN issues' PROVE begun'[Len(begun) - Len(issues') + k] <= issues'[k]
    <3>1. PICK n \in Nat, l \in Nat : n = Len(begun) /\ l = Len(issues')
      <4>1. Len(begun) \in Nat
        BY <1>0
      <4>2. Len(issues') \in Nat
        BY <1>5
      <4>3. QED
        BY <4>1, <4>2
    <3>2. k \in 1..l /\ l <= n
      BY <1>5, <3>1
    <3>3. n - l + k \in 1..n
      BY <3>1, <3>2
    <3>4. QED
      BY <1>5, <1>6, <3>1, <3>3
  <2>3. ASSUME NEW j \in 1..(Len(begun) - Len(issues')) PROVE begun'[j] + Day < clock
    <3>1. PICK n \in Nat, l \in Nat : n = Len(begun) /\ l = Len(issues')
      <4>1. Len(begun) \in Nat
        BY <1>0
      <4>2. Len(issues') \in Nat
        BY <1>5
      <4>3. QED
        BY <4>1, <4>2
    <3>2. j \in 1..n
      BY <3>1
    <3>3. QED
      BY <1>5, <1>6, <3>1, <3>2
  <2>4. QED
    BY <1>0, <1>4, <1>5, <2>1, <2>2, <2>3 DEF IssuesAreCounted
<1>11. CallsAreCounted'
  BY <1>0, <1>3 DEF CallsAreCounted
<1>12. BegunWithinBudget'
  <2>1. runner'.made <= Len(called)
    BY <1>0, <1>2 DEF BudgetInv, BudgetTypeOK, BegunWithinBudget
  <2>2. ASSUME runner'.pc = "working", PerHour > 0, NEW j \in DOMAIN called,
               j = Len(called) - runner'.made + 1 - PerHour
        PROVE  called[j] + Hour < clock
    <3>1. PICK n \in Nat, l \in Nat : n = Len(called) /\ l = Len(calls')
      BY <1>0, <1>3
    <3>2. j \in 1..n /\ j = n + 1 - PerHour /\ l <= n
      BY <1>2, <1>3, <2>2, <3>1
    <3>3. CASE j <= n - l
      <4>1. j \in 1..(n - l)
        BY <3>1, <3>2, <3>3
      <4>2. QED
        BY <1>3, <3>1, <4>1
    <3>4. CASE ~(j <= n - l)
      <4>1. PICK k \in 1..l : j = n - l + k /\ k + PerHour = l + 1
        <5>1. j - (n - l) \in 1..l /\ j = n - l + (j - (n - l))
                  /\ (j - (n - l)) + PerHour = l + 1
          BY <3>1, <3>2, <3>4
        <5>2. QED
          BY <5>1
      <4>2. k \in DOMAIN calls' /\ calls'[k] = called[j]
        <5>1. DOMAIN calls' = 1..l
          BY <1>3, <3>1
        <5>2. QED
          BY <1>3, <3>1, <4>1, <5>1
      <4>3. within(calls', Hour) < PerHour
        <5>1. within(calls', Hour) \in Nat
          <6>1. {i \in DOMAIN calls' : InWindow(calls'[i], Hour)} \subseteq 1..l
            BY <1>3, <3>1
          <6>2. QED
            BY <6>1, AtMostInRange DEF within
        <5>2. ~(within(calls', Hour) >= PerHour)
          BY <1>0, <1>1, <1>2, <2>2 DEF Exceeded
        <5>3. QED
          BY <5>1, <5>2
      <4>4. k + PerHour = Len(calls') + 1
        BY <3>1, <4>1
      <4>5. PICK cs \in Seq(Nat) : cs = calls'
        BY <1>3
      <4>6. cs[k] + Hour < clock
        BY <1>0, <1>3, <4>2, <4>3, <4>4, <4>5, RoomInWindow
      <4>7. QED
        BY <4>2, <4>5, <4>6
    <3>5. QED
      BY <3>3, <3>4
  <2>3. QED
    BY <1>0, <2>1, <2>2 DEF BegunWithinBudget
<1>13. AllSpaced'
  <2>1. PerHour > 0 => Spaced(called', PerHour + CallsPerIssue - 1, Hour)
    BY <1>0 DEF BudgetInv, AllSpaced, Spaced
  <2>2. ASSUME PerDay > 0 PROVE Spaced(begun', PerDay, Day)
    <3>1. Spaced(begun, PerDay, Day)
      BY <2>2 DEF BudgetInv, AllSpaced
    <3>2. CASE begun' = begun
      BY <3>1, <3>2
    <3>3. CASE begun' # begun
      <4>1. begun' = Append(begun, clock) /\ ~Exceeded(pruned)
        BY <1>1, <3>3
      <4>2. PICK n \in Nat, l \in Nat : n = Len(begun) /\ l = Len(issues')
        BY <1>0, <1>5
      <4>3. DOMAIN begun' = 1..(n + 1) /\ begun'[n + 1] = clock /\ DOMAIN begun = 1..n
        BY <1>0, <4>1, <4>2
      <4>4. SUFFICES ASSUME NEW i \in 1..(n + 1), i + PerDay \in 1..(n + 1)
                     PROVE  begun'[i] + Day < begun'[i + PerDay]
        BY <4>3 DEF Spaced
      <4>5. i \in 1..n
        BY <2>2, <4>4
      <4>6. CASE i + PerDay \in 1..n
        BY <1>6, <3>1, <4>2, <4>3, <4>5, <4>6 DEF Spaced
      <4>7. CASE i + PerDay = n + 1
        <5>1. begun[i] + Day < clock
          <6>1. CASE i <= n - l
            <7>1. i \in 1..(n - l)
              BY <4>2, <4>5, <6>1
            <7>2. QED
              BY <1>5, <4>2, <7>1
          <6>2. CASE ~(i <= n - l)
            <7>1. PICK k \in 1..l : i = n - l + k /\ k + PerDay = l + 1
              <8>1. i - (n - l) \in 1..l /\ i = n - l + (i - (n - l))
                        /\ (i - (n - l)) + PerDay = l + 1
                BY <4>2, <4>5, <4>7, <6>2
              <8>2. QED
                BY <8>1
            <7>2. k \in DOMAIN issues' /\ begun[i] <= issues'[k]
              <8>1. DOMAIN issues' = 1..l
                BY <1>5, <4>2
              <8>2. QED
                BY <1>5, <4>2, <7>1, <8>1
            <7>3. within(issues', Day) < PerDay
              <8>1. within(issues', Day) \in Nat
                <9>1. {h \in DOMAIN issues' : InWindow(issues'[h], Day)} \subseteq 1..l
                  BY <1>5, <4>2
                <9>2. QED
                  BY <9>1, AtMostInRange DEF within
              <8>2. ~(within(issues', Day) >= PerDay)
                BY <1>0, <2>2, <4>1 DEF Exceeded
              <8>3. QED
                BY <8>1, <8>2
            <7>4. k + PerDay = Len(issues') + 1
              BY <4>2, <7>1
            <7>5. PICK us \in Seq(Nat) : us = issues'
              BY <1>5
            <7>6. us[k] + Day < clock
              BY <1>0, <1>5, <7>2, <7>3, <7>4, <7>5, RoomInWindow
            <7>7. us[k] \in Nat /\ begun[i] \in Nat /\ begun[i] <= us[k] /\ clock \in Nat
              <8>1. k \in DOMAIN us
                BY <7>2, <7>5
              <8>2. us[k] \in Nat
                BY <7>5, <8>1
              <8>3. i \in DOMAIN begun
                BY <4>3, <4>5
              <8>4. begun[i] \in Nat
                BY <1>0, <8>3
              <8>5. QED
                BY <1>0, <7>2, <7>5, <8>2, <8>4
            <7>8. QED
              BY <7>6, <7>7
          <6>3. QED
            BY <6>1, <6>2
        <5>2. QED
          BY <1>6, <4>2, <4>3, <4>5, <4>7, <5>1
      <4>8. QED
        BY <4>2, <4>4, <4>6, <4>7
    <3>4. QED
      BY <3>2, <3>3
  <2>3. QED
    BY <2>1, <2>2 DEF AllSpaced, Spaced
<1>14. QED
  BY <1>8, <1>9, <1>10, <1>11, <1>12, <1>13 DEF BudgetInv

\* An invocation is recorded where it is made; the issue at hand makes no more than its share.
LEMMA InvokeKeepsInv == ASSUME BudgetInv, Invoke PROVE BudgetInv'
<1> USE BudgetConstants
<1>0. /\ clock \in Nat /\ clock' = clock /\ issues' = issues /\ begun' = begun
      /\ called \in Seq(Nat) /\ calls \in Seq(Nat)
      /\ calls' = Append(calls, clock) /\ called' = Append(called, clock)
      /\ runner.pc = "working" /\ runner.made \in Nat /\ runner.made < CallsPerIssue
      /\ runner' = [runner EXCEPT !.made = runner.made + 1]
      /\ DOMAIN runner = {"pc", "made", "until"}
  BY DEF Invoke, BudgetInv, BudgetTypeOK
<1>1. /\ DOMAIN runner' = {"pc", "made", "until"}
      /\ runner'.pc = "working" /\ runner'.made = runner.made + 1
  BY <1>0
<1>2. PICK n \in Nat, l \in Nat, made \in Nat :
         n = Len(called) /\ l = Len(calls) /\ made = runner.made
  <2>1. Len(called) \in Nat /\ Len(calls) \in Nat /\ runner.made \in Nat
    BY <1>0
  <2>2. QED
    BY <2>1
<1>3. /\ called' \in Seq(Nat) /\ Len(called') = n + 1 /\ called'[n + 1] = clock
      /\ \A j \in 1..n : called'[j] = called[j]
      /\ DOMAIN called = 1..n /\ DOMAIN called' = 1..(n + 1)
  BY <1>0, <1>2, Pushed
<1>4. /\ calls' \in Seq(Nat) /\ Len(calls') = l + 1 /\ calls'[l + 1] = clock
      /\ \A j \in 1..l : calls'[j] = calls[j]
      /\ DOMAIN calls = 1..l /\ DOMAIN calls' = 1..(l + 1)
  BY <1>0, <1>2, Pushed
<1>5. l <= n /\ made <= n /\ made < CallsPerIssue
  BY <1>0, <1>2 DEF BudgetInv, CallsAreCounted, BegunWithinBudget
<1>6. BudgetTypeOK'
  <2>1. runner'.made \in 0..CallsPerIssue
    BY <1>0, <1>1
  <2>2. QED
    BY <1>0, <1>1, <1>3, <1>4, <2>1 DEF BudgetInv, BudgetTypeOK
<1>7. AllInOrder'
  <2>1. InOrder(calls') /\ InOrder(called')
    BY <1>0, PushedInOrder DEF BudgetInv, AllInOrder
  <2>2. QED
    BY <1>0, <2>1 DEF BudgetInv, AllInOrder, InOrder
<1>8. IssuesAreCounted'
  <2>1. Over' = Over
    BY <1>0, <1>1 DEF Over
  <2>2. QED
    BY <1>0, <1>1, <2>1 DEF BudgetInv, IssuesAreCounted
<1>9. CallsAreCounted'
  <2>1. \A k \in 1..l : calls[k] = called[n - l + k]
    BY <1>2, <1>4 DEF BudgetInv, CallsAreCounted
  <2>2. ASSUME NEW k \in 1..(l + 1) PROVE calls'[k] = called'[(n + 1) - (l + 1) + k]
    <3>1. (n + 1) - (l + 1) + k = n - l + k
      OBVIOUS
    <3>2. CASE k = l + 1
      <4>1. n - l + k = n + 1
        BY <3>2
      <4>2. QED
        BY <1>3, <1>4, <3>1, <3>2, <4>1
    <3>3. CASE k \in 1..l
      <4>1. n - l + k \in 1..n
        BY <1>5, <3>3
      <4>2. QED
        BY <1>3, <1>4, <2>1, <3>1, <3>3, <4>1
    <3>4. QED
      BY <3>2, <3>3
  <2>3. ASSUME NEW j \in 1..((n + 1) - (l + 1)) PROVE called'[j] + Hour < clock
    <3>1. j \in 1..(n - l) /\ j \in 1..n
      BY <1>5
    <3>2. called[j] + Hour < clock
      BY <1>2, <3>1 DEF BudgetInv, CallsAreCounted
    <3>3. QED
      BY <1>3, <3>1, <3>2
  <2>4. Len(calls') <= Len(called')
    BY <1>3, <1>4, <1>5
  <2>5. \A k \in DOMAIN calls' : calls'[k] = called'[Len(called') - Len(calls') + k]
    BY <1>3, <1>4, <2>2
  <2>6. \A j \in 1..(Len(called') - Len(calls')) : called'[j] + Hour < clock'
    BY <1>0, <1>3, <1>4, <2>3
  <2>7. QED
    BY <2>4, <2>5, <2>6 DEF CallsAreCounted
<1>10. \A j \in 1..n : PerHour > 0 /\ j = n - made + 1 - PerHour => called[j] + Hour < clock
  BY <1>0, <1>2, <1>3 DEF BudgetInv, BegunWithinBudget
<1>11. BegunWithinBudget'
  <2>1. runner'.made <= Len(called')
    BY <1>1, <1>2, <1>3, <1>5
  <2>2. ASSUME PerHour > 0, NEW j \in DOMAIN called',
               j = Len(called') - runner'.made + 1 - PerHour
        PROVE  called'[j] + Hour < clock
    <3>1. j \in 1..(n + 1) /\ j = (n + 1) - (made + 1) + 1 - PerHour
      BY <1>1, <1>2, <1>3, <2>2
    <3>2. j \in 1..n /\ j = n - made + 1 - PerHour
      BY <2>2, <3>1
    <3>3. QED
      BY <1>3, <1>10, <2>2, <3>2
  <2>3. QED
    BY <1>0, <2>1, <2>2 DEF BegunWithinBudget
<1>12. AllSpaced'
  <2>1. PerDay > 0 => Spaced(begun', PerDay, Day)
    BY <1>0 DEF BudgetInv, AllSpaced, Spaced
  <2>2. ASSUME PerHour > 0 PROVE Spaced(called', PerHour + CallsPerIssue - 1, Hour)
    <3>1. PICK limit \in Nat : limit = PerHour + CallsPerIssue - 1
      BY <2>2
    <3>2. Spaced(called, limit, Hour)
      BY <2>2, <3>1 DEF BudgetInv, AllSpaced
    <3>3. SUFFICES ASSUME NEW i \in 1..(n + 1), i + limit \in 1..(n + 1)
                   PROVE  called'[i] + Hour < called'[i + limit]
      BY <1>3, <3>1 DEF Spaced
    <3>4. limit > 0
      BY <1>5, <2>2, <3>1
    <3>5. i \in 1..n
      BY <3>3, <3>4
    <3>6. CASE i + limit \in 1..n
      BY <1>3, <3>2, <3>5, <3>6 DEF Spaced
    <3>7. CASE i + limit = n + 1
      <4>1. PICK j \in Int : j = n - made + 1 - PerHour
        OBVIOUS
      <4>2. i <= j /\ j \in 1..n
        BY <1>5, <2>2, <3>1, <3>5, <3>7, <4>1
      <4>3. called[j] + Hour < clock
        BY <1>10, <2>2, <4>1, <4>2
      <4>4. called[i] <= called[j]
        <5>1. i \in DOMAIN called /\ j \in DOMAIN called /\ i <= j
          BY <1>3, <3>5, <4>2
        <5>2. QED
          BY <5>1 DEF BudgetInv, AllInOrder, InOrder
      <4>5. called[i] \in Nat /\ called[j] \in Nat
        <5>1. called \in Seq(Nat) /\ DOMAIN called = 1..n
          BY <1>0, <1>3
        <5>2. QED
          BY <3>5, <4>2, <5>1
      <4>6. called[i] + Hour < clock
        <5>1. clock \in Nat /\ Hour \in Nat
          BY <1>0
        <5>2. QED
          BY <4>3, <4>4, <4>5, <5>1
      <4>7. called'[i] = called[i] /\ called'[i + limit] = clock
        BY <1>3, <3>5, <3>7
      <4>8. QED
        BY <4>6, <4>7
    <3>8. QED
      BY <3>3, <3>6, <3>7
  <2>3. QED
    BY <2>1, <2>2 DEF AllSpaced, Spaced
<1>13. QED
  BY <1>6, <1>7, <1>8, <1>9, <1>11, <1>12 DEF BudgetInv

\* An issue is counted when its work is over, later than it was begun.
LEMMA WorkedKeepsInv == ASSUME BudgetInv, Worked PROVE BudgetInv'
<1> USE BudgetConstants
<1>0. /\ clock \in Nat /\ clock' = clock /\ calls' = calls /\ called' = called /\ begun' = begun
      /\ issues \in Seq(Nat) /\ begun \in Seq(Nat)
      /\ issues' = Append(issues, clock)
      /\ runner.pc = "working" /\ runner' = AtRest
  BY DEF Worked, BudgetInv, BudgetTypeOK
<1>1. runner'.pc = "cycle" /\ runner'.made = 0 /\ DOMAIN runner' = {"pc", "made", "until"}
  BY <1>0 DEF AtRest
<1>2. PICK n \in Nat, l \in Nat : n = Len(begun) /\ l = Len(issues)
  BY <1>0
<1>3. /\ issues' \in Seq(Nat) /\ Len(issues') = l + 1 /\ issues'[l + 1] = clock
      /\ \A j \in 1..l : issues'[j] = issues[j]
      /\ DOMAIN issues = 1..l /\ DOMAIN issues' = 1..(l + 1) /\ DOMAIN begun = 1..n
  BY <1>0, <1>2, Pushed
<1>4. Over = n - 1 /\ Over' = n
  BY <1>0, <1>1, <1>2 DEF Over
<1>5. l <= n - 1
  BY <1>2, <1>4 DEF BudgetInv, IssuesAreCounted
<1>6. BudgetTypeOK'
  BY <1>0, <1>1, <1>3 DEF BudgetInv, BudgetTypeOK
<1>7. AllInOrder'
  <2>1. InOrder(issues')
    BY <1>0, PushedInOrder DEF BudgetInv, AllInOrder
  <2>2. QED
    BY <1>0, <2>1 DEF BudgetInv, AllInOrder, InOrder
<1>8. IssuesAreCounted'
  <2>1. \A k \in 1..l : begun[n - 1 - l + k] <= issues[k]
    BY <1>2, <1>3, <1>4 DEF BudgetInv, IssuesAreCounted
  <2>2. ASSUME NEW k \in 1..(l + 1) PROVE begun[n - (l + 1) + k] <= issues'[k]
    <3>1. CASE k = l + 1
      <4>1. n - (l + 1) + k = n /\ n \in 1..n
        BY <1>5, <3>1
      <4>2. begun[n] <= clock
        BY <1>3, <4>1 DEF BudgetInv, AllInOrder, InOrder
      <4>3. QED
        BY <1>3, <3>1, <4>1, <4>2
    <3>2. CASE k \in 1..l
      <4>1. n - (l + 1) + k = n - 1 - l + k
        OBVIOUS
      <4>2. QED
        BY <1>3, <2>1, <3>2, <4>1
    <3>3. QED
      BY <3>1, <3>2
  <2>3. ASSUME NEW j \in 1..(n - (l + 1)) PROVE begun[j] + Day < clock
    <3>1. j \in 1..(n - 1 - l)
      BY <1>5
    <3>2. QED
      BY <1>2, <1>4, <3>1 DEF BudgetInv, IssuesAreCounted
  <2>4. Len(issues') <= Over'
    BY <1>3, <1>4, <1>5
  <2>5. \A k \in DOMAIN issues' : begun'[Over' - Len(issues') + k] <= issues'[k]
    BY <1>0, <1>3, <1>4, <2>2
  <2>6. \A j \in 1..(Over' - Len(issues')) : begun'[j] + Day < clock'
    BY <1>0, <1>3, <1>4, <2>3
  <2>7. QED
    BY <1>1, <2>4, <2>5, <2>6 DEF IssuesAreCounted
<1>9. CallsAreCounted'
  BY <1>0 DEF BudgetInv, CallsAreCounted
<1>10. BegunWithinBudget'
  <2>1. called \in Seq(Nat)
    BY DEF BudgetInv, BudgetTypeOK
  <2>2. 0 <= Len(called)
    BY <2>1
  <2>3. QED
    BY <1>0, <1>1, <2>2 DEF BegunWithinBudget
<1>11. AllSpaced'
  BY <1>0 DEF BudgetInv, AllSpaced, Spaced
<1>12. QED
  BY <1>6, <1>7, <1>8, <1>9, <1>10, <1>11 DEF BudgetInv

\* Nothing has been counted at first.
LEMMA BudgetInitKeepsInv == BudgetInit => BudgetInv
<1> USE BudgetConstants
<1>1. SUFFICES ASSUME BudgetInit PROVE BudgetInv
  OBVIOUS
<1>2. BudgetTypeOK
  BY <1>1 DEF BudgetInit, BudgetTypeOK, AtRest
<1>3. /\ Len(begun) = 0 /\ Len(called) = 0 /\ Len(calls) = 0 /\ Len(issues) = 0
      /\ DOMAIN begun = {} /\ DOMAIN called = {} /\ DOMAIN calls = {} /\ DOMAIN issues = {}
      /\ runner.pc = "cycle" /\ runner.made = 0
  BY <1>1 DEF BudgetInit, AtRest
<1>4. AllInOrder
  BY <1>3 DEF AllInOrder, InOrder
<1>5. IssuesAreCounted
  BY <1>3 DEF IssuesAreCounted, Over
<1>6. CallsAreCounted /\ BegunWithinBudget
  BY <1>3 DEF CallsAreCounted, BegunWithinBudget
<1>7. AllSpaced
  BY <1>3 DEF AllSpaced, Spaced
<1>8. QED
  BY <1>2, <1>4, <1>5, <1>6, <1>7 DEF BudgetInv

\* Every step of the loop keeps the invariant.
LEMMA BudgetNextKeepsInv == BudgetInv /\ [BudgetNext]_budgetVars => BudgetInv'
<1>1. SUFFICES ASSUME BudgetInv, [BudgetNext]_budgetVars PROVE BudgetInv'
  OBVIOUS
<1>2. CASE UNCHANGED budgetVars
  BY <1>1, <1>2 DEF budgetVars, BudgetInv, BudgetTypeOK, AllInOrder, InOrder, Over,
                    IssuesAreCounted, CallsAreCounted, BegunWithinBudget, AllSpaced, Spaced
<1>3. CASE BudgetNext
  BY <1>1, <1>3, TickKeepsInv, AskKeepsInv, InvokeKeepsInv, WorkedKeepsInv,
     CycleFailsKeepsInv, WorkFailsKeepsInv DEF BudgetNext
<1>4. QED
  BY <1>1, <1>2, <1>3

\* The invariant of the budget: what it holds are the last invocations and issues, in order,
\* and what was dropped had aged out of the window it is counted in.
THEOREM BudgetInvariance == BudgetSpec => []BudgetInv
BY BudgetInitKeepsInv, BudgetNextKeepsInv, PTL DEF BudgetSpec

\* In no rolling day is work begun on more issues than LOOP_MAX_ISSUES_PER_DAY, although an
\* issue is counted when it is finished (Budget.recordIssue); those whose work throws are
\* never counted and come on top.
THEOREM IssuesPerDayHolds == BudgetSpec => []IssuesPerDay
<1>1. BudgetInv => IssuesPerDay
  BY SpacedKeepsTheBudget
<1>2. QED
  BY <1>1, BudgetInvariance, PTL

\* In no rolling hour are there more invocations than LOOP_MAX_MODEL_INVOCATIONS_PER_HOUR,
\* but for what one issue can take (Budget.check is asked between issues).
THEOREM CallsPerHourHolds == BudgetSpec => []CallsPerHour
<1>1. BudgetInv => CallsPerHour
  BY SpacedKeepsTheBudget
<1>2. QED
  BY <1>1, BudgetInvariance, PTL
=============================================================================
