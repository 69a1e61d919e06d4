---------------------------- MODULE LoopGateProofs ----------------------------
(***************************************************************************)
(* What the gate of LoopGate guarantees, for any number of commits,        *)
(* reviews, simultaneous runs and attempts, and any faults: types and      *)
(* announcements first, then what a merge and a fix rest on.               *)
(***************************************************************************)
EXTENDS LoopGate, TLAPS
-----------------------------------------------------------------------------
\* No run carries more attempts than the policy allows.
WithinLimit == \A g \in Groups : run[g].attempts <= MaxReviewAttempts

TypeInv == TypeOK /\ WithinLimit

\* The decision is one of five, and one attempt more is within the limit.
LEMMA DecisionType ==
    ASSUME NEW r \in Run, r.attempts <= MaxReviewAttempts
    PROVE  /\ Decision(r) \in {"human_approval_required", "blocked", "changes_requested",
                               "waiting", "auto_merge"}
           /\ Counted(r) \in 0 .. MaxReviewAttempts
<1>1. Decision(r) = "changes_requested" => ~RetriesExhausted(r)
  BY DEF Decision
<1>2. r.attempts \in Nat
  BY DEF Run
<1> QED
  BY <1>1, <1>2, GateAssumption DEF Decision, Counted, RetriesExhausted

\* There is a first commit, and a limit of attempts.
LEMMA Bounds == 1 \in Heads /\ MaxReviewAttempts \in Nat /\ 0 <= MaxReviewAttempts
BY GateAssumption DEF Heads

\* The record of a group at rest is well typed, with no attempt counted.
LEMMA RestType == Rest \in Run /\ Rest.attempts = 0 /\ Rest.pc = "idle"
BY GateAssumption DEF Rest, Run, Heads, Verdicts

\* Nothing has happened to the pull request yet.
LEMMA TypeInit == Init => TypeInv
<1> SUFFICES ASSUME Init PROVE TypeInv
  OBVIOUS
<1>1. run \in [Groups -> Run] /\ WithinLimit
  BY RestType, GateAssumption DEF Init, WithinLimit
<1>2. FlagsOK
  BY Zenon DEF Init, FlagsOK
<1>3. kind \in [Heads -> Kinds] /\ ci \in [Heads -> {"none", "pending", "passing", "failing"}]
  BY Zenon DEF Init
<1>4. DataOK
  BY <1>3, GateAssumption DEF Init, DataOK, Heads
<1> QED
  BY <1>1, <1>2, <1>4 DEF TypeInv, TypeOK

\* A run of group g replaces its own record only.
LEMMA Stepped ==
    ASSUME TypeInv, NEW g \in Groups, NEW r \in Run, r.attempts <= MaxReviewAttempts,
           Become(g, r)
    PROVE  run' \in [Groups -> Run] /\ WithinLimit'
BY DEF Become, TypeInv, TypeOK, WithinLimit

\* So does one that ends or goes on.
LEMMA WentOn ==
    ASSUME TypeInv, NEW g \in Groups,
           End(g) \/ \E to \in {"context", "update", "try", "recheck", "enable", "poll",
                                "announce"} : Goto(g, to)
    PROVE  run' \in [Groups -> Run] /\ WithinLimit'
<1>1. CASE End(g)
  <2>1. Rest \in Run /\ Rest.attempts <= MaxReviewAttempts
    BY RestType, GateAssumption
  <2> QED
    BY <1>1, <2>1, Stepped DEF End
<1>2. ASSUME NEW to \in {"context", "update", "try", "recheck", "enable", "poll", "announce"},
             Goto(g, to)
      PROVE  run' \in [Groups -> Run] /\ WithinLimit'
  <2> DEFINE r == [run[g] EXCEPT !.pc = to]
  <2>1. run[g] \in Run /\ run[g].attempts <= MaxReviewAttempts
    BY DEF TypeInv, TypeOK, WithinLimit
  <2>2. r \in Run /\ r.attempts <= MaxReviewAttempts
    BY <2>1 DEF Run
  <2>3. Become(g, r)
    BY <1>2 DEF Goto
  <2> HIDE DEF r
  <2> QED
    BY <2>2, <2>3, Stepped
<1> QED
  BY <1>1, <1>2

\* A step of the job "gate" keeps the types.
LEMMA GateType ==
    ASSUME TypeInv, NEW g \in Groups, Gate(g)
    PROVE  TypeInv'
<1> SUFFICES FlagsOK' /\ DataOK' /\ run' \in [Groups -> Run] /\ WithinLimit'
  BY DEF TypeInv, TypeOK
<1>f. FlagsOK
  BY DEF TypeInv, TypeOK
<1>d. DataOK
  BY DEF TypeInv, TypeOK
<1>r. run \in [Groups -> Run] /\ WithinLimit
  BY DEF TypeInv, TypeOK
<1>g. run[g] \in Run /\ run[g].attempts <= MaxReviewAttempts /\ run[g].attempts \in Nat
  BY <1>r DEF WithinLimit, Run
<1>h. head \in Heads /\ attempts \in Nat /\ attempts <= MaxReviewAttempts
  BY <1>d, Bounds DEF DataOK
<1>b. hold \in BOOLEAN /\ approved \in BOOLEAN /\ commented \in BOOLEAN
  BY <1>f DEF FlagsOK
<1>1. CASE Resolve(g)
  <2>1. FlagsOK'
    BY <1>1, <1>f, Zenon DEF Resolve, FlagsOK, people, comment, noted
  <2>2. DataOK'
    BY <1>1, <1>d DEF Resolve, DataOK, people, checks, comment, noted
  <2>3. CASE state = "open"
    <3> DEFINE r == [Rest EXCEPT !.pc = "context", !.sha = head]
    <3>1. r \in Run /\ r.attempts <= MaxReviewAttempts
      BY <1>h, RestType, Bounds DEF Run
    <3>2. Become(g, r)
      BY <1>1, <2>3 DEF Resolve
    <3> HIDE DEF r
    <3> QED
      BY <2>1, <2>2, <3>1, <3>2, Stepped
  <2>4. CASE state # "open"
    BY <1>1, <1>r, <2>1, <2>2, <2>4 DEF Resolve, WithinLimit
  <2> QED
    BY <2>3, <2>4
<1>2. CASE Context(g)
  <2> DEFINE r == [run[g] EXCEPT !.pc = "gather", !.context = head, !.held = hold]
  <2>1. FlagsOK'
    BY <1>2, <1>f, Zenon DEF Context, FlagsOK, people, comment, noted
  <2>2. DataOK'
    BY <1>2, <1>d DEF Context, DataOK, people, checks, comment, noted
  <2>3. r \in Run /\ r.attempts <= MaxReviewAttempts
    BY <1>g, <1>h, <1>b DEF Run
  <2>4. Become(g, r)
    BY <1>2 DEF Context
  <2> HIDE DEF r
  <2> QED
    BY <2>1, <2>2, <2>3, <2>4, Stepped
<1>3. CASE Gather(g)
  <2> DEFINE r == [run[g] EXCEPT !.pc = "review", !.context = 1, !.diff = head,
                                 !.checks = ci[run[g].context], !.approved = approved,
                                 !.commented = commented, !.attempts = attempts]
  <2>1. FlagsOK'
    BY <1>3, <1>f, Zenon DEF Gather, FlagsOK, people, comment
  <2>2. DataOK'
    BY <1>3, <1>d DEF Gather, DataOK, people, checks, comment
  <2>3. ci[run[g].context] \in {"none", "pending", "passing", "failing"}
    <3>1. run[g].context \in Heads
      BY <1>g DEF Run
    <3> QED
      BY <1>d, <3>1 DEF DataOK
  <2>4. r \in Run /\ r.attempts <= MaxReviewAttempts
    BY <1>g, <1>h, <1>b, <2>3, Bounds DEF Run
  <2>5. Become(g, r)
    BY <1>3 DEF Gather
  <2> HIDE DEF r
  <2> QED
    BY <2>1, <2>2, <2>4, <2>5, Stepped
<1>4. CASE Review(g)
  <2>1. FlagsOK'
    BY <1>4, <1>f, Zenon DEF Review, FlagsOK, people, comment, noted
  <2>2. DataOK'
    BY <1>4, <1>d DEF Review, DataOK, people, checks, comment, noted
  <2>3. run[g].read \cup {head} \in SUBSET Heads
    <3>1. run[g].read \in SUBSET Heads
      BY <1>g DEF Run
    <3> QED
      BY <1>h, <3>1
  <2>4. run[g].passes + 1 \in Nat
    <3>1. run[g].passes \in Nat
      BY <1>g DEF Run
    <3> QED
      BY <3>1
  <2>5. ASSUME NEW v \in Verdicts PROVE Worse(run[g].verdict, v) \in Verdicts
    BY DEF Worse, Verdicts
  <2> DEFINE After(pc, read, n, v) == [run[g] EXCEPT !.pc = pc, !.read = read,
                                                     !.passes = n, !.verdict = v]
  <2>6. ASSUME NEW pc \in {"review", "publish risk"}, NEW read \in SUBSET Heads,
               NEW n \in Nat, NEW v \in Verdicts
        PROVE  /\ After(pc, read, n, v) \in Run
               /\ After(pc, read, n, v).attempts <= MaxReviewAttempts
    BY <1>g DEF Run
  <2>7. \E v \in Verdicts, pc \in {"review", "publish risk"} :
           Become(g, After(pc, run[g].read \cup {head}, run[g].passes + 1,
                           Worse(run[g].verdict, v)))
    BY <1>4 DEF Review
  <2> HIDE DEF After
  <2> QED
    BY <2>1, <2>2, <2>3, <2>4, <2>5, <2>6, <2>7, Stepped
<1>5. CASE PublishRisk(g)
  <2> DEFINE r == [Rest EXCEPT !.pc = "publish review", !.sha = run[g].sha,
                               !.commented = run[g].commented,
                               !.attempts = Counted(run[g]), !.gate = ReviewGate(run[g]),
                               !.decision = Decision(run[g])]
  <2>1. FlagsOK'
    BY <1>5, <1>f, Zenon DEF PublishRisk, FlagsOK, people, comment
  <2>2. run[g].sha \in Heads /\ run[g].commented \in BOOLEAN
        /\ ReviewGate(run[g]) \in {"success", "failure"}
    BY <1>g DEF Run, ReviewGate
  <2>3. DataOK'
    BY <1>5, <1>d, <2>2 DEF PublishRisk, DataOK, people, comment, RiskGate
  <2>4. Counted(run[g]) \in 0 .. MaxReviewAttempts
    BY <1>g, DecisionType
  <2>5. Decision(run[g]) \in {"human_approval_required", "blocked", "changes_requested",
                              "waiting", "auto_merge"}
    BY <1>g, DecisionType
  <2>6. r \in Run /\ r.attempts <= MaxReviewAttempts
    <3>1. Counted(run[g]) \in Nat /\ Counted(run[g]) <= MaxReviewAttempts
      BY <2>4, GateAssumption
    <3> QED
      BY <2>2, <3>1, <2>5, RestType DEF Run
  <2>7. Become(g, r)
    BY <1>5 DEF PublishRisk
  <2> HIDE DEF r
  <2> QED
    BY <2>1, <2>3, <2>6, <2>7, Stepped
<1>6. CASE PublishReview(g)
  <2> DEFINE r == [run[g] EXCEPT !.pc = "record", !.sha = 1, !.gate = "success"]
  <2>1. FlagsOK'
    BY <1>6, <1>f, Zenon DEF PublishReview, FlagsOK, people, comment, noted
  <2>2. DataOK'
    BY <1>6, <1>d, <1>g DEF PublishReview, DataOK, people, comment, noted, ReviewedCommit, Run
  <2>3. r \in Run /\ r.attempts <= MaxReviewAttempts
    BY <1>g, Bounds DEF Run
  <2>4. Become(g, r)
    BY <1>6 DEF PublishReview
  <2> HIDE DEF r
  <2> QED
    BY <2>1, <2>2, <2>3, <2>4, Stepped
<1>7. CASE Record(g)
  <2>1. FlagsOK'
    BY <1>7, <1>f, Zenon DEF Record, FlagsOK, people
  <2>2. DataOK'
    BY <1>7, <1>d, <1>g DEF Record, DataOK, people, checks
  <2> DEFINE d == [Rest EXCEPT !.pc = "dispatch", !.attempts = run[g].attempts]
             m == [Rest EXCEPT !.pc = "merge"]
  <2>3. d \in Run /\ d.attempts <= MaxReviewAttempts
    BY <1>g, RestType DEF Run
  <2>4. m \in Run /\ m.attempts <= MaxReviewAttempts
    BY RestType, Bounds DEF Run
  <2>5. Rest \in Run /\ Rest.attempts <= MaxReviewAttempts
    BY RestType, GateAssumption
  <2>6. Become(g, d) \/ Become(g, m) \/ Become(g, Rest)
    BY <1>7 DEF Record
  <2> HIDE DEF d, m
  <2> QED
    BY <2>1, <2>2, <2>3, <2>4, <2>5, <2>6, Stepped
<1>8. CASE Dispatch(g)
  <2>1. FlagsOK'
    BY <1>8, <1>f, Zenon DEF Dispatch, FlagsOK, people, comment
  <2>2. DataOK'
    BY <1>8, <1>d, <1>g DEF Dispatch, DataOK, people, checks, comment
  <2> QED
    BY <1>8, <2>1, <2>2, WentOn DEF Dispatch
<1> QED
  BY <1>1, <1>2, <1>3, <1>4, <1>5, <1>6, <1>7, <1>8 DEF Gate

\* A step of the job "merge", and the end of a run that dies, keep the types.
LEMMA MergeJobType ==
    ASSUME TypeInv, NEW g \in Groups, MergeJob(g) \/ Die(g)
    PROVE  TypeInv'
<1> SUFFICES FlagsOK' /\ DataOK' /\ run' \in [Groups -> Run] /\ WithinLimit'
  BY DEF TypeInv, TypeOK
<1>f. FlagsOK
  BY DEF TypeInv, TypeOK
<1>d. DataOK
  BY DEF TypeInv, TypeOK
<1>1. CASE MergeRead(g) \/ Recheck(g) \/ Poll(g)
  <2>1. FlagsOK'
    BY <1>1, <1>f, Zenon DEF MergeRead, Recheck, Poll, FlagsOK, people, comment, noted
  <2>2. DataOK'
    BY <1>1, <1>d DEF MergeRead, Recheck, Poll, DataOK, people, checks, comment, noted
  <2> QED
    BY <1>1, <2>1, <2>2, WentOn DEF MergeRead, Recheck, Poll
<1>2. CASE UpdateBranch(g)
  <2>1. FlagsOK'
    BY <1>2, <1>f, Zenon DEF UpdateBranch, FlagsOK, people, comment, noted
  <2>2. DataOK'
    BY <1>2, <1>d, GateAssumption
       DEF UpdateBranch, DataOK, people, checks, comment, noted, Heads
  <2> QED
    BY <1>2, <2>1, <2>2, WentOn DEF UpdateBranch
<1>3. CASE TryMerge(g)
  <2>1. FlagsOK'
    BY <1>3, <1>f, Zenon DEF TryMerge, FlagsOK, people, comment
  <2>2. DataOK'
    BY <1>3, <1>d DEF TryMerge, DataOK, people, checks, comment
  <2> QED
    BY <1>3, <2>1, <2>2, WentOn DEF TryMerge
<1>4. CASE EnableAutoMerge(g)
  <2>1. FlagsOK'
    BY <1>4, <1>f, Zenon DEF EnableAutoMerge, FlagsOK, people, comment, noted
  <2>2. DataOK'
    BY <1>4, <1>d DEF EnableAutoMerge, DataOK, people, checks, comment, noted
  <2> QED
    BY <1>4, <2>1, <2>2, WentOn DEF EnableAutoMerge
<1>5. CASE Announce(g) \/ Die(g)
  <2>1. FlagsOK'
    BY <1>5, <1>f, Zenon DEF Announce, Die, FlagsOK, people, comment
  <2>2. DataOK'
    BY <1>5, <1>d DEF Announce, Die, DataOK, people, checks, comment
  <2> QED
    BY <1>5, <2>1, <2>2, WentOn DEF Announce, Die
<1> QED
  BY <1>1, <1>2, <1>3, <1>4, <1>5 DEF MergeJob

\* What GitHub, the agent and people do keeps the types.
LEMMA EnvironmentType ==
    ASSUME TypeInv, Environment
    PROVE  TypeInv'
<1> SUFFICES FlagsOK' /\ DataOK' /\ run' = run
  BY DEF TypeInv, TypeOK, WithinLimit
<1>f. FlagsOK
  BY DEF TypeInv, TypeOK
<1>d. DataOK
  BY DEF TypeInv, TypeOK
<1>1. ASSUME NEW k \in Kinds, Push(k) PROVE FlagsOK' /\ DataOK' /\ run' = run
  <2>1. FlagsOK'
    BY <1>1, <1>f, Zenon DEF Push, FlagsOK, people, comment, noted
  <2>2. DataOK'
    BY <1>1, <1>d, GateAssumption DEF Push, DataOK, people, comment, noted, Heads
  <2> QED
    BY <1>1, <2>1, <2>2 DEF Push
<1>2. ASSUME NEW h \in Heads, Report(h) PROVE FlagsOK' /\ DataOK' /\ run' = run
  <2>1. FlagsOK'
    BY <1>2, <1>f, Zenon DEF Report, FlagsOK, people, comment, noted
  <2>2. DataOK'
    BY <1>2, <1>d DEF Report, DataOK, people, comment, noted, Groups
  <2> QED
    BY <1>2, <2>1, <2>2 DEF Report
<1>3. CASE Request
  <2>1. FlagsOK'
    BY <1>3, <1>f, Zenon DEF Request, FlagsOK, comment, noted
  <2>2. DataOK'
    BY <1>3, <1>d, GateAssumption DEF Request, DataOK, checks, comment, noted, Groups, ByNumber
  <2> QED
    BY <1>3, <2>1, <2>2 DEF Request
<1>4. CASE BaseMoves \/ Hold \/ AutoMerge
  <2>1. FlagsOK'
    BY <1>4, <1>f, Zenon DEF BaseMoves, Hold, AutoMerge, FlagsOK, people, comment, noted
  <2>2. DataOK'
    BY <1>4, <1>d DEF BaseMoves, Hold, AutoMerge, DataOK, people, checks, comment, noted
  <2> QED
    BY <1>4, <2>1, <2>2 DEF BaseMoves, Hold, AutoMerge
<1> QED
  BY <1>1, <1>2, <1>3, <1>4 DEF Environment

\* Every step keeps the types.
LEMMA TypeStep == TypeInv /\ [Next]_vars => TypeInv'
<1> SUFFICES ASSUME TypeInv, [Next]_vars PROVE TypeInv'
  OBVIOUS
<1>1. CASE UNCHANGED vars
  BY <1>1 DEF vars, people, checks, comment, noted, TypeInv, TypeOK, FlagsOK, DataOK,
              WithinLimit
<1> QED
  BY <1>1, GateType, MergeJobType, EnvironmentType DEF Next

\* The gate keeps its types, and the comment never counts more attempts than the
\* policy allows, in every behaviour.
THEOREM GateTypeCorrect == Spec => []TypeOK
<1>1. TypeInv => TypeOK
  BY DEF TypeInv
<1> QED
  BY <1>1, TypeInit, TypeStep, PTL DEF Spec

-----------------------------------------------------------------------------
(***************************************************************************)
(* What is merged was reviewed.  A run sees commits from the one it        *)
(* resolved up to the head; if the head is still that one, it saw no other.*)
(***************************************************************************)

Seen(r, top, kinds, approvals) ==
    /\ r.sha <= top
    /\ r.pc \in {"context", "gather"} => r.read = {}
    /\ r.pc \in {"review", "publish risk"} =>
          /\ r.sha <= r.diff /\ r.diff <= top
          /\ \A h \in r.read : r.sha <= h /\ h <= top
    /\ r.pc = "publish risk" => r.read # {} /\ r.passes >= Reviewers(kinds[r.diff])
    /\ r.pc = "publish review" /\ r.gate = "success" /\ r.sha = top => top \in approvals

Sees(r) == Seen(r, head, kind, vetted)
SeesNext(r) == Seen(r, head', kind', vetted')

\* Nothing is published on a commit to come, and success on the head is deserved.
Deserved ==
    \A h \in Heads :
        /\ h > head => risk[h] = "none" /\ review[h] = "none"
        /\ h = head /\ review[h] = "success" => h \in vetted
        /\ h = head /\ risk[h] = "success" => kind[h] # "weakening"

MergeInv == TypeInv /\ MergedWasReviewed /\ Deserved /\ \A g \in Groups : Sees(run[g])

\* A step of group g leaves the other runs as they are.
LEMMA OthersStay ==
    ASSUME TypeInv, NEW g \in Groups, NEW r, Become(g, r), NEW other \in Groups
    PROVE  run'[other] = IF other = g THEN r ELSE run[other]
BY DEF Become, TypeInv, TypeOK

\* A run that goes on changes its place only.
LEMMA Goes ==
    ASSUME TypeInv, NEW g \in Groups, NEW pc, Goto(g, pc)
    PROVE  /\ run'[g] = [run[g] EXCEPT !.pc = pc]
           /\ run'[g].pc = pc
BY DEF Goto, Become, TypeInv, TypeOK, Run

\* What a run has seen stays true when the head moves on.
LEMMA SeesStays ==
    ASSUME TypeInv, NEW r \in Run, Sees(r),
           head' \in Heads, head <= head',
           \A h \in Heads : h <= head => kind'[h] = kind[h],
           vetted \subseteq vetted'
    PROVE  SeesNext(r)
<1>1. /\ r.sha \in Heads /\ r.diff \in Heads /\ r.read \subseteq Heads
  BY DEF Run
<1>2. head \in Heads
  BY DEF TypeInv, TypeOK, DataOK
<1>3. \A h \in Heads : h \in Nat
  BY DEF Heads
<1>4. r.pc = "publish risk" => Reviewers(kind'[r.diff]) = Reviewers(kind[r.diff])
  BY <1>1 DEF Sees, SeesNext, Seen
<1>5. r.sha \in Nat /\ r.diff \in Nat /\ head \in Nat /\ head' \in Nat
  BY <1>1, <1>2, <1>3
<1>6. r.sha <= head /\ r.sha <= head'
  <2>1. r.sha <= head
    BY DEF Sees, SeesNext, Seen
  <2> QED
    BY <1>5, <2>1
<1>7. ASSUME r.pc \in {"review", "publish risk"}
      PROVE  /\ r.sha <= r.diff /\ r.diff <= head'
             /\ \A h \in r.read : r.sha <= h /\ h <= head'
  <2>1. /\ r.sha <= r.diff /\ r.diff <= head
        /\ \A h \in r.read : r.sha <= h /\ h <= head
    BY <1>7 DEF Sees, SeesNext, Seen
  <2>2. ASSUME NEW h \in r.read PROVE r.sha <= h /\ h <= head'
    <3>1. h \in Nat /\ r.sha <= h /\ h <= head
      BY <1>1, <1>3, <2>1
    <3> QED
      BY <1>5, <3>1
  <2> QED
    BY <1>5, <2>1, <2>2
<1>8. r.pc = "publish risk" => r.read # {} /\ r.passes >= Reviewers(kind'[r.diff])
  BY <1>1, <1>4 DEF Sees, SeesNext, Seen
<1>9. r.pc = "publish review" /\ r.gate = "success" /\ r.sha = head' => head' \in vetted'
  <2>1. r.sha = head' => head' = head
    BY <1>5, <1>6
  <2> QED
    BY <2>1 DEF Sees, SeesNext, Seen
<1>10. r.pc \in {"context", "gather"} => r.read = {}
  BY DEF Sees, SeesNext, Seen
<1> QED
  BY <1>6, <1>7, <1>8, <1>9, <1>10 DEF Sees, SeesNext, Seen

\* The head never moves back, the kind of a commit never changes and who was vetted
\* stays vetted; after the merge the head does not move.
LEMMA Onward ==
    ASSUME TypeInv, [Next]_vars
    PROVE  /\ head <= head'
           /\ \A h \in Heads : h <= head => kind'[h] = kind[h]
           /\ vetted \subseteq vetted'
           /\ state = "merged" => state' = "merged" /\ head' = head
<1>1. head \in Nat /\ kind \in [Heads -> Kinds] /\ \A h \in Heads : h \in Nat
  BY DEF TypeInv, TypeOK, DataOK, Heads
<1>2. ASSUME NEW g \in Groups, Gate(g)
      PROVE  state' = state /\ head' = head /\ kind' = kind /\ vetted \subseteq vetted'
  BY <1>2 DEF Gate, Resolve, Context, Gather, Review, PublishRisk, PublishReview, Record,
              Dispatch, noted
<1>3. ASSUME NEW g \in Groups, MergeJob(g) \/ Die(g), ~UpdateBranch(g)
      PROVE  /\ state = "merged" => state' = "merged"
             /\ head' = head /\ kind' = kind /\ vetted' = vetted
  BY <1>3 DEF MergeJob, MergeRead, TryMerge, Recheck, EnableAutoMerge, Poll, Announce, Die,
              noted
<1>4. ASSUME NEW g \in Groups, UpdateBranch(g)
      PROVE  /\ head <= head' /\ (\A h \in Heads : h <= head => kind'[h] = kind[h])
             /\ vetted' = vetted /\ state' = state
             /\ state = "merged" => head' = head
  BY <1>1, <1>4 DEF UpdateBranch, noted
<1>5. ASSUME Environment
      PROVE  /\ head <= head' /\ (\A h \in Heads : h <= head => kind'[h] = kind[h])
             /\ vetted' = vetted
             /\ state = "merged" => state' = "merged" /\ head' = head
  <2>1. ASSUME NEW k \in Kinds, Push(k)
        PROVE  /\ head' = head + 1 /\ (\A h \in Heads : h <= head => kind'[h] = kind[h])
               /\ vetted' = vetted /\ state = "open"
    BY <1>1, <2>1 DEF Push, noted
  <2>2. ASSUME NEW h \in Heads, Report(h)
        PROVE  head' = head /\ kind' = kind /\ vetted' = vetted /\ state' = state
    BY <2>2 DEF Report, noted
  <2>3. CASE Request \/ BaseMoves \/ Hold \/ AutoMerge
    BY <1>1, <2>3 DEF Request, BaseMoves, Hold, AutoMerge, noted
  <2> QED
    BY <1>1, <1>5, <2>1, <2>2, <2>3 DEF Environment
<1>6. CASE UNCHANGED vars
  BY <1>1, <1>6 DEF vars, noted
<1> QED
  BY <1>1, <1>2, <1>3, <1>4, <1>5, <1>6 DEF Next

\* A run that has yet to read, or has let go of what it read, has seen nothing stale.
LEMMA SeesNothing ==
    ASSUME NEW r, r.sha <= head',
           r.pc \notin {"context", "gather", "review", "publish risk", "publish review"}
    PROVE  SeesNext(r)
BY DEF Sees, SeesNext, Seen

\* The own steps of a run: what it has seen by the time it publishes a success on the
\* head is the head.
LEMMA SeesOwn ==
    ASSUME MergeInv, NEW g \in Groups, Gate(g) \/ MergeJob(g) \/ Die(g), head <= head',
           head' \in Heads
    PROVE  SeesNext(run'[g])
<1> DEFINE q == run[g]
<1>t. TypeInv
  BY DEF MergeInv
<1>q. q \in Run /\ Sees(q)
  BY DEF MergeInv, TypeInv, TypeOK
<1>n. head \in Nat /\ head' \in Nat /\ 1 <= head' /\ q.sha \in Nat /\ q.sha \in Heads
      /\ head \in Heads
  <2>1. q.sha \in Heads /\ head \in Heads
    BY <1>q, <1>t DEF Run, TypeInv, TypeOK, DataOK
  <2> QED
    BY <2>1 DEF Heads
<1>s. q.sha <= head /\ q.sha <= head'
  <2>1. q.sha <= head
    BY <1>q DEF Sees, SeesNext, Seen
  <2> QED
    BY <1>n, <2>1
<1>r. Rest.sha = 1 /\ Rest.pc = "idle"
  BY DEF Rest
<1>e. ASSUME End(g) PROVE SeesNext(run'[g])
  <2>1. run'[g] = Rest
    BY <1>t, <1>e, OthersStay DEF End
  <2>2. run'[g].sha <= head' /\ run'[g].pc = "idle"
    BY <1>n, <1>r, <2>1
  <2> QED
    BY <2>2, SeesNothing
<1>g. ASSUME NEW pc \in {"update", "try", "recheck", "enable", "poll", "announce"}, Goto(g, pc)
      PROVE  SeesNext(run'[g])
  <2>1. run'[g] = [q EXCEPT !.pc = pc] /\ run'[g].pc = pc
    BY <1>t, <1>g, Goes
  <2>2. run'[g].sha = q.sha
    BY <1>q, <2>1 DEF Run
  <2> QED
    BY <1>s, <2>1, <2>2, SeesNothing
<1>1. CASE Resolve(g)
  <2>1. CASE state = "open"
    <3> DEFINE r == [Rest EXCEPT !.pc = "context", !.sha = head]
    <3>1. run'[g] = r
      BY <1>1, <1>t, <2>1, OthersStay DEF Resolve
    <3>2. r.pc = "context" /\ r.sha = head /\ r.read = {}
      BY DEF Rest
    <3> QED
      BY <3>1, <3>2 DEF Sees, SeesNext, Seen
  <2>2. CASE state # "open"
    <3>1. run'[g] = q /\ q.pc = "idle"
      BY <1>1, <2>2 DEF Resolve, At
    <3> QED
      BY <1>s, <3>1, SeesNothing
  <2> QED
    BY <2>1, <2>2
<1>2. CASE Context(g)
  <2> DEFINE r == [q EXCEPT !.pc = "gather", !.context = head, !.held = hold]
  <2>1. run'[g] = r
    BY <1>2, <1>t, OthersStay DEF Context
  <2>2. r.pc = "gather" /\ r.sha = q.sha /\ r.read = q.read
    BY <1>q DEF Run
  <2>3. q.read = {}
    BY <1>2, <1>q DEF Context, At, Sees, Seen
  <2> QED
    BY <1>s, <2>1, <2>2, <2>3 DEF Sees, SeesNext, Seen
<1>3. CASE Gather(g)
  <2> DEFINE r == [q EXCEPT !.pc = "review", !.context = 1, !.diff = head,
                            !.checks = ci[q.context], !.approved = approved,
                            !.commented = commented, !.attempts = attempts]
  <2>1. run'[g] = r
    BY <1>3, <1>t, OthersStay DEF Gather
  <2>2. r.pc = "review" /\ r.sha = q.sha /\ r.diff = head /\ r.read = q.read
    BY <1>q DEF Run
  <2>3. q.read = {}
    BY <1>3, <1>q DEF Gather, At, Sees, Seen
  <2>4. head' = head
    BY <1>3 DEF Gather
  <2> QED
    BY <1>s, <2>1, <2>2, <2>3, <2>4, <1>n DEF Sees, SeesNext, Seen
<1>4. CASE Review(g)
  <2> DEFINE more == q.passes + 1 < Reviewers(kind[q.diff])
             After(pc, v) == [q EXCEPT !.pc = pc, !.read = q.read \cup {head},
                                       !.passes = q.passes + 1, !.verdict = v]
  <2>1. PICK v \in Verdicts :
           Become(g, After(IF more THEN "review" ELSE "publish risk", Worse(q.verdict, v)))
    BY <1>4 DEF Review
  <2> DEFINE r == After(IF more THEN "review" ELSE "publish risk", Worse(q.verdict, v))
  <2>2. /\ r.pc = (IF more THEN "review" ELSE "publish risk")
        /\ r.sha = q.sha /\ r.diff = q.diff
        /\ r.read = q.read \cup {head} /\ r.passes = q.passes + 1
    BY <1>q DEF Run
  <2>3. /\ q.sha <= q.diff /\ q.diff <= head
        /\ \A h \in q.read : q.sha <= h /\ h <= head
    BY <1>4, <1>q DEF Review, At, Sees, Seen
  <2>4. head' = head /\ kind' = kind
    BY <1>4 DEF Review
  <2>5. q.passes \in Nat /\ Reviewers(kind[q.diff]) \in Nat
    BY <1>q DEF Run, Reviewers
  <2>6. ~more => r.passes >= Reviewers(kind'[r.diff])
    BY <2>2, <2>4, <2>5 DEF Reviewers
  <2>7. \A h \in r.read : r.sha <= h /\ h <= head'
    BY <1>n, <1>s, <2>2, <2>3, <2>4
  <2>8. r.read # {}
    BY <2>2
  <2> HIDE DEF r, more
  <2>9. SeesNext(r)
    BY <1>s, <2>2, <2>3, <2>4, <2>6, <2>7, <2>8 DEF Sees, SeesNext, Seen
  <2> QED
    BY <1>t, <2>1, <2>9, OthersStay DEF r
<1>5. CASE PublishRisk(g)
  <2> DEFINE r == [Rest EXCEPT !.pc = "publish review", !.sha = q.sha,
                               !.commented = q.commented, !.attempts = Counted(q),
                               !.gate = ReviewGate(q), !.decision = Decision(q)]
  <2>1. run'[g] = r
    BY <1>5, <1>t, OthersStay DEF PublishRisk
  <2>2. r.pc = "publish review" /\ r.sha = q.sha /\ r.gate = ReviewGate(q)
    BY DEF Rest
  <2>3. /\ q.sha <= q.diff /\ q.diff <= head
        /\ \A h \in q.read : q.sha <= h /\ h <= head
        /\ q.read # {} /\ q.passes >= Reviewers(kind[q.diff])
    BY <1>5, <1>q DEF PublishRisk, At, Sees, Seen
  <2>4. head' = head
    BY <1>5 DEF PublishRisk
  <2>5. ASSUME ReviewGate(q) = "success", q.sha = head PROVE head \in vetted'
    <3>1. q.diff \in Heads /\ q.read \subseteq Heads
      BY <1>q DEF Run
    <3>2. q.diff = head
      <4>1. q.diff \in Nat
        BY <3>1 DEF Heads
      <4> QED
        BY <1>n, <2>3, <2>5, <4>1
    <3>3. ASSUME NEW h \in q.read PROVE h = head
      <4>1. h \in Nat /\ head <= h /\ h <= head
        BY <2>3, <2>5, <3>1 DEF Heads
      <4> QED
        BY <1>n, <4>1
    <3>4. q.read = {head}
      BY <2>3, <3>3
    <3>5. q.passes >= Reviewers(kind[head]) /\ q.verdict = "approve"
      BY <2>3, <2>5, <3>2 DEF ReviewGate
    <3>6. vetted' = vetted \cup {h \in Heads : /\ q.read = {h}
                                               /\ q.passes >= Reviewers(kind[h])
                                               /\ q.verdict = "approve"}
      BY <1>5 DEF PublishRisk
    <3> QED
      BY <1>n, <3>4, <3>5, <3>6
  <2> HIDE DEF r
  <2> QED
    BY <1>s, <2>1, <2>2, <2>4, <2>5 DEF Sees, SeesNext, Seen
<1>6. CASE PublishReview(g)
  <2> DEFINE r == [q EXCEPT !.pc = "record", !.sha = 1, !.gate = "success"]
  <2>1. run'[g] = r
    BY <1>6, <1>t, OthersStay DEF PublishReview
  <2>2. r.pc = "record" /\ r.sha = 1
    BY <1>q DEF Run
  <2> HIDE DEF r
  <2> QED
    BY <1>n, <2>1, <2>2, SeesNothing
<1>7. CASE Record(g)
  <2> DEFINE d == [Rest EXCEPT !.pc = "dispatch", !.attempts = q.attempts]
             m == [Rest EXCEPT !.pc = "merge"]
  <2>1. run'[g] = d \/ run'[g] = m \/ run'[g] = Rest
    <3>1. Become(g, d) \/ Become(g, m) \/ Become(g, Rest)
      BY <1>7 DEF Record
    <3> HIDE DEF d, m
    <3> QED
      BY <1>t, <3>1, OthersStay
  <2>2. d.sha = 1 /\ m.sha = 1 /\ d.pc = "dispatch" /\ m.pc = "merge"
    BY DEF Rest
  <2> HIDE DEF d, m
  <2> QED
    BY <1>n, <1>r, <2>1, <2>2, SeesNothing
<1>8. CASE Dispatch(g) \/ Die(g)
  BY <1>8, <1>e DEF Dispatch, Die
<1>9. CASE MergeJob(g)
  BY <1>9, <1>e, <1>g DEF MergeJob, MergeRead, UpdateBranch, TryMerge, Recheck,
                          EnableAutoMerge, Poll, Announce
<1> QED
  BY <1>1, <1>2, <1>3, <1>4, <1>5, <1>6, <1>7, <1>8, <1>9 DEF Gate

\* At first nothing is published and no run has read anything.
LEMMA MergeInit == Init => MergeInv
<1> SUFFICES ASSUME Init PROVE MergeInv
  OBVIOUS
<1>1. Deserved /\ MergedWasReviewed
  BY Bounds DEF Init, Deserved, MergedWasReviewed, Heads
<1>2. ASSUME NEW g \in Groups PROVE Sees(run[g])
  <2>1. run[g] = Rest /\ head = 1
    BY DEF Init
  <2>2. Rest.sha = 1 /\ Rest.pc = "idle"
    BY DEF Rest
  <2> QED
    BY <2>1, <2>2 DEF Sees, Seen
<1> QED
  BY <1>1, <1>2, TypeInit DEF MergeInv

\* A step of the workflow is one of a single run.
LEMMA OneSteps ==
    ASSUME TypeInv, NEW g \in Groups, Gate(g) \/ MergeJob(g) \/ Die(g),
           NEW other \in Groups, other # g
    PROVE  run'[other] = run[other]
<1>1. run' = run \/ \E r : Become(g, r)
  BY Zenon DEF Gate, Resolve, Context, Gather, Review, PublishRisk, PublishReview, Record,
               Dispatch, MergeJob, MergeRead, UpdateBranch, TryMerge, Recheck,
               EnableAutoMerge, Poll, Announce, Die, Goto, End
<1> QED
  BY <1>1, OthersStay

\* A success that is published on the head is deserved.
LEMMA DeservedStep ==
    ASSUME MergeInv, [Next]_vars, TypeInv'
    PROVE  Deserved'
<1>t. TypeInv /\ Deserved
  BY DEF MergeInv
<1>n. /\ head \in Heads /\ head' \in Heads /\ vetted \subseteq vetted'
      /\ \A h \in Heads : h \in Nat /\ (h <= head => kind'[h] = kind[h])
  BY <1>t, Onward DEF TypeInv, TypeOK, DataOK, Heads
<1>1. ASSUME risk' = risk, review' = review PROVE Deserved'
  <2>1. head <= head'
    BY <1>t, Onward
  <2>2. ASSUME NEW h \in Heads, h > head'
        PROVE  risk'[h] = "none" /\ review'[h] = "none"
    <3>1. h > head
      BY <1>n, <2>1, <2>2
    <3> QED
      BY <1>1, <1>t, <3>1 DEF Deserved
  <2>3. ASSUME head' = head
        PROVE  /\ review'[head'] = "success" => head' \in vetted'
               /\ risk'[head'] = "success" => kind'[head'] # "weakening"
    BY <1>1, <1>n, <1>t, <2>3 DEF Deserved
  <2>4. ASSUME head' # head
        PROVE  risk'[head'] = "none" /\ review'[head'] = "none"
    <3>1. head' > head
      BY <1>n, <2>1, <2>4
    <3> QED
      BY <1>1, <1>n, <1>t, <3>1 DEF Deserved
  <2> QED
    BY <1>n, <2>2, <2>3, <2>4 DEF Deserved
<1>2. ASSUME NEW g \in Groups, PublishRisk(g) PROVE Deserved'
  <2> DEFINE q == run[g]
  <2>1. /\ q.sha \in Heads /\ q.diff \in Heads
        /\ q.sha <= head /\ q.sha <= q.diff /\ q.diff <= head
    BY <1>2, <1>t DEF MergeInv, TypeInv, TypeOK, Run, PublishRisk, At, Sees, Seen
  <2>2. /\ risk' = [risk EXCEPT ![q.sha] = RiskGate(q)]
        /\ review' = review /\ head' = head /\ kind' = kind
    BY <1>2 DEF PublishRisk
  <2>3. risk \in [Heads -> {"none", "success", "failure"}]
    BY <1>t DEF TypeInv, TypeOK, DataOK
  <2>4. q.sha = head => q.diff = head
    BY <1>n, <2>1
  <2>5. q.sha = head /\ RiskGate(q) = "success" => kind[head] # "weakening"
    BY <2>4 DEF RiskGate
  <2>6. \A h \in Heads : h > head => h # q.sha
    BY <1>n, <2>1
  <2> HIDE DEF q
  <2> QED
    BY <1>n, <1>t, <2>1, <2>2, <2>3, <2>5, <2>6 DEF Deserved
<1>3. ASSUME NEW g \in Groups, PublishReview(g) PROVE Deserved'
  <2> DEFINE q == run[g]
  <2>1. q.sha \in Heads /\ q.sha <= head
    BY <1>t DEF MergeInv, TypeInv, TypeOK, Run, Sees, Seen
  <2>2. q.sha = head /\ q.gate = "success" => head \in vetted
    BY <1>3 DEF MergeInv, PublishReview, At, Sees, Seen
  <2>3. /\ review' = [review EXCEPT ![q.sha] = q.gate]
        /\ risk' = risk /\ head' = head /\ kind' = kind /\ vetted' = vetted
    BY <1>3 DEF PublishReview, ReviewedCommit, noted
  <2>4. review \in [Heads -> {"none", "success", "failure"}]
    BY <1>t DEF TypeInv, TypeOK, DataOK
  <2>5. \A h \in Heads : h > head => h # q.sha
    BY <1>n, <2>1
  <2> HIDE DEF q
  <2> QED
    BY <1>n, <1>t, <2>1, <2>2, <2>3, <2>4, <2>5 DEF Deserved
<1>4. ASSUME NEW g \in Groups, Gate(g) \/ MergeJob(g) \/ Die(g),
             ~PublishRisk(g), ~PublishReview(g)
      PROVE  risk' = risk /\ review' = review
  BY <1>4, Zenon DEF Gate, Resolve, Context, Gather, Review, Record, Dispatch, MergeJob,
                     MergeRead, UpdateBranch, TryMerge, Recheck, EnableAutoMerge, Poll,
                     Announce, Die, checks
<1>5. ASSUME Environment PROVE risk' = risk /\ review' = review
  BY <1>5, Zenon DEF Environment, Push, Report, Request, BaseMoves, Hold, AutoMerge, checks
<1>6. CASE UNCHANGED vars
  BY <1>1, <1>6 DEF vars, checks
<1> QED
  BY <1>1, <1>2, <1>3, <1>4, <1>5, <1>6 DEF Next

\* GitHub merges a head with deserved successes only.
LEMMA MergedStep ==
    ASSUME MergeInv, [Next]_vars
    PROVE  MergedWasReviewed'
<1>t. TypeInv /\ Deserved /\ MergedWasReviewed
  BY DEF MergeInv
<1>n. head \in Heads /\ \A h \in Heads : h \in Nat /\ h <= h
  BY <1>t DEF TypeInv, TypeOK, DataOK, Heads
<1>1. CASE state = "merged"
  BY <1>1, <1>n, <1>t, Onward DEF MergedWasReviewed
<1>2. CASE state # "merged" /\ state' = "merged"
  <2>1. Mergeable /\ UNCHANGED <<head, kind, vetted>>
    <3>1. ASSUME NEW g \in Groups, Gate(g) \/ MergeJob(g) \/ Die(g)
          PROVE  Mergeable /\ UNCHANGED <<head, kind, vetted>>
      BY <1>2, <3>1
         DEF Gate, Resolve, Context, Gather, Review, PublishRisk, PublishReview, Record,
             Dispatch, MergeJob, MergeRead, UpdateBranch, TryMerge, Recheck,
             EnableAutoMerge, Poll, Announce, Die
    <3>2. ASSUME Environment PROVE Mergeable /\ UNCHANGED <<head, kind, vetted>>
      BY <1>2, <3>2
         DEF Environment, Push, Report, Request, BaseMoves, Hold, AutoMerge, noted
    <3> QED
      BY <1>2, <3>1, <3>2 DEF Next, vars
  <2>2. head \in vetted /\ kind[head] # "weakening"
    BY <1>n, <1>t, <2>1 DEF Mergeable, Deserved
  <2> QED
    BY <2>1, <2>2 DEF MergedWasReviewed
<1>3. CASE state' # "merged"
  BY <1>3 DEF MergedWasReviewed
<1> QED
  BY <1>1, <1>2, <1>3

\* Every step keeps what the runs saw and what is published in order.
LEMMA MergeStep == MergeInv /\ [Next]_vars => MergeInv'
<1> SUFFICES ASSUME MergeInv, [Next]_vars PROVE MergeInv'
  OBVIOUS
<1>t. TypeInv /\ TypeInv'
  BY TypeStep DEF MergeInv
<1>n. head' \in Heads /\ run \in [Groups -> Run]
  BY <1>t DEF TypeInv, TypeOK, DataOK
<1>1. ASSUME NEW g \in Groups PROVE SeesNext(run'[g])
  <2>1. run[g] \in Run /\ Sees(run[g])
    BY <1>n DEF MergeInv
  <2>2. CASE run'[g] = run[g]
    BY <1>n, <1>t, <2>1, <2>2, Onward, SeesStays
  <2>3. CASE run'[g] # run[g]
    <3>1. Gate(g) \/ MergeJob(g) \/ Die(g)
      <4>1. ~(UNCHANGED vars) /\ ~Environment
        BY <2>3 DEF vars, Environment, Push, Report, Request, BaseMoves, Hold, AutoMerge
      <4> QED
        BY <1>t, <2>3, <4>1, OneSteps DEF Next
    <3> QED
      BY <1>n, <1>t, <3>1, Onward, SeesOwn
  <2> QED
    BY <2>2, <2>3
<1>2. \A g \in Groups : Sees(run[g])'
  BY <1>1 DEF Sees, SeesNext
<1>3. Deserved' /\ MergedWasReviewed'
  BY <1>t, DeservedStep, MergedStep
<1> QED
  BY <1>t, <1>2, <1>3 DEF MergeInv

\* What is merged, by a run or by an auto-merge, and whatever was pushed meanwhile, is a
\* commit that as many reviewers approved as its tier needs, and weakens no protection.
THEOREM MergesAreReviewed == Spec => []MergedWasReviewed
<1>1. MergeInv => MergedWasReviewed
  BY DEF MergeInv
<1> QED
  BY <1>1, MergeInit, MergeStep, PTL DEF Spec

-----------------------------------------------------------------------------
(***************************************************************************)
(* A merge the workflow made is announced.                                 *)
(***************************************************************************)

\* The run that merged still has to announce it, or did, or is gone.
Owed ==
    \A g \in direct : /\ state = "merged"
                      /\ announced \/ g \in silenced \/ run[g].pc \in {"recheck", "announce"}

AnnounceInv == TypeInv /\ Owed

\* What was announced stays announced, and who is known to be silenced too.
LEMMA Kept ==
    ASSUME NEW g \in Groups, Gate(g) \/ MergeJob(g) \/ Die(g)
    PROVE  (announced => announced') /\ silenced \subseteq silenced'
<1>1. CASE Announce(g)
  <2>1. announced' = TRUE \/ announced' = announced
    BY <1>1, Zenon DEF Announce
  <2>2. silenced \subseteq silenced'
    BY <1>1 DEF Announce
  <2>3. announced' = TRUE => announced'
    OBVIOUS
  <2> QED
    BY <2>1, <2>2, <2>3, Zenon
<1>2. CASE Die(g)
  BY <1>2, Zenon DEF Die
<1>3. CASE ~Announce(g) /\ ~Die(g)
  <2>1. announced' = announced /\ silenced' = silenced
    BY <1>3, Zenon
       DEF Gate, Resolve, Context, Gather, Review, PublishRisk, PublishReview, Record,
           Dispatch, MergeJob, MergeRead, UpdateBranch, TryMerge, Recheck,
           EnableAutoMerge, Poll, noted
  <2> QED
    BY <2>1, Zenon
<1> QED
  BY <1>1, <1>2, <1>3

\* What a run owes others keep, and it keeps by announcing, or by dying.
LEMMA OwedStep == AnnounceInv /\ [Next]_vars => AnnounceInv'
<1> SUFFICES ASSUME AnnounceInv, [Next]_vars PROVE AnnounceInv'
  OBVIOUS
<1>t. TypeInv /\ TypeInv' /\ Owed
  BY TypeStep DEF AnnounceInv
<1>d. direct \subseteq Groups
  BY <1>t DEF TypeInv, TypeOK, DataOK
<1>m. state = "merged" => state' = "merged"
  BY <1>t, Onward
<1>1. ASSUME NEW g \in Groups, Gate(g) \/ MergeJob(g) \/ Die(g) PROVE Owed'
  <2>1. ASSUME NEW h \in direct, h # g
        PROVE  /\ state' = "merged"
               /\ announced' \/ h \in silenced' \/ run'[h].pc \in {"recheck", "announce"}
    <3>1. run'[h] = run[h]
      BY <1>1, <1>d, <1>t, <2>1, OneSteps
    <3>2. (announced => announced') /\ silenced \subseteq silenced'
      BY <1>1, Kept
    <3>3. /\ state = "merged"
          /\ announced \/ h \in silenced \/ run[h].pc \in {"recheck", "announce"}
      BY <1>t, <2>1 DEF Owed
    <3> QED
      BY <1>m, <3>1, <3>2, <3>3, Zenon
  <2>2. CASE TryMerge(g)
    <3>1. state' = "merged" \/ direct' = direct
      BY <2>2 DEF TryMerge
    <3>2. direct' \subseteq direct \cup {g}
      BY <2>2 DEF TryMerge
    <3>3. run'[g].pc \in {"recheck", "announce"}
      BY <1>t, <2>2, Goes DEF TryMerge
    <3>4. g \in direct => state' = "merged"
      BY <1>m, <1>t DEF Owed
    <3>5. g \in direct' => state' = "merged"
      BY <3>1, <3>4
    <3> QED
      BY <2>1, <3>2, <3>3, <3>5 DEF Owed
  <2>3. CASE ~TryMerge(g)
    <3>1. direct' = direct
      BY <1>1, <2>3
         DEF Gate, Resolve, Context, Gather, Review, PublishRisk, PublishReview, Record,
             Dispatch, MergeJob, MergeRead, UpdateBranch, Recheck, EnableAutoMerge, Poll,
             Announce, Die, noted
    <3>2. ASSUME g \in direct
          PROVE  announced' \/ g \in silenced' \/ run'[g].pc \in {"recheck", "announce"}
      <4>1. state = "merged" /\ (announced \/ g \in silenced \/ run[g].pc \in {"recheck", "announce"})
        BY <1>t, <3>2 DEF Owed
      <4>2. CASE announced \/ g \in silenced
        <5>1. (announced => announced') /\ silenced \subseteq silenced'
          BY <1>1, Kept
        <5> QED
          BY <4>2, <5>1, Zenon
      <4>3. CASE run[g].pc \in {"recheck", "announce"}
        <5>1. Recheck(g) \/ Announce(g) \/ Die(g)
          BY <1>1, <2>3, <4>3
             DEF Gate, Resolve, Context, Gather, Review, PublishRisk, PublishReview, Record,
                 Dispatch, MergeJob, MergeRead, UpdateBranch, EnableAutoMerge, Poll, At
        <5>2. CASE Recheck(g)
          <6>1. Goto(g, "announce")
            BY <4>1, <5>2 DEF Recheck
          <6> QED
            BY <1>t, <6>1, Goes
        <5>3. CASE Announce(g) \/ Die(g)
          BY <3>2, <5>3, Zenon DEF Announce, Die
        <5> QED
          BY <5>1, <5>2, <5>3
      <4> QED
        BY <4>1, <4>2, <4>3
    <3>3. g \in direct => state' = "merged"
      BY <1>m, <1>t DEF Owed
    <3> QED
      BY <2>1, <3>1, <3>2, <3>3 DEF Owed
  <2> QED
    BY <2>2, <2>3
<1>2. ASSUME Environment \/ UNCHANGED vars PROVE Owed'
  <2>1. announced' = announced /\ direct' = direct /\ silenced' = silenced /\ run' = run
    BY <1>2, Zenon DEF Environment, Push, Report, Request, BaseMoves, Hold, AutoMerge, noted, vars
  <2> QED
    <3>1. ASSUME NEW g \in direct
          PROVE  /\ state' = "merged"
                 /\ announced' \/ g \in silenced' \/ run'[g].pc \in {"recheck", "announce"}
      <4>1. /\ state = "merged"
            /\ announced \/ g \in silenced \/ run[g].pc \in {"recheck", "announce"}
        BY <1>t, <3>1 DEF Owed
      <4> QED
        BY <1>m, <2>1, <4>1, Zenon
    <3>2. \A g \in direct' : g \in direct
      BY <2>1
    <3> QED
      BY <3>1, <3>2, Zenon DEF Owed
<1> QED
  BY <1>1, <1>2, <1>t DEF Next, AnnounceInv

\* A merge made by a run of the workflow is announced by the time the run has ended, also
\* if the answer to the merge was lost, unless the run died or could not announce.
THEOREM DirectMergesAreAnnounced == Spec => []DirectMergeIsAnnounced
<1>1. Init => AnnounceInv
  <2>1. Init => Owed
    BY DEF Init, Owed
  <2> QED
    BY <2>1, TypeInit DEF AnnounceInv
<1>2. AnnounceInv => DirectMergeIsAnnounced
  BY DEF AnnounceInv, Owed, DirectMergeIsAnnounced, At
<1> QED
  BY <1>1, <1>2, OwedStep, PTL DEF Spec

-----------------------------------------------------------------------------
(***************************************************************************)
(* Fixes are accounted for.  While no two runs overlapped, the run that    *)
(* has read the comment is the only one that will write it, so what it     *)
(* counts is what the comment counts.                                      *)
(***************************************************************************)

Busy == {"review", "publish risk", "publish review", "record"}

\* What a run counts, if the comment is there or not (c) and counts n attempts.
Tallied(r, n, c) ==
    /\ r.pc \in {"review", "publish risk"} => r.attempts = n /\ r.commented = c
    /\ r.pc \in {"publish review", "record"} =>
          /\ r.commented = c
          /\ r.decision = "changes_requested" => r.attempts = n + 1
          /\ r.decision # "changes_requested" => r.attempts = n

\* An attempt that is counted and not yet dispatched.
Fresh(r, n, d) == r.pc = "dispatch" => 1 <= r.attempts /\ r.attempts <= n /\ r.attempts \notin d

Alone == \A g, h \in Groups : run[g].pc \in Busy /\ run[h].pc \in Busy => g = h

Tallies == \A g \in Groups : Tallied(run[g], attempts, commented)

Fixes ==
    /\ \A g \in Groups : Fresh(run[g], attempts, dispatched)
    /\ \A g, h \in Groups :
          run[g].pc = "dispatch" /\ run[h].pc = "dispatch" /\ run[g].attempts = run[h].attempts
             => g = h
    /\ \A a \in dispatched : 1 <= a /\ a <= attempts

FixInv == TypeInv /\ (~overlapped => Alone /\ Tallies /\ Fixes /\ ~repeated)

\* A run that neither records nor dispatches changes nothing of this.
LEMMA Quiet ==
    ASSUME Alone, Tallies, Fixes, NEW g \in Groups,
           \A h \in Groups : h # g => run'[h] = run[h],
           run'[g].pc \notin Busy \cup {"dispatch"},
           attempts' = attempts, commented' = commented, dispatched' = dispatched
    PROVE  Alone' /\ Tallies' /\ Fixes'
<1>1. Alone'
  BY DEF Alone
<1>2. Tallies'
  BY DEF Tallies, Tallied, Busy
<1>3. Fixes'
  BY DEF Fixes, Fresh
<1> QED
  BY <1>1, <1>2, <1>3

\* Nor does one that goes on with what it read.
LEMMA Carried ==
    ASSUME Alone, Tallies, Fixes, NEW g \in Groups,
           \A h \in Groups : h # g => run'[h] = run[h],
           run[g].pc \in Busy, run'[g].pc \in Busy,
           Tallied(run'[g], attempts, commented),
           attempts' = attempts, commented' = commented, dispatched' = dispatched
    PROVE  Alone' /\ Tallies' /\ Fixes'
<1>1. Alone'
  BY DEF Alone
<1>2. Tallies'
  BY DEF Tallies
<1>3. Fixes'
  BY DEF Fixes, Fresh, Busy
<1> QED
  BY <1>1, <1>2, <1>3

\* The gate keeps count.
LEMMA FixStep == FixInv /\ [Next]_vars => FixInv'
<1> SUFFICES ASSUME FixInv, [Next]_vars, ~overlapped'
             PROVE  Alone' /\ Tallies' /\ Fixes' /\ ~repeated'
  BY TypeStep DEF FixInv
<1>o. ~overlapped
  <2>1. ASSUME NEW g \in Groups, Gather(g) PROVE ~overlapped
    BY <2>1, Zenon DEF Gather
  <2>2. ASSUME NEW g \in Groups, Gate(g) \/ MergeJob(g) \/ Die(g), ~Gather(g)
        PROVE  overlapped' = overlapped
    BY <2>2, Zenon DEF Gate, Resolve, Context, Review, PublishRisk, PublishReview, Record,
                       Dispatch, MergeJob, MergeRead, UpdateBranch, TryMerge, Recheck,
                       EnableAutoMerge, Poll, Announce, Die, noted
  <2>3. ASSUME Environment \/ UNCHANGED vars PROVE overlapped' = overlapped
    BY <2>3, Zenon DEF Environment, Push, Report, Request, BaseMoves, Hold, AutoMerge,
                       noted, vars
  <2> QED
    BY <2>1, <2>2, <2>3, Zenon DEF Next
<1>t. TypeInv
  BY DEF FixInv
<1>i. Alone /\ Tallies /\ Fixes /\ ~repeated
  BY <1>o, Zenon DEF FixInv
<1>a. attempts \in Nat
  BY <1>t, Bounds DEF TypeInv, TypeOK, DataOK
<1>r. \A g \in Groups : run[g] \in Run
  BY <1>t DEF TypeInv, TypeOK
<1>1. ASSUME NEW g \in Groups, Resolve(g) \/ Context(g) \/ MergeJob(g) \/ Die(g)
      PROVE  Alone' /\ Tallies' /\ Fixes' /\ ~repeated'
  <2>1. /\ attempts' = attempts /\ commented' = commented /\ dispatched' = dispatched
        /\ repeated' = repeated
    BY <1>1, Zenon DEF Resolve, Context, MergeJob, MergeRead, UpdateBranch, TryMerge, Recheck,
                       EnableAutoMerge, Poll, Announce, Die, comment, noted
  <2>2. \A h \in Groups : h # g => run'[h] = run[h]
    BY <1>1, <1>t, OneSteps DEF Gate
  <2>3. run'[g].pc \notin Busy \cup {"dispatch"}
    <3>1. CASE Resolve(g)
      <4>1. CASE state = "open"
        <5>1. run'[g] = [Rest EXCEPT !.pc = "context", !.sha = head]
          BY <1>t, <3>1, <4>1, OthersStay DEF Resolve
        <5> QED
          BY <5>1 DEF Busy, Rest
      <4>2. CASE state # "open"
        BY <3>1, <4>2 DEF Resolve, At, Busy
      <4> QED
        BY <4>1, <4>2
    <3>2. CASE Context(g)
      <4>1. run'[g] = [run[g] EXCEPT !.pc = "gather", !.context = head, !.held = hold]
        BY <1>t, <3>2, OthersStay DEF Context
      <4> QED
        BY <1>r, <4>1 DEF Busy, Run
    <3>3. CASE MergeJob(g) \/ Die(g)
      <4>1. \/ End(g)
            \/ \E pc \in {"update", "try", "recheck", "enable", "poll", "announce"} : Goto(g, pc)
        BY <3>3 DEF MergeJob, MergeRead, UpdateBranch, TryMerge, Recheck, EnableAutoMerge,
                    Poll, Announce, Die
      <4>2. CASE End(g)
        <5>1. run'[g] = Rest /\ Rest.pc = "idle"
          BY <1>t, <4>2, OthersStay, RestType DEF End
        <5> QED
          BY <5>1 DEF Busy
      <4>3. ASSUME NEW pc \in {"update", "try", "recheck", "enable", "poll", "announce"},
                   Goto(g, pc)
            PROVE  run'[g].pc \notin Busy \cup {"dispatch"}
        BY <1>t, <4>3, Goes DEF Busy
      <4> QED
        BY <4>1, <4>2, <4>3
    <3> QED
      BY <1>1, <3>1, <3>2, <3>3
  <2>4. Alone' /\ Tallies' /\ Fixes'
    BY <1>i, <2>1, <2>2, <2>3, Quiet
  <2> QED
    BY <1>i, <2>1, <2>4, Zenon
<1>2. ASSUME Environment \/ UNCHANGED vars
      PROVE  Alone' /\ Tallies' /\ Fixes' /\ ~repeated'
  <2>1. /\ attempts' = attempts /\ commented' = commented /\ dispatched' = dispatched
        /\ repeated' = repeated /\ run' = run
    BY <1>2, Zenon DEF Environment, Push, Report, Request, BaseMoves, Hold, AutoMerge,
                       comment, noted, vars
  <2>2. Alone' /\ Tallies' /\ Fixes'
    BY <1>i, <2>1 DEF Alone, Tallies, Fixes
  <2> QED
    BY <1>i, <2>1, <2>2, Zenon
<1>3. ASSUME NEW g \in Groups, Gather(g)
      PROVE  Alone' /\ Tallies' /\ Fixes' /\ ~repeated'
  <2> DEFINE r == [run[g] EXCEPT !.pc = "review", !.context = 1, !.diff = head,
                                 !.checks = ci[run[g].context], !.approved = approved,
                                 !.commented = commented, !.attempts = attempts]
  <2>1. run'[g] = r
    BY <1>3, <1>t, OthersStay DEF Gather
  <2>2. r.pc = "review" /\ r.attempts = attempts /\ r.commented = commented
    BY <1>r DEF Run
  <2>3. /\ attempts' = attempts /\ commented' = commented /\ dispatched' = dispatched
        /\ repeated' = repeated
    BY <1>3, Zenon DEF Gather, comment
  <2>4. \A h \in Groups : h # g => run'[h] = run[h]
    BY <1>3, <1>t, OneSteps DEF Gate
  <2>5. \A h \in Groups : run[h].pc \notin Busy
    <3>1. \A h \in Groups : ~Recording(h)
      BY <1>3, Zenon DEF Gather
    <3> QED
      BY <3>1 DEF Recording, Busy
  <2> HIDE DEF r
  <2>6. Alone'
    BY <2>4, <2>5 DEF Alone
  <2>7. Tallies'
    BY <2>1, <2>2, <2>3, <2>4, <2>5 DEF Tallies, Tallied, Busy
  <2>8. Fixes'
    BY <1>i, <2>1, <2>2, <2>3, <2>4 DEF Fixes, Fresh
  <2> QED
    BY <1>i, <2>3, <2>6, <2>7, <2>8, Zenon
<1>4. ASSUME NEW g \in Groups, Review(g) \/ PublishRisk(g) \/ PublishReview(g)
      PROVE  Alone' /\ Tallies' /\ Fixes' /\ ~repeated'
  <2> DEFINE q == run[g]
  <2>1. /\ attempts' = attempts /\ commented' = commented /\ dispatched' = dispatched
        /\ repeated' = repeated
    BY <1>4, Zenon DEF Review, PublishRisk, PublishReview, comment, noted
  <2>2. \A h \in Groups : h # g => run'[h] = run[h]
    BY <1>4, <1>t, OneSteps DEF Gate
  <2>3. q.pc \in Busy /\ Tallied(q, attempts, commented)
    BY <1>4, <1>i DEF Review, PublishRisk, PublishReview, At, Busy, Tallies
  <2>4. run'[g].pc \in Busy /\ Tallied(run'[g], attempts, commented)
    <3>1. CASE Review(g)
      <4> DEFINE After(pc, v) == [q EXCEPT !.pc = pc, !.read = q.read \cup {head},
                                           !.passes = q.passes + 1, !.verdict = v]
             to == IF q.passes + 1 < Reviewers(kind[q.diff]) THEN "review" ELSE "publish risk"
      <4>1. PICK v \in Verdicts : Become(g, After(to, Worse(q.verdict, v)))
        BY <3>1 DEF Review
      <4> DEFINE r == After(to, Worse(q.verdict, v))
      <4>2. /\ r.pc \in {"review", "publish risk"}
            /\ r.attempts = q.attempts /\ r.commented = q.commented
        BY <1>r DEF Run
      <4>3. q.attempts = attempts /\ q.commented = commented
        BY <2>3, <3>1 DEF Review, At, Tallied
      <4>4. run'[g] = r
        BY <1>t, <4>1, OthersStay
      <4> HIDE DEF r
      <4> QED
        BY <4>2, <4>3, <4>4 DEF Tallied, Busy
    <3>2. CASE PublishRisk(g)
      <4> DEFINE r == [Rest EXCEPT !.pc = "publish review", !.sha = q.sha,
                                   !.commented = q.commented, !.attempts = Counted(q),
                                   !.gate = ReviewGate(q), !.decision = Decision(q)]
      <4>1. run'[g] = r
        BY <1>t, <3>2, OthersStay DEF PublishRisk
      <4>2. /\ r.pc = "publish review" /\ r.commented = q.commented
            /\ r.attempts = Counted(q) /\ r.decision = Decision(q)
        BY DEF Rest
      <4>3. q.attempts = attempts /\ q.commented = commented
        BY <2>3, <3>2 DEF PublishRisk, At, Tallied
      <4> HIDE DEF r
      <4> QED
        BY <4>1, <4>2, <4>3 DEF Tallied, Busy, Counted
    <3>3. CASE PublishReview(g)
      <4> DEFINE r == [q EXCEPT !.pc = "record", !.sha = 1, !.gate = "success"]
      <4>1. run'[g] = r
        BY <1>t, <3>3, OthersStay DEF PublishReview
      <4>2. /\ r.pc = "record" /\ r.commented = q.commented
            /\ r.attempts = q.attempts /\ r.decision = q.decision
        BY <1>r DEF Run
      <4>3. q.pc = "publish review"
        BY <3>3 DEF PublishReview, At
      <4> HIDE DEF r, q
      <4> QED
        BY <2>3, <4>1, <4>2, <4>3 DEF Tallied, Busy
    <3> QED
      BY <1>4, <3>1, <3>2, <3>3
  <2>5. Alone' /\ Tallies' /\ Fixes'
    BY <1>i, <2>1, <2>2, <2>3, <2>4, Carried
  <2> QED
    BY <1>i, <2>1, <2>5, Zenon
<1>5. ASSUME NEW g \in Groups, Record(g)
      PROVE  Alone' /\ Tallies' /\ Fixes' /\ ~repeated'
  <2> DEFINE q == run[g]
             d == [Rest EXCEPT !.pc = "dispatch", !.attempts = q.attempts]
             m == [Rest EXCEPT !.pc = "merge"]
  <2>1. dispatched' = dispatched /\ repeated' = repeated
    BY <1>5, Zenon DEF Record
  <2>2. \A h \in Groups : h # g => run'[h] = run[h]
    BY <1>5, <1>t, OneSteps DEF Gate
  <2>3. q.pc = "record" /\ q.commented = commented
    BY <1>5, <1>i DEF Record, At, Tallies, Tallied
  <2>4. attempts' = q.attempts
    <3>1. attempts' = IF ~q.commented /\ commented THEN attempts ELSE q.attempts
      BY <1>5, Zenon DEF Record
    <3> QED
      BY <2>3, <3>1, Zenon
  <2>5. /\ q.decision = "changes_requested" => q.attempts = attempts + 1
        /\ q.decision # "changes_requested" => q.attempts = attempts
    BY <1>i, <2>3 DEF Tallies, Tallied
  <2>6. \/ q.decision = "changes_requested" /\ run'[g] = d
        \/ q.decision # "changes_requested" /\ (run'[g] = m \/ run'[g] = Rest)
    <3>1. \/ q.decision = "changes_requested" /\ Become(g, d)
          \/ q.decision # "changes_requested" /\ (Become(g, m) \/ Become(g, Rest))
      BY <1>5 DEF Record
    <3> HIDE DEF d, m
    <3> QED
      BY <1>t, <3>1, OthersStay
  <2>7. /\ d.pc = "dispatch" /\ d.attempts = q.attempts
        /\ m.pc = "merge" /\ Rest.pc = "idle"
    BY DEF Rest
  <2>8. \A h \in Groups : run[h].pc \in Busy => h = g
    BY <1>i, <2>3 DEF Alone, Busy
  <2> HIDE DEF d, m, q
  <2>9. \A h \in Groups : run'[h].pc \notin Busy
    BY <2>2, <2>6, <2>7, <2>8 DEF Busy
  <2>10. Alone' /\ Tallies'
    BY <2>9 DEF Alone, Tallies, Tallied, Busy
  <2>11. attempts <= attempts' /\ attempts' \in Nat
    BY <1>a, <2>4, <2>5
  <2>12. ASSUME NEW h \in Groups, run[h].pc = "dispatch"
         PROVE  /\ 1 <= run[h].attempts /\ run[h].attempts <= attempts
                /\ run[h].attempts \notin dispatched /\ run[h].attempts \in Nat
    BY <1>i, <1>r, <2>12 DEF Fixes, Fresh, Run
  <2>13. \A a \in dispatched : a \in Nat /\ 1 <= a /\ a <= attempts
    BY <1>i, <1>t DEF Fixes, TypeInv, TypeOK, DataOK
  <2>14. ASSUME run'[g].pc = "dispatch"
         PROVE  run'[g].attempts = attempts + 1 /\ attempts' = attempts + 1
    BY <2>4, <2>5, <2>6, <2>7, <2>14
  <2>15. ASSUME NEW h \in Groups, run'[h].pc = "dispatch"
         PROVE  /\ 1 <= run'[h].attempts /\ run'[h].attempts <= attempts'
                /\ run'[h].attempts \notin dispatched
    <3>1. CASE h = g
      BY <1>a, <2>13, <2>14, <2>15, <3>1
    <3>2. CASE h # g
      BY <1>a, <2>2, <2>11, <2>12, <2>15, <3>2
    <3> QED
      BY <3>1, <3>2
  <2>16. ASSUME NEW h \in Groups, NEW k \in Groups, run'[h].pc = "dispatch",
                run'[k].pc = "dispatch", run'[h].attempts = run'[k].attempts
         PROVE  h = k
    <3>1. CASE h # g /\ k # g
      BY <1>i, <2>2, <2>16, <3>1 DEF Fixes
    <3>2. ASSUME NEW x \in Groups, x # g, run'[x].pc = "dispatch", run'[g].pc = "dispatch"
          PROVE  run'[x].attempts # run'[g].attempts
      <4>1. run'[x] = run[x] /\ run[x].pc = "dispatch"
        BY <2>2, <3>2
      <4>2. run[x].attempts \in Nat /\ run[x].attempts <= attempts
        BY <2>12, <4>1
      <4> QED
        BY <1>a, <2>14, <3>2, <4>1, <4>2
    <3> QED
      BY <2>16, <3>1, <3>2
  <2>17. \A a \in dispatched' : 1 <= a /\ a <= attempts'
    BY <1>a, <2>1, <2>11, <2>13
  <2>18. Fixes'
    BY <2>1, <2>15, <2>16, <2>17 DEF Fixes, Fresh
  <2> QED
    BY <1>i, <2>1, <2>10, <2>18, Zenon
<1>6. ASSUME NEW g \in Groups, Dispatch(g)
      PROVE  Alone' /\ Tallies' /\ Fixes' /\ ~repeated'
  <2> DEFINE q == run[g]
  <2>1. /\ attempts' = attempts /\ commented' = commented
        /\ dispatched' = dispatched \cup {q.attempts}
        /\ repeated' = (repeated \/ q.attempts \in dispatched)
    BY <1>6, Zenon DEF Dispatch, comment
  <2>2. \A h \in Groups : h # g => run'[h] = run[h]
    BY <1>6, <1>t, OneSteps DEF Gate
  <2>3. run'[g].pc = "idle"
    BY <1>6, <1>t, OthersStay DEF Dispatch, End, Rest
  <2>4. q.pc = "dispatch"
    BY <1>6 DEF Dispatch, At
  <2>5. 1 <= q.attempts /\ q.attempts <= attempts /\ q.attempts \notin dispatched
    BY <1>i, <2>4 DEF Fixes, Fresh
  <2>6. \A h \in Groups : h # g /\ run[h].pc = "dispatch" => run[h].attempts # q.attempts
    BY <1>i, <2>4 DEF Fixes
  <2> HIDE DEF q
  <2>7. Alone'
    BY <1>i, <2>2, <2>3 DEF Alone, Busy
  <2>8. Tallies'
    BY <1>i, <2>1, <2>2, <2>3 DEF Tallies, Tallied
  <2>9. Fixes'
    BY <1>i, <2>1, <2>2, <2>3, <2>5, <2>6 DEF Fixes, Fresh
  <2>10. ~repeated'
    BY <1>i, <2>1, <2>5, Zenon
  <2> QED
    BY <2>7, <2>8, <2>9, <2>10
<1> QED
  BY <1>1, <1>2, <1>3, <1>4, <1>5, <1>6 DEF Next, Gate

\* While no two runs read and wrote the comment at the same time, no attempt is
\* dispatched twice and none beyond the limit, wherever runs die.
THEOREM FixesAccounted == Spec => []FixesAreAccounted
<1>1. Init => FixInv
  <2>1. ASSUME Init PROVE Alone /\ Tallies /\ Fixes /\ ~repeated
    <3>1. \A g \in Groups : run[g].pc = "idle"
      BY <2>1 DEF Init, Rest
    <3>2. dispatched = {} /\ repeated = FALSE
      BY <2>1, Zenon DEF Init
    <3>3. Alone /\ Tallies /\ Fixes
      BY <3>1, <3>2 DEF Alone, Tallies, Tallied, Fixes, Fresh, Busy
    <3> QED
      BY <3>2, <3>3, Zenon
  <2> QED
    BY <2>1, TypeInit DEF FixInv
<1>2. FixInv => FixesAreAccounted
  <2> SUFFICES ASSUME FixInv, ~overlapped
               PROVE  ~repeated /\ dispatched \subseteq 1 .. MaxReviewAttempts
    BY Zenon DEF FixesAreAccounted
  <2>1. Fixes /\ ~repeated /\ TypeInv
    BY Zenon DEF FixInv
  <2>2. dispatched \subseteq Nat /\ attempts \in Nat /\ attempts <= MaxReviewAttempts
    BY <2>1, Bounds DEF TypeInv, TypeOK, DataOK
  <2>3. ASSUME NEW a \in dispatched PROVE a \in 1 .. MaxReviewAttempts
    <3>1. a \in Nat /\ 1 <= a /\ a <= attempts
      BY <2>1, <2>2 DEF Fixes
    <3> QED
      BY <2>2, <3>1, Bounds
  <2> QED
    BY <2>1, <2>3
<1> QED
  BY <1>1, <1>2, FixStep, PTL DEF Spec
=============================================================================
