------------------------------ MODULE LoopGate ------------------------------
(***************************************************************************)
(* The gate of the control plane (.github/workflows/loop-pr.yml, with      *)
(* tooling/loop) over one pull request.  A run of the workflow resolves    *)
(* the head commit, takes a snapshot, has reviewers read the pull request, *)
(* decides, publishes two check runs, records the round in a comment,      *)
(* dispatches a fix, and in a second job merges.  An action is one call,   *)
(* or a few that nothing can come between; elsewhere people push, hold and *)
(* review, and other runs work on the same pull request: of the runs of    *)
(* one concurrency group one works and one waits, but every head commit    *)
(* and the number of the pull request are groups of their own.             *)
(*                                                                         *)
(* Left out: drafts, forks, closing without a merge, the labels the gate   *)
(* sets (it never reads one of them but needs:human), the wording of the   *)
(* comment and its history, and people who edit the comment.               *)
(***************************************************************************)
EXTENDS Naturals, FiniteSets

CONSTANTS
    MaxHeads,            \* bound: commits pushed to the branch
    MaxRequests,         \* bound: reviews submitted and manual evaluations
    MaxRunning,          \* bound: runs that work at the same time
    MaxReviewAttempts,   \* policy.retry.maxReviewAttempts
    Kinds,               \* what a pushed change is, of ChangeKinds
    Faults               \* what the environment may do, of FaultKinds

ChangeKinds == {"low", "high", "weakening"}
FaultKinds == {"throw", "base", "hold"}

ASSUME GateAssumption ==
    /\ MaxHeads \in Nat \ {0}
    /\ MaxRequests \in Nat
    /\ MaxRunning \in Nat \ {0}
    /\ MaxReviewAttempts \in Nat
    /\ Kinds \subseteq ChangeKinds
    /\ Faults \subseteq FaultKinds

Heads == 1 .. MaxHeads

\* The concurrency groups: one per commit, for the runs that CI starts, and one for
\* the runs that name the number of the pull request.
ByNumber == 0
Groups == {ByNumber} \cup Heads

VARIABLES
    \* the pull request
    state, head, kind, behind, autoMerge, hold, approved,
    \* what is published on it
    ci,          \* ci[h]: the checks CI reports on commit h
    risk,        \* risk[h]: the newest loop/risk-gate check run on commit h
    review,      \* review[h]: the newest loop/review-gate check run on commit h
    commented,   \* the sticky comment is there
    attempts,    \* the attempts it counts
    announced,   \* loop-next-issue was told of the merge
    \* the workflow
    waiting,     \* groups with a run that waits
    run,         \* run[g]: the run of group g that works
    \* history
    requests,    \* reviews submitted and manual evaluations
    vetted,      \* commits that as many reviewers approved as they need
    dispatched,  \* the attempts a fix was dispatched for
    repeated,    \* one of them more than once
    overlapped,  \* a run read the comment while another was about to write it
    direct,      \* the groups whose run merged it
    silenced     \* those of them that died, or could not announce it

people  == <<hold, approved, requests>>
checks  == <<ci, risk, review>>
comment == <<commented, attempts>>
noted   == <<vetted, dispatched, repeated, overlapped, direct, silenced>>
vars    == <<state, head, kind, behind, autoMerge, people, checks, comment,
             announced, waiting, run, noted>>

-----------------------------------------------------------------------------
Verdicts == {"approve", "request_changes", "blocked"}

Run == [pc : {"idle", "context", "gather", "review", "publish risk", "publish review",
              "record", "dispatch", "merge", "update", "try", "recheck",
              "enable", "poll", "announce"},
        sha       : Heads,     \* the head commit when the run resolved it
        context   : Heads,     \* when it read the pull request
        diff      : Heads,     \* when it read the diff
        held      : BOOLEAN,
        checks    : {"none", "pending", "passing", "failing"},
        approved  : BOOLEAN,
        commented : BOOLEAN,
        attempts  : Nat,
        read      : SUBSET Heads,   \* the head commits its reviewers saw
        passes    : Nat,
        verdict   : Verdicts,
        gate      : {"success", "failure"},
        decision  : {"none", "human_approval_required", "blocked", "changes_requested",
                     "waiting", "auto_merge"}]

Rest == [pc |-> "idle", sha |-> 1, context |-> 1, diff |-> 1, held |-> FALSE,
         checks |-> "none", approved |-> FALSE, commented |-> FALSE, attempts |-> 0,
         read |-> {}, passes |-> 0, verdict |-> "approve", gate |-> "success",
         decision |-> "none"]

\* reviewersForRisk.  Low stands for medium risk as well; what weakens a protection
\* is at high risk.
Reviewers(k) == IF k = "low" THEN 1 ELSE 2

\* aggregateReviews: the worst verdict counts.
Worse(v, w) ==
    IF "blocked" \in {v, w} THEN "blocked"
    ELSE IF "request_changes" \in {v, w} THEN "request_changes"
    ELSE "approve"

RiskGate(r) == IF kind[r.diff] = "weakening" THEN "failure" ELSE "success"

ReviewGate(r) == IF r.verdict = "approve" THEN "success" ELSE "failure"

\* mutant: one attempt too many
Tried(r) == r.attempts > MaxReviewAttempts

RetriesExhausted(r) == r.attempts >= MaxReviewAttempts

\* decideMerge, for a pull request that is neither a draft nor from a fork: the
\* first objection decides.
Decision(r) ==
    IF r.held THEN "human_approval_required"
    ELSE IF kind[r.diff] = "weakening" /\ ~r.approved THEN "human_approval_required"
    ELSE IF r.verdict = "blocked" THEN "blocked"
    ELSE IF ReviewGate(r) = "failure" \/ r.checks = "failing"
         THEN IF RetriesExhausted(r) THEN "blocked" ELSE "changes_requested"
    ELSE IF r.checks # "passing" THEN "waiting"
    ELSE "auto_merge"

\* recordRound: only a round that asked for changes counts.
Counted(r) == IF Decision(r) = "changes_requested" THEN r.attempts + 1 ELSE r.attempts

\* The ruleset of the default branch, which every merge is subject to.
Mergeable ==
    /\ state = "open"
    /\ ~behind
    /\ ci[head] = "passing" /\ risk[head] = "success" /\ review[head] = "success"

Init ==
    /\ state = "open"
    /\ head = 1
    /\ \E k \in Kinds : kind = [h \in Heads |-> k]
    /\ behind = FALSE
    /\ autoMerge \in BOOLEAN     \* the local runner may have asked for it
    /\ hold = FALSE
    /\ approved = FALSE
    /\ requests = 0
    /\ ci = [h \in Heads |-> IF h = 1 THEN "pending" ELSE "none"]
    /\ risk = [h \in Heads |-> "none"]
    /\ review = [h \in Heads |-> "none"]
    /\ commented = FALSE
    /\ attempts = 0
    /\ announced = FALSE
    /\ waiting = {}
    /\ run = [g \in Groups |-> Rest]
    /\ vetted = {}
    /\ dispatched = {}
    /\ repeated = FALSE
    /\ overlapped = FALSE
    /\ direct = {}
    /\ silenced = {}

-----------------------------------------------------------------------------
(***************************************************************************)
(* The job "gate".                                                         *)
(***************************************************************************)

At(g, pc) == run[g].pc = pc
Become(g, r) == run' = [run EXCEPT ![g] = r]
Goto(g, pc) == Become(g, [run[g] EXCEPT !.pc = pc])
End(g) == Become(g, Rest)

\* The run's turn has come, and it resolves the pull request.
Resolve(g) ==
    /\ g \in waiting
    /\ At(g, "idle")
    /\ Cardinality({other \in Groups : ~At(other, "idle")}) < MaxRunning
    /\ waiting' = waiting \ {g}
    /\ IF state = "open"
       THEN Become(g, [Rest EXCEPT !.pc = "context", !.sha = head])
       ELSE UNCHANGED run
    /\ UNCHANGED <<state, head, kind, behind, autoMerge, people, checks, comment,
                   announced, noted>>

Context(g) ==
    /\ At(g, "context")
    /\ Become(g, [run[g] EXCEPT !.pc = "gather", !.context = head, !.held = hold])
    /\ UNCHANGED <<state, head, kind, behind, autoMerge, people, checks, comment,
                   announced, waiting, noted>>

\* Between reading the comment and writing it.
Recording(g) == run[g].pc \in {"review", "publish risk", "publish review", "record"}

\* The diff, the checks of the commit that was read before, the approvals of people,
\* and the comment.
Gather(g) ==
    /\ At(g, "gather")
    /\ Become(g, [run[g] EXCEPT !.pc = "review", !.context = 1, !.diff = head,
                                !.checks = ci[run[g].context], !.approved = approved,
                                !.commented = commented, !.attempts = attempts])
    /\ overlapped' = (overlapped \/ \E other \in Groups : Recording(other))
    /\ UNCHANGED <<state, head, kind, behind, autoMerge, people, checks, comment,
                   announced, waiting, vetted, dispatched, repeated, direct, silenced>>

\* One reviewer reads the pull request as it is by now.  A reviewer that fails
\* counts as "blocked".
Review(g) ==
    /\ At(g, "review")
    /\ \E v \in Verdicts :
          LET r == run[g]
              more == r.passes + 1 < Reviewers(kind[r.diff])
          IN  Become(g, [r EXCEPT !.pc = IF more THEN "review" ELSE "publish risk",
                                  !.read = r.read \cup {head},
                                  !.passes = r.passes + 1,
                                  !.verdict = Worse(r.verdict, v)])
    /\ UNCHANGED <<state, head, kind, behind, autoMerge, people, checks, comment,
                   announced, waiting, noted>>

\* Evaluate the gate, of which only the outcome is kept, and publish the first of its
\* check runs.
PublishRisk(g) ==
    /\ At(g, "publish risk")
    /\ LET r == run[g] IN
          /\ risk' = [risk EXCEPT ![r.sha] = RiskGate(r)]
          /\ vetted' = vetted \cup {h \in Heads : /\ r.read = {h}
                                                  /\ r.passes >= Reviewers(kind[h])
                                                  /\ r.verdict = "approve"}
          /\ Become(g, [Rest EXCEPT !.pc = "publish review", !.sha = r.sha,
                                    !.commented = r.commented, !.attempts = Counted(r),
                                    !.gate = ReviewGate(r), !.decision = Decision(r)])
    /\ UNCHANGED <<state, head, kind, behind, autoMerge, people, ci, review, comment,
                   announced, waiting, dispatched, repeated, overlapped, direct, silenced>>

\* mutant: the check run goes to the commit that is the head by now
NewestCommit(r) == head

ReviewedCommit(r) == r.sha

PublishReview(g) ==
    /\ At(g, "publish review")
    /\ review' = [review EXCEPT ![ReviewedCommit(run[g])] = run[g].gate]
    /\ Become(g, [run[g] EXCEPT !.pc = "record", !.sha = 1, !.gate = "success"])
    /\ UNCHANGED <<state, head, kind, behind, autoMerge, people, ci, risk, comment,
                   announced, waiting, noted>>

\* Rewrite the comment the run has read, or create one; of two comments the first is
\* the one that is read again.  The decision says how the run goes on, or that it ends.
Record(g) ==
    /\ At(g, "record")
    /\ LET r == run[g] IN
          /\ attempts' = IF ~r.commented /\ commented THEN attempts ELSE r.attempts
          /\ Become(g, CASE r.decision = "changes_requested" ->
                             [Rest EXCEPT !.pc = "dispatch", !.attempts = r.attempts]
                       [] r.decision = "auto_merge" -> [Rest EXCEPT !.pc = "merge"]
                       [] OTHER -> Rest)
    /\ commented' = TRUE
    /\ UNCHANGED <<state, head, kind, behind, autoMerge, people, checks,
                   announced, waiting, vetted, dispatched, repeated, overlapped,
                   direct, silenced>>

Dispatch(g) ==
    /\ At(g, "dispatch")
    /\ LET attempt == run[g].attempts IN
          /\ dispatched' = dispatched \cup {attempt}
          /\ repeated' = (repeated \/ attempt \in dispatched)
    /\ End(g)
    /\ UNCHANGED <<state, head, kind, behind, autoMerge, people, checks, comment,
                   announced, waiting, vetted, overlapped, direct,
                   silenced>>

-----------------------------------------------------------------------------
(***************************************************************************)
(* The job "merge".                                                        *)
(***************************************************************************)

MergeRead(g) ==
    /\ At(g, "merge")
    /\ \/ state = "merged" /\ Goto(g, "announce")
       \/ state # "merged" /\ behind /\ Goto(g, "update")
       \/ state # "merged" /\ ~behind /\ Goto(g, "try")
    /\ UNCHANGED <<state, head, kind, behind, autoMerge, people, checks, comment,
                   announced, waiting, noted>>

\* Merge the base branch into the head.  Nothing GITHUB_TOKEN pushes starts CI.
UpdateBranch(g) ==
    /\ At(g, "update")
    /\ \/ /\ state = "open" /\ behind /\ head < MaxHeads
          /\ head' = head + 1
          /\ kind' = [kind EXCEPT ![head + 1] = kind[head]]
          /\ behind' = FALSE
       \/ /\ state # "open" \/ ~behind \/ head = MaxHeads \/ "throw" \in Faults
          /\ UNCHANGED <<head, kind, behind>>
    /\ End(g)
    /\ UNCHANGED <<state, autoMerge, people, checks, comment, announced,
                   waiting, noted>>

\* The merge names no commit: GitHub merges what the head is by then.  Its answer
\* may be lost.
TryMerge(g) ==
    /\ At(g, "try")
    /\ \/ /\ Mergeable
          /\ state' = "merged"
          /\ direct' = direct \cup {g}
          /\ Goto(g, "announce") \/ ("throw" \in Faults /\ Goto(g, "recheck"))
       \/ /\ ~Mergeable \/ "throw" \in Faults
          /\ Goto(g, "recheck")
          /\ UNCHANGED <<state, direct>>
    /\ UNCHANGED <<head, kind, behind, autoMerge, people, checks, comment,
                   announced, waiting, vetted, dispatched, repeated, overlapped, silenced>>

\* mutant: what could not be merged is left to GitHub without a second look
Delegate(g) ==
    /\ At(g, "recheck")
    /\ Goto(g, "enable")
    /\ UNCHANGED <<state, head, kind, behind, autoMerge, people, checks, comment,
                   announced, waiting, noted>>

Recheck(g) ==
    /\ At(g, "recheck")
    /\ Goto(g, IF state = "merged" THEN "announce" ELSE "enable")
    /\ UNCHANGED <<state, head, kind, behind, autoMerge, people, checks, comment,
                   announced, waiting, noted>>

\* Ask GitHub to merge later; GitHub may decline, for one because it could merge now.
EnableAutoMerge(g) ==
    /\ At(g, "enable")
    /\ \/ state = "open" /\ autoMerge' = TRUE /\ Goto(g, "poll")
       \/ UNCHANGED autoMerge /\ End(g)
    /\ UNCHANGED <<state, head, kind, behind, people, checks, comment,
                   announced, waiting, noted>>

\* For a minute; then the run ends, whatever happens later.
Poll(g) ==
    /\ At(g, "poll")
    /\ \/ state = "merged" /\ Goto(g, "announce")
       \/ state # "merged" /\ End(g)
    /\ UNCHANGED <<state, head, kind, behind, autoMerge, people, checks, comment,
                   announced, waiting, noted>>

\* Tried twice.
Announce(g) ==
    /\ At(g, "announce")
    /\ \/ announced' = TRUE /\ UNCHANGED silenced
       \/ "throw" \in Faults /\ silenced' = silenced \cup ({g} \cap direct) /\ UNCHANGED announced
    /\ End(g)
    /\ UNCHANGED <<state, head, kind, behind, autoMerge, people, checks, comment,
                   waiting, vetted, dispatched, repeated, overlapped, direct>>

\* A call of the gate threw, or the runner died.
Die(g) ==
    /\ ~At(g, "idle")
    /\ "throw" \in Faults
    /\ End(g)
    /\ silenced' = silenced \cup ({g} \cap direct)
    /\ UNCHANGED <<state, head, kind, behind, autoMerge, people, checks, comment,
                   announced, waiting, vetted, dispatched, repeated, overlapped, direct>>

-----------------------------------------------------------------------------
(***************************************************************************)
(* GitHub, the coding agent and people.                                    *)
(***************************************************************************)

\* The agent or a person pushes, perhaps with the base branch merged in.
Push(k) ==
    /\ state = "open"
    /\ head < MaxHeads
    /\ head' = head + 1
    /\ kind' = [kind EXCEPT ![head + 1] = k]
    /\ ci' = [ci EXCEPT ![head + 1] = "pending"]
    /\ behind' \in {behind, FALSE}
    /\ UNCHANGED <<state, autoMerge, people, risk, review, comment, announced,
                   waiting, run, noted>>

\* CI completes on a commit, the newest or not, and starts the gate.
Report(h) ==
    /\ ci[h] = "pending"
    /\ \E v \in {"passing", "failing"} : ci' = [ci EXCEPT ![h] = v]
    /\ waiting' = waiting \cup {h}
    /\ UNCHANGED <<state, head, kind, behind, autoMerge, people, risk, review, comment,
                   announced, run, noted>>

\* A person submits or dismisses a review, or asks for an evaluation.
Request ==
    /\ state = "open"
    /\ requests < MaxRequests
    /\ requests' = requests + 1
    /\ approved' \in BOOLEAN
    /\ waiting' = waiting \cup {ByNumber}
    /\ UNCHANGED <<state, head, kind, behind, autoMerge, hold, checks, comment,
                   announced, run, noted>>

BaseMoves ==
    /\ "base" \in Faults
    /\ state = "open"
    /\ behind' = TRUE
    /\ UNCHANGED <<state, head, kind, autoMerge, people, checks, comment,
                   announced, waiting, run, noted>>

\* A person applies or removes needs:human.
Hold ==
    /\ "hold" \in Faults
    /\ state = "open"
    /\ hold' = ~hold
    /\ UNCHANGED <<state, head, kind, behind, autoMerge, approved, requests, checks, comment,
                   announced, waiting, run, vetted, dispatched, repeated,
                   overlapped, direct, silenced>>

\* GitHub completes an auto-merge.
AutoMerge ==
    /\ autoMerge
    /\ Mergeable
    /\ state' = "merged"
    /\ UNCHANGED <<head, kind, behind, autoMerge, people, checks, comment,
                   announced, waiting, run, noted>>

-----------------------------------------------------------------------------
Gate(g) ==
    \/ Resolve(g) \/ Context(g) \/ Gather(g) \/ Review(g) \/ PublishRisk(g)
    \/ PublishReview(g) \/ Record(g) \/ Dispatch(g)

MergeJob(g) ==
    \/ MergeRead(g) \/ UpdateBranch(g) \/ TryMerge(g) \/ Recheck(g) \/ EnableAutoMerge(g)
    \/ Poll(g) \/ Announce(g)

Environment ==
    \/ \E k \in Kinds : Push(k)
    \/ \E h \in Heads : Report(h)
    \/ Request \/ BaseMoves \/ Hold \/ AutoMerge

Next == (\E g \in Groups : Gate(g) \/ MergeJob(g) \/ Die(g)) \/ Environment

Spec == Init /\ [][Next]_vars

\* Runs of the workflow take their steps, and CI completes.
FairSpec ==
    /\ Spec
    /\ \A g \in Groups : WF_vars(Gate(g) \/ MergeJob(g) \/ Die(g))
    /\ \A h \in Heads : WF_vars(Report(h))

-----------------------------------------------------------------------------
(***************************************************************************)
(* Properties.                                                             *)
(***************************************************************************)

FlagsOK ==
    /\ behind \in BOOLEAN /\ autoMerge \in BOOLEAN /\ hold \in BOOLEAN
    /\ approved \in BOOLEAN /\ commented \in BOOLEAN /\ announced \in BOOLEAN
    /\ repeated \in BOOLEAN /\ overlapped \in BOOLEAN

DataOK ==
    /\ state \in {"open", "merged"}
    /\ head \in Heads
    /\ kind \in [Heads -> Kinds]
    /\ ci \in [Heads -> {"none", "pending", "passing", "failing"}]
    /\ risk \in [Heads -> {"none", "success", "failure"}]
    /\ review \in [Heads -> {"none", "success", "failure"}]
    /\ attempts \in 0 .. MaxReviewAttempts
    /\ requests \in 0 .. MaxRequests
    /\ waiting \subseteq Groups
    /\ vetted \subseteq Heads
    /\ dispatched \subseteq Nat
    /\ direct \subseteq Groups
    /\ silenced \subseteq Groups

\* The pull request, what is published on it and the runs over it have their types;
\* the comment never counts more than the attempts the policy allows.
TypeOK == FlagsOK /\ DataOK /\ run \in [Groups -> Run]

\* "A missing review is never an approval" (loop-pr.yml), and a review of another
\* commit is none: what is merged, by the workflow or by an auto-merge, and whatever
\* was pushed while a run worked, was approved as that very commit by as many
\* reviewers as its tier needs, and weakens no protection, not even with the approval of a
\* person: riskGate fails such a commit whatever decideMerge makes of the approval.
MergedWasReviewed == state = "merged" => head \in vetted /\ kind[head] # "weakening"

\* "The limit is retry.maxReviewAttempts" (docs/loop-engineering.md): as long as no two
\* runs had the comment open at once, every attempt is dispatched at most once, and
\* none beyond the limit, wherever runs died (Gather, Record and Dispatch).
FixesAreAccounted ==
    ~overlapped => ~repeated /\ dispatched \subseteq 1 .. MaxReviewAttempts

\* "Merging here instead keeps the merge and its announcement in the same run"
\* (loop-pr.yml): a merge the workflow made is announced by the time its run has
\* ended, also when the answer to the merge was lost, unless the run died or both
\* tries to announce failed (TryMerge, Recheck, Announce).
DirectMergeIsAnnounced ==
    \A g \in direct : At(g, "idle") => announced \/ g \in silenced

\* "Approve it and the gate turns green, at which point the same automatic merge applies"
\* (docs/loop-engineering.md): the commit on which a run decides to merge is not failed by
\* the risk gate of that run (Decision and RiskGate).
ApprovedTurnsGreen ==
    \A g \in Groups :
        At(g, "publish review") /\ run[g].decision = "auto_merge" => risk[run[g].sha] = "success"

\* "The push restarts CI and this gate, so the updated head is reviewed again before
\* anything merges" (loop-pr.yml, MergeRead and UpdateBranch): a head commit gets a
\* verdict, or is replaced.
HeadIsEvaluated ==
    \A h \in Heads :
        head = h /\ state = "open" ~> head # h \/ state # "open" \/ review[h] # "none"
=============================================================================
