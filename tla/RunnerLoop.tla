----------------------------- MODULE RunnerLoop -----------------------------
(***************************************************************************)
(* The unattended local runner (tooling/local-runner): one process that    *)
(* claims issues on GitHub, has an agent implement them round by round,    *)
(* verifies and reviews every round, pushes, opens a pull request, and     *)
(* then follows that pull request.  Between any two calls the process may  *)
(* be killed, and every call to GitHub may throw, before or after it took  *)
(* effect.  What survives a restart is GitHub (labels, pull requests), the *)
(* journal, the worktrees and the pushed branches.                         *)
(*                                                                         *)
(* Every value of pc but "down" names the next call the process makes, so  *)
(* an action is the code from one such call to the next.  Mutual exclusion *)
(* between runner processes is the subject of RunnerLock, not of this      *)
(* module: here one process runs at a time.                                *)
(***************************************************************************)
EXTENDS Naturals, FiniteSets

CONSTANTS
    Issues,              \* the backlog
    NoIssue,             \* not an issue
    MaxPullRequests,     \* bound: GitHub hands out the numbers 1..MaxPullRequests
    CodingFixRounds,     \* LOOP_CODING_FIX_ROUNDS
    CiFixRounds,         \* LOOP_CI_FIX_ROUNDS
    MaxIssues,           \* LOOP_MAX_ISSUES, 0 for no ceiling
    MaxFailures,         \* LOOP_MAX_CONSECUTIVE_FAILURES
    MaxUnrecorded,       \* bound: kills of the process during one coding round
    Commands,            \* the commands an operator starts, of {"once", "watch"}
    Faults               \* what the environment may do, of FaultKinds

FaultKinds == {"throw", "kill", "tear", "signal", "base", "close", "requeue"}

ASSUME ConstantsAssumption ==
    /\ NoIssue \notin Issues
    /\ MaxPullRequests \in Nat \ {0}
    /\ CodingFixRounds \in Nat \ {0}
    /\ CiFixRounds \in Nat \ {0}
    /\ MaxFailures \in Nat \ {0}
    /\ MaxIssues \in Nat
    /\ MaxUnrecorded \in Nat
    /\ Commands \subseteq {"once", "watch"}
    /\ Faults \subseteq FaultKinds

PullRequests == 1 .. MaxPullRequests
NoPullRequest == 0

VARIABLES
    \* GitHub
    labels,      \* labels[i]: the agent:* labels of issue i
    closed,      \* the closed issues
    pr,          \* pr[n]: pull request n
    \* the machine's disk, and the branches it pushed
    journal,     \* journal[i]: the record of issue i in .loop/state.json
    branches,    \* issues with a worktree, and work on a branch agent/issue-*
    \* the process
    pc, command, stopping, skip, taken, failures,
    cur,         \* the issue in hand
    rec,         \* workIssue's local record of it
    round,       \* the coding round
    seen,        \* the check verdict of the last pull request that was read
    pending,     \* records advance has still to look at
    gaveUp,      \* issues this call of advance has given up on
    \* history
    invoked,     \* invoked[i]: coding rounds run since issue i was last selected
    unrecorded,  \* unrecorded[i]: those the process did not live to write down
    requeued     \* issues a person has put back in the queue

github  == <<labels, closed, pr>>
disk    == <<journal, branches>>
session == <<command, stopping, skip, taken, failures>>
work    == <<cur, rec, round, seen, pending, gaveUp>>
history == <<invoked, unrecorded, requeued>>
vars    == <<github, disk, session, work, history, pc>>

-----------------------------------------------------------------------------
Statuses == {"none", "in-progress", "awaiting-review", "blocked", "done"}

Run == [status : Statuses, fixRounds : Nat, ciRounds : Nat,
        pr : PullRequests \cup {NoPullRequest}]

NoRun == [status |-> "none", fixRounds |-> 0, ciRounds |-> 0,
          pr |-> NoPullRequest]

LabelNames == {"ready", "in-progress", "review", "blocked"}

Checks == {"pending", "passing", "failing"}

PullRequest == [state : {"unused", "open", "merged", "closed"},
                issue : Issues \cup {NoIssue},
                merge : {"clean", "behind", "conflicted"},
                checks : Checks]

Unused == [state |-> "unused", issue |-> NoIssue, merge |-> "clean",
           checks |-> "pending"]

IsInFlight(r) == r.status \in {"in-progress", "awaiting-review"}

InFlight == {i \in Issues : IsInFlight(journal[i])}

\* mutant: a published issue no longer counts
NothingInProgress == \A i \in Issues : journal[i].status # "in-progress"

\* runUnattended takes new work only when this holds.
NothingOutstanding == InFlight = {}

\* mutant: selection that looks at the excluded labels only
EligibleUnlabelled(i) ==
    /\ i \notin closed
    /\ labels[i] \cap {"in-progress", "review", "blocked"} = {}
    /\ i \notin skip

\* evaluateCandidates, less priorities and dependencies (see the README).
Eligible(i) ==
    /\ i \notin closed
    /\ "ready" \in labels[i]
    /\ labels[i] \cap {"in-progress", "review", "blocked"} = {}
    /\ i \notin skip

Newest(n, i) ==
    /\ pr[n].issue = i
    /\ \A m \in PullRequests : pr[m].issue = i => m <= n

\* mutant: trust the journal instead of asking GitHub
JournalledOpen(i) == {n \in PullRequests : n = journal[i].pr /\ pr[n].state = "open"}

\* pullRequestForBranch, and the check that what it found is open.
NewestOpen(i) == {n \in PullRequests : Newest(n, i) /\ pr[n].state = "open"}

\* The number GitHub gives the next pull request, if the bound leaves one.
NextNumber == {n \in PullRequests : /\ pr[n].state = "unused"
                                    /\ \A m \in 1 .. n - 1 : pr[m].state # "unused"}

Save(i, r) == journal' = [journal EXCEPT ![i] = r]

Idle ==   \* the local variables of a call that has returned
    /\ cur' = NoIssue
    /\ rec' = NoRun
    /\ round' = 0
    /\ seen' = "pending"
    /\ pending' = {}
    /\ gaveUp' = {}

Exit ==
    /\ Idle
    /\ pc' = "down"
    /\ command' = "none"
    /\ stopping' = FALSE
    /\ skip' = {}
    /\ taken' = 0
    /\ failures' = 0

\* mutant: one failure too many
ExhaustedLate == failures > MaxFailures

\* Backoff.failed returns null.
Exhausted == failures + 1 > MaxFailures

\* A call threw.  `once` lets the error out of main; `watch` waits it out, and
\* stops when it has happened more than MaxFailures times in a row.
Raise ==
    IF command = "once" \/ Exhausted
    THEN Exit
    ELSE /\ Idle
         /\ pc' = "top"
         /\ failures' = failures + 1
         /\ UNCHANGED <<command, stopping, skip, taken>>

-----------------------------------------------------------------------------
(***************************************************************************)
(* Starting, and the loop of `watch` (runUnattended).                      *)
(***************************************************************************)

Init ==
    /\ labels = [i \in Issues |-> {"ready"}]
    /\ closed = {}
    /\ pr = [n \in PullRequests |-> Unused]
    /\ journal = [i \in Issues |-> NoRun]
    /\ branches = {}
    /\ pc = "down"
    /\ command = "none"
    /\ stopping = FALSE
    /\ skip = {}
    /\ taken = 0
    /\ failures = 0
    /\ cur = NoIssue
    /\ rec = NoRun
    /\ round = 0
    /\ seen = "pending"
    /\ pending = {}
    /\ gaveUp = {}
    /\ invoked = [i \in Issues |-> 0]
    /\ unrecorded = [i \in Issues |-> 0]
    /\ requeued = {}

Start(c) ==
    /\ pc = "down"
    /\ pc' = IF c = "once" THEN "resume" ELSE "top"
    /\ command' = c
    /\ UNCHANGED <<github, disk, work, history, stopping, skip, taken, failures>>

\* `while (!stopping())`, and the head of advance.
Top ==
    /\ pc = "top"
    /\ IF stopping
       THEN Exit
       ELSE /\ pending' = InFlight
            /\ pc' = "observe"
            /\ UNCHANGED <<session, cur, rec, round, seen, gaveUp>>
    /\ UNCHANGED <<github, disk, history>>

\* advance is done with the issue in hand.
NextRecord(i) ==
    /\ pending' = pending \ {i}
    /\ cur' = NoIssue
    /\ seen' = "pending"
    /\ pc' = "observe"

\* advance, first half: a record without a pull request is left for "the next
\* cycle"; otherwise read the pull request, and retire the record of one that
\* GitHub has finished with.
Observe(i) ==
    /\ pc = "observe"
    /\ i \in pending
    /\ LET n == journal[i].pr IN
       \/ /\ n = NoPullRequest
          /\ NextRecord(i)
          /\ UNCHANGED <<disk, gaveUp>>
       \/ /\ n # NoPullRequest
          /\ pr[n].state \in {"merged", "closed"}
          /\ Save(i, [journal[i] EXCEPT !.status = "done"])
          /\ gaveUp' = IF pr[n].state = "closed" THEN gaveUp \cup {i} ELSE gaveUp
          /\ NextRecord(i)
          /\ UNCHANGED branches
       \/ /\ n # NoPullRequest
          /\ pr[n].state = "open"
          /\ cur' = i
          /\ seen' = pr[n].checks
          /\ pc' = "steer"
          /\ UNCHANGED <<disk, pending, gaveUp>>
    /\ UNCHANGED <<github, session, history, rec, round>>

UpdateBranch(n) == pr' = [pr EXCEPT ![n].merge = "clean", ![n].checks = "pending"]

\* mutant: the round is counted in memory only
ForgetRedRound(r) == r

CountRedRound(r) == [r EXCEPT !.ciRounds = @ + 1]

\* The update was not needed, or it failed (perhaps after it took effect) and
\* the error is only logged: go on with the verdict already read.
FallThrough(n) ==
    \/ pr[n].merge = "clean" /\ UNCHANGED pr
    \/ pr[n].merge = "behind" /\ "throw" \in Faults /\ (UNCHANGED pr \/ UpdateBranch(n))

\* advance, second half: mergeability is a second read of the pull request, the
\* verdict is still the one of the first.
Steer ==
    /\ pc = "steer"
    /\ LET r == journal[cur]
           n == r.pr
       IN
       \/ \* behind the base branch: update it
          /\ pr[n].merge = "behind"
          /\ UpdateBranch(n)
          /\ NextRecord(cur)
          /\ UNCHANGED journal
       \/ \* conflicted: "the next cycle will attempt a bounded resolution"
          /\ pr[n].merge = "conflicted"
          /\ NextRecord(cur)
          /\ UNCHANGED <<journal, pr>>
       \/ \* pending, or green: GitHub decides from here
          /\ FallThrough(n)
          /\ seen # "failing"
          /\ NextRecord(cur)
          /\ UNCHANGED journal
       \/ \* red: count the round
          /\ FallThrough(n)
          /\ seen = "failing"
          /\ r.ciRounds + 1 < CiFixRounds
          /\ Save(cur, CountRedRound(r))
          /\ NextRecord(cur)
       \/ \* red for the last time: block
          /\ FallThrough(n)
          /\ seen = "failing"
          /\ r.ciRounds + 1 >= CiFixRounds
          /\ Save(cur, [r EXCEPT !.status = "blocked"])
          /\ pc' = "escalate"
          /\ UNCHANGED <<pending, cur, seen>>
    /\ UNCHANGED <<labels, closed, branches, session, history, rec, round, gaveUp>>

\* Everything in flight has been looked at.  Its outcomes count now; new work is
\* taken only by a runner with nothing in flight, below both ceilings.
Take ==
    /\ pc = "observe"
    /\ pending = {}
    /\ UNCHANGED <<github, disk, history>>
    /\ \/ /\ ~NothingOutstanding
          /\ Idle
          /\ pc' = "top"
          /\ skip' = skip \cup gaveUp
          /\ failures' = 0
          /\ UNCHANGED <<command, stopping, taken>>
       \/ /\ NothingOutstanding
          /\ Exit                      \* a ceiling or the budget is reached
       \/ /\ NothingOutstanding
          /\ MaxIssues = 0 \/ taken < MaxIssues
          /\ Idle
          /\ pc' = "select"
          /\ skip' = skip \cup gaveUp
          /\ UNCHANGED <<command, stopping, taken, failures>>

-----------------------------------------------------------------------------
(***************************************************************************)
(* runOnce: resume what is in flight, or select.                           *)
(***************************************************************************)

Resume ==
    /\ pc = "resume"
    /\ \/ /\ InFlight = {}
          /\ pc' = "select"
          /\ UNCHANGED cur
       \/ \E i \in InFlight :
             /\ cur' = i
             /\ pc' = IF journal[i].pr = NoPullRequest THEN "reissue" ELSE "resumable"
    /\ UNCHANGED <<github, disk, session, history, rec, round, seen, pending, gaveUp>>

\* resumable, the first read: nothing to do for a finished pull request.
ReadPullRequest ==
    /\ pc = "resumable"
    /\ LET p == pr[journal[cur].pr] IN
       IF p.state = "open"
       THEN /\ pc' = "mergeable"
            /\ seen' = p.checks
            /\ UNCHANGED <<session, cur, rec, round, pending, gaveUp>>
       ELSE Exit
    /\ UNCHANGED <<github, disk, history>>

\* resumable, the second read.  LOOP_CONFLICT_ROUNDS is at least 1 and nothing
\* ever increments conflictRounds, so a conflict is always actionable.
Mergeable ==
    /\ pc = "mergeable"
    /\ LET r == journal[cur] IN
       IF \/ pr[r.pr].merge = "conflicted"
          \/ seen = "failing" /\ r.ciRounds + 1 < CiFixRounds
       THEN pc' = "reissue" /\ UNCHANGED <<session, work>>
       ELSE Exit
    /\ UNCHANGED <<github, disk, history>>

\* mutant: run the recorded round again
RepeatRound(i) == journal[i].fixRounds

\* "Rounds already spent stay spent" (runOnce).
ResumeRound(i) == journal[i].fixRounds + 1

\* The issue is read again before it is worked on again.
Reissue ==
    /\ pc = "reissue"
    /\ round' = ResumeRound(cur)
    /\ pc' = "claim"
    /\ UNCHANGED <<github, disk, session, history, cur, rec, seen, pending, gaveUp>>

Select ==
    /\ pc = "select"
    /\ \/ /\ \A i \in Issues : ~Eligible(i)
          /\ Exit
          /\ UNCHANGED history
       \/ \E i \in Issues :
             /\ Eligible(i)
             /\ cur' = i
             /\ round' = 0
             /\ pc' = "claim"
             /\ invoked' = [invoked EXCEPT ![i] = 0]
             /\ unrecorded' = [unrecorded EXCEPT ![i] = 0]
             /\ UNCHANGED <<session, rec, seen, pending, gaveUp, requeued>>
    /\ UNCHANGED <<github, disk>>

-----------------------------------------------------------------------------
(***************************************************************************)
(* workIssue: claim, rounds, publish.                                      *)
(***************************************************************************)

AddLabel(i, l) == labels' = [labels EXCEPT ![i] = @ \cup {l}]
RemoveLabel(i, l) == labels' = [labels EXCEPT ![i] = @ \ {l}]

\* One call that edits a label, and where it leads.
LabelStep(from, to) ==
    /\ pc = from
    /\ pc' = to
    /\ UNCHANGED <<closed, pr, disk, session, work, history>>

Claim == LabelStep("claim", "unready") /\ AddLabel(cur, "in-progress")

\* mutant: the claim leaves the issue offered
StayReady == LabelStep("unready", "open") /\ UNCHANGED labels

Unready == LabelStep("unready", "open") /\ RemoveLabel(cur, "ready")

\* Only now does the journal learn of the claim.  A record of an earlier run is
\* taken over as it is: its counters, and the pull request it names.
Open ==
    /\ pc = "open"
    /\ LET r == [journal[cur] EXCEPT !.status = "in-progress"] IN
          /\ rec' = r
          /\ Save(cur, r)
    /\ pc' = "prepare"
    /\ UNCHANGED <<github, session, history, branches, cur, round, seen, pending, gaveUp>>

\* fail: save, then tell GitHub.
Fail(r) ==
    /\ rec' = [r EXCEPT !.status = "blocked"]
    /\ Save(cur, [r EXCEPT !.status = "blocked"])
    /\ pc' = "escalate"
    /\ UNCHANGED round

NextRound ==
    /\ round' = round + 1
    /\ pc' = "code"
    /\ UNCHANGED <<rec, journal>>

\* Fetch, worktree, merge of the base branch, install.
Prepare ==
    /\ pc = "prepare"
    /\ \/ Fail(rec)
       \/ /\ round < CodingFixRounds
          /\ pc' = "code"
          /\ UNCHANGED <<rec, journal, round>>
    /\ branches' \in {branches, branches \cup {cur}}
    /\ UNCHANGED <<github, session, history, cur, seen, pending, gaveUp>>

\* The agent is running from here until Coded.
Code ==
    /\ pc = "code"
    /\ invoked' = [invoked EXCEPT ![cur] = @ + 1]
    /\ branches' = branches \cup {cur}
    /\ pc' = "coding"
    /\ UNCHANGED <<github, journal, session, work, unrecorded, requeued>>

Coded ==
    /\ pc = "coding"
    /\ LET r == [rec EXCEPT !.fixRounds = round] IN
       \/ Fail(r)
       \/ /\ rec' = r
          /\ Save(cur, r)
          /\ pc' = "verify"
          /\ UNCHANGED round
    /\ UNCHANGED <<github, branches, session, history, cur, seen, pending, gaveUp>>

\* Commit, classify, verify: nothing to commit or a step that could not run
\* fails the issue; a step that fails asks for another round while one is left.
Verify ==
    /\ pc = "verify"
    /\ \/ Fail(rec)
       \/ round < CodingFixRounds - 1 /\ NextRound
       \/ /\ pc' = "review"
          /\ UNCHANGED <<rec, journal, round>>
    /\ UNCHANGED <<github, branches, session, history, cur, seen, pending, gaveUp>>

\* The reviewers the tier requires: too few usable reviews, or a blocking one,
\* fails the issue; a request for changes asks for another round.
Review ==
    /\ pc = "review"
    /\ \/ Fail(rec)
       \/ round < CodingFixRounds - 1 /\ NextRound
       \/ /\ pc' = "push"
          /\ UNCHANGED <<rec, journal, round>>
    /\ UNCHANGED <<github, branches, session, history, cur, seen, pending, gaveUp>>

\* A push to the branch of an open pull request restarts its checks, and may
\* resolve its conflict.
Push ==
    /\ pc = "push"
    /\ \/ Fail(rec) /\ UNCHANGED pr
       \/ /\ \E conflict \in {"resolved", "remains"} :
                pr' = [n \in PullRequests |->
                          IF pr[n].issue = cur /\ pr[n].state = "open"
                          THEN [pr[n] EXCEPT !.checks = "pending",
                                             !.merge = IF conflict = "resolved" THEN "clean" ELSE @]
                          ELSE pr[n]]
          /\ pc' = "lookup"
          /\ UNCHANGED <<rec, journal, round>>
    /\ UNCHANGED <<labels, closed, branches, session, history, cur, seen, pending, gaveUp>>

\* mutant: a record that names a pull request keeps naming it
AdoptFirst(n) == IF rec.pr # NoPullRequest THEN rec ELSE [rec EXCEPT !.pr = n]

Adopt(n) == [rec EXCEPT !.pr = n]

\* Reuse the newest pull request of the branch if it is open.
Lookup ==
    /\ pc = "lookup"
    /\ \/ \E n \in NewestOpen(cur) :
             /\ rec' = Adopt(n)
             /\ pc' = "publish"
       \/ /\ NewestOpen(cur) = {}
          /\ pc' = "create"
          /\ UNCHANGED rec
    /\ UNCHANGED <<github, disk, session, history, cur, round, seen, pending, gaveUp>>

OpenPullRequest(n) ==
    pr' = [pr EXCEPT ![n] = [state |-> "open", issue |-> cur,
                             merge |-> "clean", checks |-> "pending"]]

Create ==
    /\ pc = "create"
    /\ \E n \in NextNumber :
          /\ OpenPullRequest(n)
          /\ rec' = Adopt(n)
    /\ pc' = "publish"
    /\ UNCHANGED <<labels, closed, disk, session, history, cur, round, seen, pending, gaveUp>>

Publish ==
    /\ pc = "publish"
    /\ LET r == [rec EXCEPT !.status = "awaiting-review"] IN
          /\ rec' = r
          /\ Save(cur, r)
    /\ pc' = "unclaim"
    /\ UNCHANGED <<github, session, history, branches, cur, round, seen, pending, gaveUp>>

Unclaim == LabelStep("unclaim", "handover") /\ RemoveLabel(cur, "in-progress")

\* The outcome of workIssue reaches the loop: count it, and never take a blocked
\* issue again in this session.
Return(blocked) ==
    IF command = "once"
    THEN Exit
    ELSE /\ Idle
         /\ pc' = "top"
         /\ taken' = taken + 1
         /\ skip' = IF blocked THEN skip \cup {cur} ELSE skip
         /\ failures' = 0
         /\ UNCHANGED <<command, stopping>>

\* Auto-merge is asked for next; a refusal is logged and changes nothing here.
HandOver ==
    /\ pc = "handover"
    /\ AddLabel(cur, "review")
    /\ Return(FALSE)
    /\ UNCHANGED <<closed, pr, disk, history>>

-----------------------------------------------------------------------------
(***************************************************************************)
(* fail of workIssue and block of advance, after the journal is written:   *)
(* swap the label, then comment.  Only fail holds a local record.          *)
(***************************************************************************)

Working == rec # NoRun

Escalate ==
    /\ LabelStep("escalate", "escalated")
    /\ RemoveLabel(cur, IF Working THEN "in-progress" ELSE "review")

Escalated == LabelStep("escalated", "comment") /\ AddLabel(cur, "blocked")

Comment ==
    /\ pc = "comment"
    /\ IF Working
       THEN Return(TRUE)
       ELSE /\ gaveUp' = gaveUp \cup {cur}
            /\ NextRecord(cur)
            /\ UNCHANGED <<session, rec, round>>
    /\ UNCHANGED <<github, disk, history>>

-----------------------------------------------------------------------------
(***************************************************************************)
(* What can go wrong with the process.                                     *)
(***************************************************************************)

\* A mutation that GitHub carried out although the call then threw.
LateEffect ==
    \/ pc = "claim"     /\ AddLabel(cur, "in-progress") /\ UNCHANGED pr
    \/ pc = "unready"   /\ RemoveLabel(cur, "ready") /\ UNCHANGED pr
    \/ pc = "unclaim"   /\ RemoveLabel(cur, "in-progress") /\ UNCHANGED pr
    \/ pc = "handover"  /\ AddLabel(cur, "review") /\ UNCHANGED pr
    \/ pc = "escalated" /\ AddLabel(cur, "blocked") /\ UNCHANGED pr
    \/ /\ pc = "escalate"
       /\ RemoveLabel(cur, IF Working THEN "in-progress" ELSE "review")
       /\ UNCHANGED pr
    \/ /\ pc = "create"
       /\ \E n \in NextNumber : OpenPullRequest(n)
       /\ UNCHANGED labels

\* The calls that may throw: those to GitHub, and git under "verify".
Calls == {"steer", "resumable", "mergeable", "reissue", "select", "claim", "unready",
          "verify", "lookup", "create", "unclaim", "handover", "escalate",
          "escalated", "comment"}

\* A creation beyond MaxPullRequests is refused whatever Faults says.
Throw ==
    /\ \/ "throw" \in Faults /\ pc \in Calls
       \/ "throw" \in Faults /\ pc = "observe" /\ \E i \in pending : journal[i].pr # NoPullRequest
       \/ pc = "create" /\ NextNumber = {}
    /\ \/ UNCHANGED github
       \/ LateEffect /\ UNCHANGED closed
    /\ Raise
    /\ UNCHANGED <<disk, history>>

\* The process is killed.  MaxUnrecorded bounds how often that hits a round.
Kill ==
    /\ "kill" \in Faults
    /\ pc # "down"
    /\ pc = "coding" => unrecorded[cur] < MaxUnrecorded
    /\ unrecorded' = IF pc = "coding" THEN [unrecorded EXCEPT ![cur] = @ + 1] ELSE unrecorded
    /\ Exit
    /\ UNCHANGED <<github, disk, invoked, requeued>>

\* The same while the journal is being rewritten in place: what is left does not
\* parse, and readJournal takes that for an empty journal.
Tear ==
    /\ "tear" \in Faults
    /\ \/ pc \in {"open", "prepare", "coding", "verify", "review", "push", "publish", "steer"}
       \/ pc = "observe" /\ \E i \in pending : journal[i].pr # NoPullRequest
    /\ pc = "coding" => unrecorded[cur] < MaxUnrecorded
    /\ unrecorded' = IF pc = "coding" THEN [unrecorded EXCEPT ![cur] = @ + 1] ELSE unrecorded
    /\ journal' = [i \in Issues |-> NoRun]
    /\ Exit
    /\ UNCHANGED <<github, branches, invoked, requeued>>

\* SIGINT or SIGTERM: `watch` looks at the flag between cycles only.
Signal ==
    /\ "signal" \in Faults
    /\ command = "watch"
    /\ ~stopping
    /\ stopping' = TRUE
    /\ UNCHANGED <<github, disk, command, skip, taken, failures, work, history, pc>>

-----------------------------------------------------------------------------
(***************************************************************************)
(* GitHub and the people around it.                                        *)
(***************************************************************************)

UnchangedProcess == UNCHANGED <<disk, session, work, pc, invoked, unrecorded>>

ChecksReport(n) ==
    /\ pr[n].state = "open" /\ pr[n].checks = "pending"
    /\ \E v \in {"passing", "failing"} : pr' = [pr EXCEPT ![n].checks = v]
    /\ UnchangedProcess /\ UNCHANGED <<labels, closed, requeued>>

BaseMoves(n) ==
    /\ "base" \in Faults
    /\ pr[n].state = "open" /\ pr[n].merge = "clean"
    /\ \E m \in {"behind", "conflicted"} : pr' = [pr EXCEPT ![n].merge = m]
    /\ UnchangedProcess /\ UNCHANGED <<labels, closed, requeued>>

\* GitHub computes no mergeability for a finished pull request, and nothing reads
\* its checks any more.
Finished(n, state) ==
    pr' = [pr EXCEPT ![n] = [state |-> state, issue |-> pr[n].issue,
                             merge |-> "clean", checks |-> "pending"]]

\* A merge closes the issue, and the control plane clears its labels.
Merge(n) ==
    /\ pr[n].state = "open" /\ pr[n].checks = "passing" /\ pr[n].merge = "clean"
    /\ Finished(n, "merged")
    /\ closed' = closed \cup {pr[n].issue}
    /\ labels' = [labels EXCEPT ![pr[n].issue] = {}]
    /\ UnchangedProcess /\ UNCHANGED requeued

\* A person closes a pull request without merging it.
Close(n) ==
    /\ "close" \in Faults
    /\ pr[n].state = "open"
    /\ Finished(n, "closed")
    /\ UnchangedProcess /\ UNCHANGED <<labels, closed, requeued>>

\* A person puts a blocked issue back in the queue; bound: once per issue.
Requeue(i) ==
    /\ "requeue" \in Faults
    /\ i \notin requeued /\ i \notin closed /\ "blocked" \in labels[i]
    /\ labels' = [labels EXCEPT ![i] = {"ready"}]
    /\ requeued' = requeued \cup {i}
    /\ UnchangedProcess /\ UNCHANGED <<closed, pr>>

-----------------------------------------------------------------------------
Advance == Top \/ (\E i \in Issues : Observe(i)) \/ Steer \/ Take

RunOnce == Resume \/ ReadPullRequest \/ Mergeable \/ Reissue \/ Select

WorkIssue ==
    \/ Claim \/ Unready \/ Open \/ Prepare \/ Code \/ Coded \/ Verify \/ Review
    \/ Push \/ Lookup \/ Create \/ Publish \/ Unclaim \/ HandOver

GiveUp == Escalate \/ Escalated \/ Comment

Process == Advance \/ RunOnce \/ WorkIssue \/ GiveUp \/ Throw

GitHub ==
    \/ \E n \in PullRequests : ChecksReport(n) \/ BaseMoves(n) \/ Merge(n) \/ Close(n)
    \/ \E i \in Issues : Requeue(i)

Next ==
    \/ Process
    \/ \E c \in Commands : Start(c)
    \/ Kill \/ Tear \/ Signal
    \/ GitHub

Spec == Init /\ [][Next]_vars

\* A running process keeps running: every call it makes returns or throws (gh and
\* git have timeouts, the agent has LOOP_AGENT_TIMEOUT_MINUTES).  Nothing is
\* assumed of the operator, of GitHub or of the people.
FairSpec == Spec /\ WF_vars(Process)

-----------------------------------------------------------------------------
(***************************************************************************)
(* Properties.                                                             *)
(***************************************************************************)

\* Labels, pull requests, journal records, the loop's local variables and the
\* histories have their types; the failure count of the loop (Backoff) never passes
\* MaxFailures, since the failure that would is the one it stops at.
TypeOK ==
    /\ labels \in [Issues -> SUBSET LabelNames]
    /\ closed \subseteq Issues
    /\ pr \in [PullRequests -> PullRequest]
    /\ journal \in [Issues -> Run]
    /\ branches \subseteq Issues
    /\ pc \in {"down", "top", "observe", "resume"} \cup Calls
              \cup {"open", "prepare", "code", "coding", "review", "push", "publish"}
    /\ command \in {"none", "once", "watch"}
    /\ stopping \in BOOLEAN
    /\ skip \subseteq Issues
    /\ taken \in Nat
    /\ failures \in 0 .. MaxFailures
    /\ cur \in Issues \cup {NoIssue}
    /\ rec \in Run
    /\ round \in Nat
    /\ seen \in Checks
    /\ pending \subseteq Issues
    /\ gaveUp \subseteq Issues
    /\ invoked \in [Issues -> Nat]
    /\ unrecorded \in [Issues -> Nat]
    /\ requeued \subseteq Issues

\* One issue at a time, across sessions and restarts ("Serial by choice",
\* runUnattended; `once` "resumes rather than claiming a second issue").
OneInFlight == \A i, j \in InFlight : i = j

\* Whatever was killed, lost or reported late, an issue never has two open pull
\* requests: "Opening a second one for the same issue is how an unattended loop
\* turns one problem into a pile" (workIssue).
OneOpenPullRequest ==
    \A m, n \in PullRequests :
        pr[m].state = "open" /\ pr[n].state = "open" /\ pr[m].issue = pr[n].issue => m = n

\* A record that waits for review follows the newest pull request of its issue,
\* never one that was closed and replaced.
FollowsNewestPullRequest ==
    \A i \in Issues :
        journal[i].status = "awaiting-review" =>
            /\ journal[i].pr # NoPullRequest
            /\ Newest(journal[i].pr, i)

\* A selected issue costs at most CodingFixRounds agent rounds, however often it
\* is resumed, plus those whose record the process did not live to write.
RoundsAccounted == \A i \in Issues : invoked[i] <= CodingFixRounds + unrecorded[i]

\* "A run that dies mid-way must leave the backlog in a state a human can read,
\* not an issue that looks available but has a half-finished branch behind it"
\* (workIssue): until a person re-queues it, an issue that selection would take
\* has no worktree, no branch and no run.
NeverLooksAvailable ==
    \A i \in Issues :
        /\ i \notin closed /\ "ready" \in labels[i]
        /\ labels[i] \cap {"in-progress", "review", "blocked"} = {}
        /\ i \notin requeued
        => i \notin branches /\ ~IsInFlight(journal[i])

\* An issue the runner gave up on is taken up again only after a person put it
\* back in the queue, even when the label calls of giving up were lost.
BlockedNeedsAPerson ==
    [][\A i \in Issues :
          journal[i].status = "blocked" /\ journal'[i].status = "in-progress"
             => i \in requeued]_vars

\* The journal goes through the life cycle of IssueLifecycle.
Lifecycle == INSTANCE IssueLifecycle WITH phase <- [i \in Issues |-> journal[i].status]
ImplementsLifecycle == Lifecycle!Spec

Red(i) ==
    /\ journal[i].status = "awaiting-review"
    /\ LET p == pr[journal[i].pr] IN
       p.state = "open" /\ p.checks = "failing" /\ p.merge # "conflicted"

\* "A stuck issue is not a stuck loop. Every failure category is bounded": a
\* session does not keep an issue whose checks stay red.
RedIsLetGo == \A i \in Issues : Red(i) ~> (~Red(i) \/ pc = "down")

\* "No pull request yet; the next cycle will resume it" (advance): an
\* interrupted run is picked up again, or the session ends.
Interrupted(i) ==
    /\ command = "watch" /\ cur = NoIssue
    /\ journal[i].status = "in-progress" /\ journal[i].pr = NoPullRequest
InterruptedIsResumed == \A i \in Issues : Interrupted(i) ~> ~Interrupted(i)

\* "A resumed run starts at fixRounds + 1, so rounds already spent stay spent.
\* Restarting the runner cannot hand the agent a fresh budget"
\* (docs/local-agent-runner.md).
RoundsStaySpent == \A i \in Issues : invoked[i] <= CodingFixRounds

\* "If a run fails after claiming, the issue is moved to agent:blocked"
\* (docs/local-agent-runner.md): once the process has ended, and was not killed,
\* no issue still carries agent:in-progress.
FailedRunIsBlocked ==
    pc = "down" => \A i \in Issues : "in-progress" \notin labels[i]
=============================================================================
