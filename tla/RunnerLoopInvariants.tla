------------------------ MODULE RunnerLoopInvariants ------------------------
(***************************************************************************)
(* What holds between the calls of the runner: the inductive invariants    *)
(* behind the safety properties of RunnerLoop.  They say what the process  *)
(* knows at each call, which no single property of RunnerLoop does.        *)
(***************************************************************************)
EXTENDS RunnerLoop

Reading  == {"resumable", "mergeable"}
Claiming == {"claim", "unready", "open"}
Building == {"prepare", "code", "coding", "verify", "review", "push", "lookup",
             "create", "publish"}
Ending   == {"unclaim", "handover", "escalate", "escalated", "comment"}

-----------------------------------------------------------------------------
\* With TypeOK: a call about an issue has one in hand, a call about a pull request
\* has a record that names one, and a pull request is some issue's.
IssueInHand ==
    /\ pc \in {"steer", "reissue"} \cup Reading \cup Claiming \cup Building \cup Ending
         => cur \in Issues
    /\ pc \in {"steer"} \cup Reading => journal[cur].pr # NoPullRequest
    /\ \A n \in PullRequests : pr[n].state # "unused" => pr[n].issue \in Issues

TypeInv == TypeOK /\ IssueInHand

-----------------------------------------------------------------------------
\* What the process knows of the journal.  A new issue is selected only with
\* nothing in flight, so from the claim until the journal learns of it nothing
\* but the issue in hand can be in flight.
KnowsJournal ==
    /\ pc = "select" => InFlight = {}
    /\ pc \in {"steer", "reissue"} \cup Reading => cur \in InFlight
    /\ pc \in Claiming => InFlight \subseteq {cur}
    /\ pc \in Building => journal[cur].status = "in-progress" /\ rec.status = "in-progress"

\* advance looks at every record in flight once, and only it changes them.
PendingInFlight ==
    /\ pc \in {"observe", "steer"} => pending \subseteq InFlight
    /\ pc \in Ending /\ ~Working => pending \subseteq InFlight \cup {cur}

SerialInv == OneInFlight /\ KnowsJournal /\ PendingInFlight

-----------------------------------------------------------------------------
\* An issue with a run or a branch is not offered, unless a person offers it.
LabelInv ==
    /\ \A i \in Issues :
          i \notin requeued /\ (i \in branches \/ journal[i].status # "none")
             => "ready" \notin labels[i]
    /\ pc \in Claiming /\ journal[cur].status = "blocked" => cur \in requeued
    /\ pc = "open" /\ cur \notin requeued => "ready" \notin labels[cur]

-----------------------------------------------------------------------------
\* GitHub numbers pull requests upwards.
Numbering ==
    /\ \A n \in PullRequests : pr[n].state = "unused" => pr[n].issue = NoIssue
    /\ \A m, n \in PullRequests :
          m < n /\ pr[m].state = "unused" => pr[n].state = "unused"

\* Only the newest pull request of an issue can be open: what the lookup by
\* branch finds is the only one there is to find.
OpenIsNewest == \A n \in PullRequests : pr[n].state = "open" => Newest(n, pr[n].issue)

PullRequestInv ==
    /\ Numbering
    /\ OpenIsNewest
    /\ FollowsNewestPullRequest
    /\ pc = "create" => NewestOpen(cur) = {}
    /\ pc = "publish" => rec.pr # NoPullRequest /\ Newest(rec.pr, cur)

-----------------------------------------------------------------------------
\* The journal lags at most one round behind the agent, two while it runs, and
\* by the rounds that were never recorded.
Lag(i) == unrecorded[i] + (IF pc = "coding" /\ cur = i THEN 2 ELSE 1)

RoundInv ==
    /\ RoundsAccounted
    /\ \A i \in InFlight : invoked[i] <= journal[i].fixRounds + Lag(i)
    /\ pc \in Claiming => invoked[cur] <= journal[cur].fixRounds + 1 + unrecorded[cur]
    /\ pc \in Claiming \cup {"prepare", "code"} => invoked[cur] <= round + unrecorded[cur]
    /\ pc \in {"coding", "verify", "review"} => invoked[cur] <= round + 1 + unrecorded[cur]
    /\ pc \in {"code", "coding", "verify", "review"} => round < CodingFixRounds
    /\ pc \in Building => rec.fixRounds = journal[cur].fixRounds

Inv == TypeInv /\ SerialInv /\ LabelInv /\ PullRequestInv /\ RoundInv
=============================================================================
