# TLA+ specifications of space-elysiajs-orpc

This directory models the concurrent and failure-prone parts of the repository
in TLA+: modules that follow the code, TLC configurations that check them on
small instances, and theorems that TLAPS proves for every value of their
constants.

`PROJECT.json` is the index: components, runs, the source lines of every
definition (`map`), findings, hazards and theorems. This file says what they
mean.

To check: `tlc -config RunnerLoop_safety.cfg MCRunnerLoop` (and so on, see
[Runs](#runs)); to prove: `tlapm LoopGateProofs.tla` (and so on, see
[Proofs](#proofs)).

## The system

NewsDeck is a news reader (web, admin, API, worker, database) that is developed
by a *loop*: issues are picked, implemented by a coding agent, reviewed by other
agents, and merged, mostly without a person. The loop exists twice. The *local
runner* (`tooling/local-runner`) runs on a developer's machine. The *control
plane* (`.github/workflows/loop-*.yml`, with the pure functions of
`tooling/loop`) runs on GitHub, and is the gate that the local runner's pull
requests have to pass as well. Most of the concurrency, the crashes and the
lost messages of this repository are in the loop, so the models start there. The
product has its share where two programs write one table (the worker and the API,
the sources), where a job is repeated (fetching, ingestion), and where a page shows
what it has just changed (the admin).

| Component | State it keeps | Operations | Interacts with | Hard behaviour |
| --- | --- | --- | --- | --- |
| orchestrator (`orchestrator.ts`) | session counters, issue in hand, its record | `runUnattended`, `advance`, `runOnce`, `workIssue`, `fail`, `block` | journal, GitHub, git, agents | crash between any two calls; a call that takes effect and then throws; reads that go stale; restarts |
| journal (`journal.ts`) | `.loop/state.json`, one record per issue | read, upsert | orchestrator | rewritten in place: a torn file reads as empty |
| lock (`lock.ts`, `preflight.ts`) | `.loop/runner.lock` | acquire, release | other runners, operators | check-then-write between processes; stale locks |
| backoff, budget | failure count, timestamps of invocations and issues | failed, succeeded, check, record | orchestrator | limits at the boundary; asked before an issue, not during one |
| git, GitHub adapter | worktrees, branches | calls of `git` and `gh` | GitHub | timeouts, lost answers |
| verification, review, agents (`exec.ts`, `verify.ts`, `claude-agent.ts`) | child processes, results of steps, reviews | run, interpret, retry | orchestrator | children that fail, hang, are killed, answer late or leave descendants |
| gate (`loop-pr.yml`, `merge-gate.ts`, `aggregate.ts`, `state.ts`) | check runs, a sticky comment, auto-merge | evaluate, publish, record, dispatch a fix, merge, announce | CI, reviewers, people, GitHub's own auto-merge | runs that overlap; snapshots that age; runs that die; events GitHub does not raise |
| dispatch (`loop-agent-dispatch.yml`) | labels of the issue | claim, run the agent, clean up | gate, selection, local runner | two claims of one issue |
| selection (`loop-next-issue.yml`, `eligibility.ts`, `dependencies.ts`) | none of its own; the backlog on GitHub | parse, select, claim, ship | gate, dispatch, local runner, people | what was selected has aged when it is claimed; two readers of one backlog that do not see the same |
| classification (`risk.ts`, `control-plane.ts`, `diff.ts`, ...) | the policy, a file of the repository | classify, compare policies | gate | pull requests that rewrite the rules they and the next ones are judged by |
| feed parser (worker, `feed-parser.ts`) | none | parse | ingestion | one bad entry loses the others |
| article ingestion (worker, `service.ts`) | articles in the database | collapse, match, insert | job queue, database | overlapping and repeated batches; one unique index only |
| source fetching (worker), sources (API) | feed, activity, validators, outcome of the last fetch | fetch, record; create, update, deactivate | job queue, feeds, database | two writers of a row; attempts that overlap; checks before writes |
| sources page (admin, `sources.tsx`) | forms, pending mutations, the cached list | submit, save, deactivate, refetch | API | a refetch that answers after the change it does not show |
| jobs, worker process, API server, auth, configuration, other pages, infrastructure | little or none | - | - | - |

What makes each correct:

* **Runner**: one issue in flight per machine; an issue that is half done never
  looks available; what was given up is not taken up again by itself; one open
  pull request per issue, and the record follows it; paid rounds stay bounded;
  red checks are let go of in the end; the journal moves through its life cycle
  only.
* **Lock**: one runner at a time; a lock outlives its runner only if that was
  killed.
* **Gate**: what is merged was reviewed, as that very commit, by as many
  reviewers as its tier needs; fix rounds are bounded and not dispatched twice; a
  merge of the workflow is announced; every head commit gets a verdict.
* **Rounds**: what is published passed every step of its tier and has the approvals
  it asks for; the invocations of an issue are bounded.
* **Budget**: the rolling hour and the rolling day.
* **Selection**: no issue is begun before what it depends on is closed.
* **Classification**: a change cannot lower its own risk; a chain of merges that each
  weaken no protection weakens none; what cannot be compared is not let go.
* **Ingestion**: a batch is folded into its stories; one article per story; nothing
  is lost, and a retried batch adds nothing.
* **Sources**: neither writer of a row undoes the other; races end as conflicts; the
  outcome on record is that of the newest fetch; what is refused for good is not
  asked again.
* **Sources page**: a change that was confirmed is shown.

## Modules

| Module | What it is |
| --- | --- |
| `IssueLifecycle` | abstract: what the runner promises of its journal |
| `RunnerLoop` | the local runner against GitHub, disk and people |
| `RunnerLoopInvariants` | the inductive invariants of `RunnerLoop` |
| `RunnerLoopProofs` | theorems about `RunnerLoop` |
| `MCRunnerLoop` | symmetry for TLC |
| `RunnerLock`, `MCRunnerLock` | the lock file; machines and host names for TLC |
| `LoopGate`, `MCLoopGate` | the gate over one pull request; the two commits of `LoopGate_overlap` |
| `LoopGateProofs` | theorems about `LoopGate` |
| `AgentRound` | one issue in its worktree: children, verification, reviews |
| `RunnerBudget` | the clock, the budget's windows and the waits after failures |
| `LocalRunnerProofs` | theorems about `RunnerLock`, `AgentRound` and `RunnerBudget` |
| `IssueSelection`, `IssueSelectionProofs` | dependencies, eligibility, priorities and claims over an aging backlog; its theorems |
| `MCIssueSelection` | backlogs and bodies for TLC |
| `RiskPolicy` | pure: diff, globs, detections, risk, weakened protections |
| `PolicyEvolution`, `PolicyEvolutionProofs` | pull requests that change the policy, over `RiskPolicy`; its theorems |
| `MCPolicyEvolution` | a policy and pull requests for TLC |
| `FeedParser` | pure: from a document to article candidates |
| `ArticleIngest`, `ArticleIngestProofs` | `dedupeAndPersist` over `FeedParser`'s batches; its theorems |
| `Sources` | the table of sources under requests and fetch jobs |
| `SourcesAdmin`, `SourcesProofs` | the admin's page over `Sources`; theorems about both |
| `PrefixInduction` | lemmas for induction over the prefixes of a sequence |
| `MCComponents` | lock, rounds, budget, selection, policy, ingestion, sources and their page, each by itself, with their bounds |

Operators marked "mutant" change one definition the way a plausible bug would.
Nothing uses them but the experiments that show a property can fail; they are
listed in `PROJECT.json`.

### RunnerLoop

One process, the machine's disk, GitHub, an operator and other people. `pc`
names the next call the process makes; an action is the code from one such call
to the next, so that everything that others do can come between.

| State | Code |
| --- | --- |
| `labels`, `closed`, `pr` | the issue's `agent:*` labels, closed issues, pull requests with their checks and mergeability |
| `journal` | `.loop/state.json`: status, `fixRounds`, `ciRounds`, pull request of a record |
| `branches` | issues with a worktree and work on `agent/issue-*` |
| `command`, `stopping`, `skip`, `taken`, `failures` | `once` or `watch`, the signal flag, and the locals of `runUnattended` and of its `Backoff` |
| `cur`, `rec`, `round`, `seen`, `pending`, `gaveUp` | locals of `runOnce`, `advance` and `workIssue` |
| `invoked`, `unrecorded`, `requeued` | history, for properties only |

| Actions | Code |
| --- | --- |
| `Start` | an operator starts `once` or `watch` |
| `Top`, `Observe`, `Steer`, `Take` | `runUnattended` and `advance`: look at every record in flight, then take new work |
| `Resume`, `ReadPullRequest`, `Mergeable`, `Reissue`, `Select` | `runOnce`: resume what is in flight, or select |
| `Claim` ... `HandOver` | `workIssue`: claim, rounds of coding, verification and review, push, pull request, labels |
| `Escalate`, `Escalated`, `Comment` | `fail` and `block` after the journal is written |
| `Throw` | any call to GitHub throws, before or after it took effect (`LateEffect`) |
| `Kill`, `Tear`, `Signal` | SIGKILL or reboot; the same in the middle of a journal write; SIGINT or SIGTERM |
| `ChecksReport`, `BaseMoves`, `Merge`, `Close`, `Requeue` | GitHub and people |

Abstracted: priorities and dependencies in the selection (any eligible issue
may be taken), the contents of commits, prompts and reviews (outcomes are
chosen), budget and clock (`Take` may end the session, as it does at a ceiling).
"Unknown" and "blocked" mergeability take the same branch as "clean" and are
not told apart. `LOOP_CONFLICT_ROUNDS` is no constant: nothing increments
`conflictRounds`, so it never counts.

`IssueLifecycle` is the abstract specification: a record is claimed only when no
other is active, published, resumed, given up or settled, and all records may be
forgotten together. `RunnerLoop` implements it with
`phase[i] = journal[i].status` (property `ImplementsLifecycle`, theorem
`Refinement`).

### RunnerLock

Runners, each at an access to the lock file: `preflight` and `acquireLock` read
it, `writeFile` empties it and then writes it, `release` reads and removes it.
`file` is the owner on record, `Free` or `Torn`. Runners may be killed at any
access and restarted, and an operator may delete the lock of a runner that is gone.

A lock names a pid and a host. `Machine[p]` is where a runner is, `Host[p]` what it
calls that, and these are two things: the host is `HOSTNAME` of the environment, which
a shell usually does not export, or else "localhost" (`lock.ts:58`). `isRunning(p)`
probes the pid on the machine of the runner that asks. `raced` and `mistaken` are
history: a lock was read while another was about to write it; a living runner's lock was
taken, or deleted, on another machine of the same name. Of a pid that is reused, the
model has that it refuses a runner that could have started (`RefuseLock`).

### LoopGate

One pull request, every run of `loop-pr.yml` over it, and the people, the agent
and GitHub around it.

| State | Code |
| --- | --- |
| `state`, `head`, `kind`, `behind`, `autoMerge`, `hold`, `approved` | the pull request: commits are numbered in the order they were pushed; `kind` is what the change up to a commit is: at low (or medium) risk, at high risk, or weakening a protection |
| `ci`, `risk`, `review` | per commit: the checks of CI, and the newest `loop/risk-gate` and `loop/review-gate` check runs |
| `commented`, `attempts` | the sticky comment and the attempts it counts |
| `announced` | `loop-next-issue` was told of the merge |
| `waiting`, `run` | per concurrency group: a run that waits, and the one that works, with the snapshots it holds |
| `requests`, `vetted`, `dispatched`, `repeated`, `overlapped`, `direct`, `silenced` | history, for properties only |

| Actions | Code |
| --- | --- |
| `Resolve`, `Context`, `Gather` | resolve the pull request; read it; read the diff, checks, approvals and comment. Three reads of a head that may move in between |
| `Review` | one review agent reads the pull request as it is by then; a reviewer that fails counts as "blocked" |
| `PublishRisk`, `PublishReview` | evaluate (`Decision` is `decideMerge`), then the two check runs, one after the other, on the commit that was resolved first |
| `Record`, `Dispatch` | rewrite the comment, ask for a fix round |
| `MergeRead`, `UpdateBranch`, `TryMerge`, `Recheck`, `EnableAutoMerge`, `Poll`, `Announce` | the job "merge", call by call |
| `Die` | a call of the job threw, or its runner died |
| `Push`, `Report`, `Request`, `BaseMoves`, `Hold`, `AutoMerge` | pushes; CI completes and starts the gate; a review or a manual evaluation starts it; the base moves; `needs:human`; GitHub completes an auto-merge |

A concurrency group is the head commit for runs that CI starts and the pull
request's number for the others (`loop-pr.yml:55-64`), so runs of different groups
overlap; in one group one works and one waits. The ruleset that every merge is
subject to is `Mergeable`: an open pull request, up to date, with CI and both check
runs green on the head. It is a setting of the repository and not in the code;
the documentation names it (`docs/loop-engineering.md`).

Left out: drafts and forks (they are never merged by the loop), closing without
a merge, merges by a person, force-pushes back to an earlier commit, the labels
the gate sets (it reads none of them), the history and wording of the comment,
and people who edit or delete it. `evaluate-pr.ts` passes no tier verification, so
`decideMerge` takes that as passed, and so does `Decision`.

### AgentRound

What `RunnerLoop` has as one step that succeeds or fails: the coding agent, the
verification and the reviews of an issue, down to the child processes.

| State | Code |
| --- | --- |
| `at`, `turn` | where `workIssue` is, and the index of its round |
| `risk` | level and files of the change after the last commit |
| `child` | the process of `exec.run`: running, exited, whether its output is still open, whether its deadline has passed |
| `steps` | results `verify` has recorded |
| `reviews` | `gatherReviews`: usable reviews, pass, attempt |
| `passed`, `approving`, `invocations` | history: steps that exited 0 in time since the agent last wrote, approvals heard in time, calls of agents |

| Actions | Code |
| --- | --- |
| `Deadline`, `HardKill`, `ChildExits`, `OutputEnds` | SIGTERM at the deadline, SIGKILL ten seconds later, an exit of the child, the end of its output, in any order the system allows |
| `Implement`, `Implemented`, `NothingCommitted` | the agent's call and its interpretation (`interpretInvocation`), the commit |
| `NotApplicable`, `ToolMissing`, `RunStep`, `Probed`, `Checked`, `Verified` | `verify`, step by step, and what its outcome leads to |
| `Review`, `Reviewed`, `Judge` | one attempt of one reviewer, `extractReview`, `combine` |

An output is only whether it is the JSON that was asked for and whether that says the
agent failed. A change is named by the kinds of files it touches. `stepsForRisk`
collects the steps of a tier after those it inherits. `TiersAssumption` says that
inheritance ends; nothing in the schema does, see
[below](#what-the-code-does-not-promise).

### RunnerBudget

`budget.ts` and `backoff.ts` as `runUnattended` calls them. `calls` and `issues` are
the two lists of timestamps, `runner` is what the loop is at; `called` and `begun` are
history. `Ask` is `check` with its pruning, `Invoke` is `recordInvocation`, `Worked`
counts the issue after `runOnce` returned, `CycleFails` and `Waited` are the backoff, and
`WorkFails` is a `runOnce` that throws after the claim, so that its issue is not counted
(nor is it in `begun`).
`CallsPerIssue` is what `EffortIsBounded` bounds. The clock ticks in whole units, and
several calls may share one.

### IssueSelection

`backlog` is the issues on GitHub; `selector[s]` is one run of the selection and the
claim after it. The workflow and the local runner (`Local`) do not select alike: the
workflow reads every issue and has the fallback map, the local runner reads the open
issues and has no map (`Visible`, `FallbackOf`). `SelectIssue` reads the backlog and keeps
a number; later `ClaimChecked` looks at labels and state again (the dispatch workflow) or
does not (the local runner), and `ClaimIssue` writes labels. `Ship`, `GiveUpIssue`
and people (`EditBody`, `Prioritise`, `Unblock`, `CloseIssue`) come between. A body is a
sequence of lines of which the kind, the references and "none" matter;
`parseIssueDependencies` reads them as the loop of `dependencies.ts` does.

### RiskPolicy and PolicyEvolution

`RiskPolicy` translates the pure functions: `parseUnifiedDiff`, `matchSegments`, the
detections, `assessControlPlane`, `classifyRisk`, `classifyRiskMonotonic`,
`findWeakenedProtections`. A line is a record of what the detections look for in it, a
path a sequence of segments. What `LoopPolicySchema` and `DiffFileSchema` accept is
`IsPolicy` and `IsDiff`. `PolicyEvolution` puts them to work: `policy` is the
file on the default branch, `pr[p]` a pull request with the policy it was branched
from and the one it proposes; `Classify` and `Evaluate` read the trusted policy at
different times, `Merge` comes later than both, `UpdateBranch` brings a branch up to
date, `MergeByHand` is a person. Git's three-way merge (`Merged`, `Conflicting`,
`Unmergeable`) is external.

A pull request may also delete the file, rename it or make it unreadable (`file`), and its
head may not be there to fetch (`fetched`). Then nothing is proposed (`Proposed`), or
nothing can be parsed (`Readable`): a proposal that does not parse is ignored by
`classify-risk.ts` and stops `evaluate-pr.ts`; one that is not there is taken by both
for a pull request that leaves the policy alone. `policyFile` is what has become of the file on
the default branch, `policy` the last that could be read. `relaxed` and `unread` are history:
a person merged past the gate; the gate let go of a change of the policy it had not read.

### FeedParser and ArticleIngest

`FeedParser` is `parseFeed` for RSS, Atom and JSON feeds: which fields of an entry are
looked at, which entries are skipped, what makes the whole document fail. Of an Atom
entry's links it takes the first that is an alternate or says nothing of itself.
`ArticleIngest` is `dedupeAndPersist`: `call[c]` holds the locals of a call
(the candidates, the root of each, the matches of its one query, the representative
whose turn it is), `articles` is the table. `Begin` and `Repeat` call it, `Match` is the
query, `Settle`, `Insert`, `Conflict`, `Lookup`, `Finish` are the loop; `QueryFails` and
`AnswerLost` are the database. Nothing in the repository calls `dedupeAndPersist` yet;
its callers here are what the queue allows.

### Sources and SourcesAdmin

`sources` is the table, `request[r]` a request to the API (create, update, deactivate:
`Receive`, `Check`, `Write`, `WriteRefused`, `WriteNothing`), `job[j]` a fetch job and
the locals of its attempt (`Start` reads the target, `Follow` and `Answered` are
`fetchFeed`, `Record` is `recordFetchOutcome` and what the queue does then). Every
access to the database is a step of its own and may fail before or after its effect
(`RequestFails`, `WriteUnconfirmed`, `StartFails`, `RecordFails`). The queue's stall check
is left at its defaults (`worker.ts:25-29`): a job whose worker dies is delivered again
(`Stall`), also with its outcome recorded and the queue not yet told, and a worker that loses
its lock goes on beside the redelivery (`LoseLock`, an `orphan`). A stall is no attempt. `latest`, `newest` and `muddled` are
history. Header values are one value, the feed that issued them.

`SourcesAdmin` adds the page: `list` is the cached query with the refetch under way,
`pending` the mutations, `newForm` and `rowForm` the two forms. Each handler of
`sources.tsx` is an action (`handleSubmit`, `handleSave`, `handleDeactivate`, `Edit`,
`handleCancel`, typing), and so are the answers (`Settled`), lost answers
(`Disconnected`), the refetch, and other admins (`Elsewhere`). The query cache is
external.

## Runs

| Run | Expect | What it shows |
| --- | --- | --- |
| `RunnerLoop_safety` | pass | `TypeOK`, `OneInFlight`, `NeverLooksAvailable`, `BlockedNeedsAPerson`, `ImplementsLifecycle` with two issues under both commands, throws, kills and torn journals |
| `RunnerLoop_faults` | pass | `OneOpenPullRequest`, `FollowsNewestPullRequest`, `RoundsAccounted` and the liveness property `RedIsLetGo` with one issue under every fault |
| `RunnerLoop_interrupted` | violation | `InterruptedIsResumed`: `watch` never resumes a record without a pull request |
| `RunnerLoop_rounds` | violation | `RoundsStaySpent`: a killed round is run again |
| `RunnerLoop_stranded` | violation | `FailedRunIsBlocked`: a throw after the claim leaves the issue claimed |
| `RunnerLock_race` | violation | `MutualExclusion`: two runners that start together |
| `LoopGate_overlap` | pass | `TypeOK`, `MergedWasReviewed`, `FixesAreAccounted` with a commit that weakens a protection, a second that takes that back, and a review of a person or a manual evaluation, so that up to three groups compete |
| `LoopGate_faults` | pass | `MergedWasReviewed`, `FixesAreAccounted`, `DirectMergeIsAnnounced` with two reviewers, weakened protections, throws, deaths, a moving base and a hold |
| `LoopGate_behind` | violation | `HeadIsEvaluated`: a head the gate itself brought forward is never evaluated |
| `LoopGate_approved` | violation | `ApprovedTurnsGreen`: an approved weakening is decided to be merged and failed in the same run |
| `PolicyEvolution_unread` | violation | `WeakeningNeedsAPerson`: a policy that is not there to compare is merged without a person |
| `MCComponents` | pass | the eleven parts below, each component by itself |

`MCComponents` is one run over components that share nothing. `part` is chosen at the
start and says which of them moves; the others keep their initial state, so the states
of the parts add up and do not multiply.

| Part | Component | Properties it is there for |
| --- | --- | --- |
| ingest | three calls of `dedupeAndPersist`, two at a time, on seven documents | `IngestTypeOK`, `OneArticlePerStory`, `NothingIsLost`, `RetryAddsNothing` |
| batch | one call with every batch of four candidates of three URLs and two hashes, up to their names | `CollapseIsClosure` |
| api | two requests that race for two feed URLs | `RacesEndAsConflicts`, `SourcesTypeOK` |
| fetch | two jobs and an update | `NoLostUpdate`, `OutcomeIsOfNewestAttempt`, `PermanentIsFinal` |
| admin | the page, its mutations, another admin | `OwnChangesAreShown` |
| policy | two pull requests that change, break, delete or rename the policy | `ProtectionsSurvive`, `ProtectionsOnlyGrow` (a property of steps), `JudgedByTheBase`, `RiskOnlyMovesUp`, `DiffIsRead` |
| selection | three issues, a selection on GitHub and a local runner | `WorkedInOrder` |
| bodies | every body of at most four lines of eight kinds | `BlockIsRead` |
| round | one issue, two tiers, two rounds | `SettledIsChecked`, `EffortIsBounded` |
| budget | a session of four ticks | `IssuesPerDay`, `CallsPerHour` |
| lock | two runners on one machine, one on a machine of the same name and one elsewhere | `ExclusiveUnlessOverlapped`, `OnlyKillsLeaveLocks` |

### Bounds, and why they are enough

* `RunnerLoop`: two issues, because `OneInFlight` and the life cycle relate two
  records; one issue with three pull requests in `RunnerLoop_faults`, so that one can be
  closed, its successor too, and a third adopted. `CodingFixRounds = 2` has a first, a
  repeated and a last round; `CiFixRounds = 3` a counted red round that is neither the
  first nor the last. `MaxFailures = 1` makes one throw survivable and the
  next final. `MaxUnrecorded = 1` and one `Requeue` per issue bound counters that
  only grow.
* `RunnerLock`: three runners that go by one host name, so that one can be taking the lock
  from another while a third is releasing; one of them on another machine, with a pid that
  is taken here as well; and one of another name, whose locks are left alone. Three are
  alive at a time, and one of the two that share a pid may be killed. A living runner's lock taken by mistake is
  the end: exclusion is not promised beyond it, and `OnlyKillsLeaveLocks` is proved.
* `LoopGate`: two commits, so that there is a stale one; two runs at work, because
  each hazard is a race of two; one attempt, so that the limit is reached
  by a first fix. One request adds the group of the pull request's number. In
  `LoopGate_faults` that group is left out and the two runs are of different
  commits. In `LoopGate_overlap` (`MCLoopGate`) the first commit weakens
  a protection, so that it can meet the approval of a person, and the second takes that back. The proofs
  lift all these bounds.
* `ArticleIngest`: three calls, two at a time, so that a batch is repeated beside another; four
  candidates are what it takes to bridge two groups after both have two members.
  The documents share URLs and hashes across and within batches, dressed in every way
  canonicalisation and sanitising undo.
* `Sources`: `api` has two requests and no jobs, because only requests take feed
  URLs; `fetch` has two jobs of two attempts beside one update, so that attempts
  overlap and a retry is the last; one of them is tried once, and the other is retried and
  meets a database failure or a stall, and not both. `MaxStalls = 1`, the queue's default, has
  one stall that is delivered again and one that ends the job. `MaxRedirects = 1` has a
  followed and a refused redirect. The proofs lift these bounds.
* `SourcesAdmin`: two pending mutations of the page, or one and one update of another admin;
  errors on one form at a time and no half-filled fields, because the
  forms share no state but the list; and one disturbance: the other admin, an answer the
  database fails, or a refetch that fails.
* `PolicyEvolution`: two pull requests, because each is judged against a base that the
  other moves; every change of one entry of the policy, and file sets for each
  detection, for a deleted and for a renamed policy. None is opened once the default branch
  has no policy to judge it by. One of the two can be read and is fetched, and a merge past the
  gate, after which nothing is promised, is the end.
* `IssueSelection`: three issues make a chain and a cycle possible; one edit by a
  person; one selector of the workflow and one local runner. The local runner lists at most 200
  issues, which three do not reach.
* `AgentRound`: a tier of one step and a tier that inherits it and adds one with a
  tool, a probe and a condition; two rounds, two attempts: each has a first that is not the
  last.
* `RunnerBudget`: `Hour = 1`, `Day = 3`, four ticks: both windows open, fill and age out
  within the session, at both inclusive ends.

`CHECK_DEADLOCK FALSE` is set for `LoopGate` because the system stops when the pull
request is merged, or when nothing starts the gate again, and for the other components
because they come to rest: a round is settled or blocked, a batch is stored, a job
done, pull requests merged, every issue closed, a session over. The runner and its lock never
stop: an operator may always start a runner again.

### Fairness

`RunnerLoop`'s `FairSpec` has `WF_vars(Process)`: a running process keeps
running. Every call returns or throws, because `exec.ts` ends a child at its
timeout with SIGTERM and then SIGKILL, `gh` and `git` have timeouts of 120 and
300 seconds, and the agents have `LOOP_AGENT_TIMEOUT_MINUTES`. Nothing is assumed of
the operator, of GitHub or of people: checks may stay pending for ever, and nobody
need restart a process. `RedIsLetGo` asks something only while checks are red, and
is content when the session has ended.

`LoopGate`'s `FairSpec` has weak fairness for the runs of each group (GitHub
schedules them, and ends a job after its time limit, which is `Die`) and for
CI on each commit (`Report`). It has none for people and pushes. `HeadIsEvaluated` is
false even so.

The other components are checked for safety only, and no fairness is
assumed of them. Where something should end there, the code gives no bound to rest it
on: a feed's body is read without a timeout, and a child whose descendant holds its
output is waited for without one (see [below](#what-the-code-does-not-promise)).

## Findings

Seven statements of the documentation or of comments are shown by a run not to be true of
the code; `PROJECT.json` quotes both sides.

1. `watch` does not resume a record that has no pull request, and takes no other
   issue while it is there (`orchestrator.ts:970`).
2. A process killed in a coding round runs that round again (`orchestrator.ts:620`).
3. An error of `gh` after the claim leaves the issue claimed (`orchestrator.ts:519`).
4. Two runners that start together both get the lock (`lock.ts:84`).
5. The merge job brings a branch forward with `GITHUB_TOKEN`. That push starts neither
   CI nor the gate, so the updated head is not reviewed again and the pull request
   stays where it is (`loop-pr.yml:629`).
6. A person's approval of a weakened protection changes the decision to a merge, but not
   the risk gate, which stays red (`merge-gate.ts:169`; `docs/loop-engineering.md:670-672`
   says "approve it and the gate turns green").
7. A policy that is deleted, or whose head could not be fetched, is not compared, and what it
   weakens needs no person (`evaluate-pr.ts:128`; `docs/loop-engineering.md:131`).

The rest were met while modelling. The models do as the code does, and a property that is
true of the code names the exception where it has one.

* `preflight` refuses the stale lock that `acquireLock` would take over (`preflight.ts:60`;
  `docs/local-agent-runner.md:450-451` says it "is taken over automatically").
* Machines that do not export `HOSTNAME` are all "localhost", and one takes over the lock of
  a runner that is alive on another (`lock.ts:58`; `lock.ts:49-51` says "a PID from another
  machine says nothing about this one"). `preflight` refuses any lock it finds, so this
  takes a lock that is written between the two. `ExclusiveUnlessOverlapped` excepts it
  (`mistaken`).
* A change of high risk is merged without a person (`merge-gate.ts:168`;
  `docs/loop-engineering.md:604` and `658-660` ask for one).
* An issue whose work ends in an error is not counted, and the day has room for one more
  (`orchestrator.ts:256-273`; `config.ts:70` counts "issues claimed"). `IssuesPerDay` leaves
  these issues out.
* A refusal that cannot be recorded is thrown as an error of the database, and the feed is
  asked again (`sources-fetch.ts:65`; `definitions.ts:54-57` knows no exception).
  `PermanentIsFinal` excepts it.
* The local runner selects without the fallback map (`orchestrator.ts:390`), and begins what
  only the map holds back; `docs/loop-engineering.md:483-485` says the map "is consulted
  whenever a body has no block". `WorkedInOrder` asks for the map of the workflow only.
* The local runner reads open issues only, and takes a closed dependency for one that is not
  there (`github.ts:340`), so that its dependents wait for the workflow;
  `docs/local-agent-runner.md:181` says "eligible again when #10 closes".

### What the code does not promise

Met while modelling as well; no property claims otherwise.

* Sources: the validators of a feed are kept when its URL is changed, and are sent to
  wherever it redirects. The body of a feed is read without a timeout. A database
  failure after a successful fetch is recorded as an error of the feed. A job that is stalled
  asks a feed again that has refused for good (`PermanentIsFinal` allows one more for each
  stall). Of two attempts that overlap, the one that
  ends last is shown. One undecodable numeric entity loses a whole document.
* Ingestion: two calls side by side store one content under two URLs, as the hash has
  no unique index.
* Sources page: a form saves every field, and so undoes what others changed meanwhile;
  cancelling before the refetch resets to old values; a confirmed creation clears what
  was typed since.
* Rounds: a descendant that holds a child's output keeps `exec.run` waiting for ever,
  although the comment at `exec.ts:126` says a child must not hold the runner open.
* Budget: the invocations of an issue at hand may exceed the hourly limit
  (`CallsPerHour` allows for those of one issue, `config.ts:68` does not); an issue is
  counted when its work is over.
* Selection: a dispatch and a local runner may both claim one issue, as
  `docs/loop-engineering.md:822-825` says. A list of items without references does not end
  at a blank line, although the comment at `dependencies.ts:80` says so (`BlockIsRead`
  leaves those lines open).
* Classification: a rule that is lowered rather than removed, a lower default, higher
  escalation limits, fewer control-plane patterns, another `inherits`, another command
  under a step's name are not reported as weakened protections. Nothing makes a policy ask
  for more reviews of a higher risk, so a label that raises the risk may lower the number of
  reviews (`JudgedByTheBase` speaks of the reviews for the risk arrived at).
  `parseUnifiedDiff` drops content that begins with `--` or `++`, and quoted paths. A verdict
  may have aged when the change is merged.
* Gate: an auto-merge that GitHub completes more than a minute after it was enabled is not
  announced by the run (`loop-pr.yml:716-730` says so). State of the sticky comment that does
  not parse is taken for a first evaluation, with all attempts (`state.ts:71`).
* Tiers: nothing refuses a policy whose tiers inherit in a circle, and `stepsForRisk`
  does not return for it (`policy.ts:150`).
* Runner: a pid that is reused makes a stale lock look alive (`lock.ts:38`); an issue
  renamed in flight continues on another branch (`branch.ts:28`); a failure to enable
  auto-merge is not retried (`orchestrator.ts:816`).

## Proofs

The theorems are of the form `Spec => []P`, `Spec => [][A]_vars` or
`Spec => AbstractSpec`, for every value of the constants that the modules' assumptions
admit: any set of issues, any number of pull requests, rounds, runners, commits,
simultaneous runs, candidates, lines of a body or a diff, any policy, and any set of
faults. Every safety property that a passing run checks is stated by one of them.

| Theorem | Property | Argument |
| --- | --- | --- |
| `TypeCorrect` | `TypeOK` | with `IssueInHand`: at every call about an issue or a pull request there is one |
| `OneInFlightAlways` | `OneInFlight` | `SerialInv`: `select` is reached only with nothing in flight, and from the claim until the journal learns of it nothing but the issue in hand can be |
| `Refinement` | `ImplementsLifecycle` | every step that changes the journal is a step of `IssueLifecycle`, from `SerialInv` |
| `NeverLooksAvailableAlways`, `BlockedNeedsAPersonAlways` | the same names | `LabelInv`: `agent:ready` is gone before the journal or the branch exists, and only a person gives it back |
| `OneOpenPullRequestAlways`, `FollowsNewestPullRequestAlways` | the same names | `PullRequestInv`: numbers grow, only the newest pull request of an issue can be open, so what the lookup by branch finds is all there is |
| `RoundsAccountedAlways` | `RoundsAccounted` | `RoundInv`: the journal lags at most a round behind the agent, two while it runs, plus what kills left unrecorded |
| `ExclusiveAlways`, `OnlyKillsLeaveLocksAlways` | `ExclusiveUnlessOverlapped`, `OnlyKillsLeaveLocks` | `LockInv`: without overlap and mistake who takes or holds the lock is alone, and a living owner on record holds it |
| `GateTypeCorrect` | `TypeOK` | a run that counts an attempt has read fewer than the limit |
| `MergesAreReviewed` | `MergedWasReviewed` | `MergeInv`, see below |
| `DirectMergesAreAnnounced` | `DirectMergeIsAnnounced` | `AnnounceInv`: after a merge its run is at "recheck" or "announce", or has announced, or is known to be silenced |
| `SettledIsAlwaysChecked`, `EffortIsAlwaysBounded` | `SettledIsChecked`, `EffortIsBounded` | `RoundInv` and `EffortInv`, see below |
| `SourcesTypeCorrect`, `NoUpdateIsLost`, `RacesAlwaysEndAsConflicts`, `OutcomeIsAlwaysOfNewestAttempt`, `PermanentIsAlwaysFinal` | `SourcesTypeOK`, `NoLostUpdate`, `RacesEndAsConflicts`, `OutcomeIsOfNewestAttempt`, `PermanentIsFinal` | `SourcesInv`, see below |
| `OwnChangesAreAlwaysShown` | `OwnChangesAreShown` | `PageInv`: what is owed has been written when it becomes owed, and only answers read since then are shown |
| `PageImplementsSources` | `AdminSpec => SourcesSpec` | every handler is a request that `Sources` has, or a stutter: what is sent is in the types of `PageTypes` |
| `TiersAreCumulative` | `stepsForRisk` has the steps of a level and of all it inherits from, each name once | by induction on the depth of the inheritance |
| `IssuesPerDayHolds`, `CallsPerHourHolds` | `IssuesPerDay`, `CallsPerHour` | `BudgetInv`, see below |
| `WorkedInOrderHolds`, `BlockIsReadHolds` | `WorkedInOrder`, `BlockIsRead` | `SelectionInv`, and the reading of a body line by line |
| `ProtectionsSurviveHolds`, `ProtectionsOnlyGrowHolds` | `ProtectionsSurvive`, `ProtectionsOnlyGrow` | `PolicyInv`, see below |
| `JudgedByTheBaseHolds`, `RiskOnlyMovesUpHolds` | `JudgedByTheBase`, `RiskOnlyMovesUp` | every escalation and every rule asks whether there is a file or a label, and a sum of deletions only grows |
| `DiffIsReadHolds` | `DiffIsRead` | what is read of a text is what is read of its parts one after the other, by induction over lines and files |
| `IngestTypeCorrectness`, `CollapseIsClosureHolds` | `IngestTypeOK`, `CollapseIsClosure` | the forest after each candidate, see below |
| `OneArticlePerStoryHolds`, `NothingIsLostHolds`, `RetryAddsNothingHolds` | `OneArticlePerStory`, `NothingIsLost`, `RetryAddsNothing` | `IngestInv`, see below |
| `FixesAccounted` | `FixesAreAccounted` | `FixInv`: without overlap one run at most has the comment open, its count is the comment's, and every dispatched attempt is counted |

`MergedWasReviewed` is the one that is easy to get wrong. A run publishes on the
commit it resolved at first, but the diff it judges, the number of reviewers
that follows from it and what each reviewer reads are of later moments, and the
merge at the end names no commit at all. The property is not inductive. `MergeInv`
adds, for every run, that what it resolved, the diff and what its reviewers read are
in the order they were pushed and none is beyond the head (`Sees`), and that a
success on the head commit is deserved (`Deserved`). When a run publishes success on a
commit that is still the head, everything in between must have been that commit;
when it no longer is the head, the success does not count, because the ruleset looks
at the head and the head never returns.

`SettledIsChecked` speaks of the end of a round and says nothing of how it got there.
`RoundInv` says what has been recorded at each place: the results are those of the first
steps of the tier, "passed" only for steps that exited 0 in time and "not-applicable"
only where the condition is not met (`ResultsAreTrue`); what is reviewed has a result of
one of these two for every step (`AllSteps`); and usable reviews that all approve were
all heard in time (`ApprovalsAreTrue`). `EffortInv` bounds `invocations` by the place as
well: the rounds before, the agent, and the attempts of the passes so far; the rest is
that a product grows with its factor. The policy enters by two assumptions, which TLC
evaluates: `RoundAssumption`, and `TiersAssumption`, that the steps of a tier are a
sequence and inheritance ends.

Of the properties of `Sources` only `NoLostUpdate` is nearly inductive. `SourcesInv` adds
that no two sources have one feed, that a job whose feed refused for good is about to
record that, has failed, or has been stalled as often (`Refusals`), that attempts are made for sources that are
there, that the attempts for a source do not overlap unless the history says so
(`OneAttempt`), and that the outcome of the newest attempt is on record or about to be
(`ToBeRecorded`, `AsRecorded`).

`BudgetInv` is about the order of time. `prune` forgets a prefix of the timestamps, so
the list that is left is the end of the history (`IssuesAreCounted`, `CallsAreCounted`),
and what has been forgotten lies outside every window that can still be asked for.
That no window holds more than its limit is the same as that any timestamp and the one
that many places later are further apart than the window (`AllSpaced`), which a new
timestamp keeps if the window that ends now had room.

`PolicyInv` has to account for the time between the judgement of a pull request and its
merge. What the gate has read and lets go keeps everything the policy protected when it was
judged, and that is not older than the base of its branch (`PassedKeep`); the policy of the
default branch has kept the bases of all branches (`BasesAreKept`), as long as nobody merged
past the gate and nothing unread went through it (`Loose`); and git refuses a
merge of one entry that both sides have changed. So whatever has been added in between is
either on a side that the pull request left alone, or is the same on both.

`IngestInv` rests on what `collapseInBatchDuplicates` leaves: candidates have the same
root if and only if shared keys lead from one to the other, and the root is the first of
its group. This is shown of the forest after k candidates for all k: uniting the groups of a
candidate and of the last before it with its URL, then its hash, is enough, because those
before with the same key are in one group already. Of a call it says that the rows for the
roots before its index are there (`CallIsAtItsPlace`), of completed batches that each of their
groups has a row (`IsStored`), which no step takes away, and of calls that never
overlapped that what shares a key with a candidate was found by the query or is of this
call (`OneByOne`).

`SelectionInv` says of what has been selected or begun that its dependencies are closed,
those of the map included where the run has one, or its body has been edited since, and that no step undoes this. What is read of a body is
bounded from both sides, line by line (`BodyIsRead`).

Where a loop goes over a sequence, it is written as a function on prefixes,
`f[k \in 0..Len(s)]`. The library's induction theorems take operators that this prover
cannot instantiate; `PrefixInduction` derives induction over sets of numbers from
`WFMin`, which takes none. No module declares a recursive operator.

Only model-checked: `RedIsLetGo`, as liveness under fairness is beyond this prover, and
that the properties of the violation runs fail, which is an example and needs no
more. The theorems about risk hold of whatever `matchSegments` computes; that it is the
glob of `glob.ts` is for the reader to compare.

## Not modelled

Per component, with reasons, in `PROJECT.json`. In short: the text of prompts, comments,
reports and logs, stateless request handling, authentication, presentational pages,
schemas and configuration, deployment. Outside any model: GitHub, BullMQ and
Valkey, PostgreSQL, the query cache, git and the agents, which enter by what the code
can see of them. Not in the models of the loop: reused pids, issues renamed while in
flight, and what the sections on the modules say is abstracted or left out. The status
call of the API hangs while Redis is down; it has no state to model.

## Plan

Done: the runner with its lock, rounds and budget; the gate; selection; classification
and the evolution of the policy; parsing and ingestion; sources, their fetches and
their page; a theorem for every safety property of them. What is left, most important
first:

1. **Composition** of `AgentRound` with `RunnerLoop`: that the ends of a round are the
   outcomes `RunnerLoop` chooses from, as a refinement.
2. **Abstract specifications** of the gate (a commit is judged, then merged, then
   announced) and of ingestion (a set of stories that only grows), implemented by
   `LoopGate` and `ArticleIngest`.
3. **The labels of an issue**: an abstract specification that `RunnerLoop` and
   `IssueSelection` both implement, and the cleanup of `loop-agent-dispatch.yml` (a
   refused dispatch must not block the issue of another).
4. In `LoopGate`: the hold that an enabled auto-merge does not heed
   (`docs/loop-engineering.md:330`), comments that are edited or deleted
   (`state.ts:64-69`).
