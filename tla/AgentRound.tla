----------------------------- MODULE AgentRound -----------------------------
(***************************************************************************)
(* What happens in the worktree of one issue (local-runner: the rounds of  *)
(* workIssue, exec.ts, claude.ts, claude-agent.ts, verify.ts): the coding  *)
(* agent, the verification steps of the tier and the independent reviews   *)
(* are child processes, one at a time, each with a deadline.  RunnerLoop   *)
(* has each of the three as one step that succeeds or fails; this module   *)
(* is what decides which.                                                  *)
(*                                                                         *)
(* A child has an exit code and an output, of which two things matter: it  *)
(* is the json that was asked for, and that says the agent failed.  A      *)
(* finding is its severity, 0 to 4.                                        *)
(***************************************************************************)
EXTENDS Naturals, Sequences, FiniteSets, SequencesExt

CONSTANTS
    Tiers,              \* Tiers[risk]: inherits, steps and reviewers of the policy
    FixRounds,          \* LOOP_CODING_FIX_ROUNDS
    Retries,            \* LOOP_REVIEWER_RETRY_ROUNDS
    BlockingSeverity,   \* review.blockingSeverity
    MostReviewers,      \* what the tier with most of them asks for
    ChangeKinds         \* what a change may touch: names that whenChanged may list

RiskLevels == DOMAIN Tiers

ASSUME RoundAssumption ==
    /\ FixRounds \in Nat \ {0} /\ Retries \in Nat \ {0} /\ BlockingSeverity \in 0..4
    /\ MostReviewers \in Nat /\ RiskLevels # {}
    /\ \A l \in RiskLevels : Tiers[l].reviewers \in 1..MostReviewers

\* A tier inherits another one, or none ("none"); inheritance ends, or collect would call
\* itself for ever.
Inherits(l) == Tiers[l].inherits \in RiskLevels \ {l}

ASSUME TiersAssumption ==
    /\ IsFiniteSet(RiskLevels)
    /\ \A l \in RiskLevels : Tiers[l].steps \in Seq(Range(Tiers[l].steps))
    /\ \E depth \in [RiskLevels -> 0..Cardinality(RiskLevels)] :
          \A l \in RiskLevels : Inherits(l) => depth[Tiers[l].inherits] < depth[l]

VARIABLES
    at,         \* where workIssue is
    turn,       \* the index of the round
    risk,       \* risk and files of the change, as classified after the last commit
    child,      \* the process that runs, or has just ended
    steps,      \* verify: the results recorded so far
    reviews,    \* gatherReviews: the usable reviews, the pass and its attempt
    \* history
    passed,     \* names of steps that exited 0 in time since the agent last wrote
    approving,  \* reviews of it that approve in time, with nothing that blocks
    invocations \* of the agents, for this issue

roundVars == <<at, turn, risk, child, steps, reviews, passed, approving, invocations>>

-----------------------------------------------------------------------------
\* stepsForRisk: inherited steps first, each name once.
Once(kept, step) ==
    IF \E i \in DOMAIN kept : kept[i].name = step.name THEN kept ELSE Append(kept, step)

stepsForRisk(level) ==
    LET collect[l \in RiskLevels] ==
            (IF Inherits(l) THEN collect[Tiers[l].inherits] ELSE <<>>) \o Tiers[l].steps
        kept[k \in 0..Len(collect[level])] ==
            IF k = 0 THEN <<>> ELSE Once(kept[k - 1], collect[level][k])
    IN  kept[Len(collect[level])]

\* whenChanged: a step without it, {}, always applies.
Applies(step, files) == step.whenChanged = {} \/ step.whenChanged \cap files # {}

-----------------------------------------------------------------------------
\* run, of exec.ts.

NoChild == [pc |-> "none", output |-> "closed", code |-> 0, timedOut |-> FALSE]
Spawn == [NoChild EXCEPT !.pc = "running", !.output = "open"]

Ended == child.pc = "exited" /\ child.output = "closed"

\* of the history: the child has done what it was started for
InTime == child.code = 0 /\ ~child.timedOut

keepsRound == UNCHANGED <<at, turn, risk, steps, reviews, passed, approving, invocations>>

\* The deadline: SIGTERM.  It also passes for a child that has exited, as long as somebody
\* holds its output open.
Deadline ==
    /\ child.pc \in {"running", "exited"} /\ ~Ended
    /\ ~child.timedOut
    /\ child' = [child EXCEPT !.timedOut = TRUE]
    /\ keepsRound

\* Ten seconds later: SIGKILL.
HardKill ==
    /\ child.timedOut
    /\ child.pc = "running"
    /\ child' = [child EXCEPT !.pc = "exited", !.code = 137]
    /\ keepsRound

\* By itself or on SIGTERM, with whatever code it chooses.
ChildExits ==
    /\ child.pc = "running"
    /\ \E code \in {0, 1, 2, 143} : child' = [child EXCEPT !.pc = "exited", !.code = code]
    /\ keepsRound

\* stdout and stderr end, with the child or before it, or when the last of the processes it
\* has started is gone.
OutputEnds ==
    /\ child.output = "open"
    /\ child' = [child EXCEPT !.output = "closed"]
    /\ keepsRound

-----------------------------------------------------------------------------
\* interpretInvocation: ok only if the exit code and the payload say so, and in time.
interpretInvocation(payload) ==
    /\ ~child.timedOut
    /\ child.code \notin {130, 143} /\ child.code # 2
    /\ payload.json
    /\ child.code = 0 /\ ~payload.isError

Payloads == [json : BOOLEAN, isError : BOOLEAN]

Call(place) ==
    /\ at' = place
    /\ child' = Spawn

\* A round begins: a prompt with the issue, or with what the last round left.
Implement ==
    /\ at = "implement"
    /\ Call("coding")
    /\ invocations' = invocations + 1
    /\ passed' = {} /\ approving' = 0
    /\ UNCHANGED <<turn, risk, steps, reviews>>

Blocked ==
    /\ at' = "blocked"
    /\ child' = NoChild

\* The agent has stopped: committed, classified, on to verification; or the issue blocks.
Implemented ==
    /\ at = "coding" /\ Ended
    /\ \E payload \in Payloads :
        IF interpretInvocation(payload)
        THEN /\ at' = "verify" /\ child' = NoChild
             /\ \E level \in RiskLevels, files \in SUBSET ChangeKinds \ {{}} :
                    risk' = [level |-> level, files |-> files]
        ELSE Blocked /\ UNCHANGED risk
    /\ steps' = <<>>
    /\ reviews' = [usable |-> <<>>, pass |-> 1, attempt |-> 0]
    /\ UNCHANGED <<turn, passed, approving, invocations>>

\* A commit that fails, or is empty.
NothingCommitted ==
    /\ at = "verify" /\ steps = <<>> /\ child.pc = "none"
    /\ Blocked
    /\ UNCHANGED <<turn, risk, steps, reviews, passed, approving, invocations>>

-----------------------------------------------------------------------------
\* verify.

HasFailed(results) == \E i \in DOMAIN results : results[i].outcome = "failed"
HasUnavailable(results) == \E i \in DOMAIN results : results[i].outcome = "unavailable"

Remaining == Len(steps) < Len(stepsForRisk(risk.level)) /\ ~HasFailed(steps)
CurrentStep == stepsForRisk(risk.level)[Len(steps) + 1]

recordStep(outcome) == steps' = Append(steps, [name |-> CurrentStep.name, outcome |-> outcome])

AtStep == at = "verify" /\ Remaining

keepsVerified == UNCHANGED <<turn, risk, reviews, approving, invocations>>

NotApplicable ==
    /\ AtStep
    /\ ~Applies(CurrentStep, risk.files)
    /\ recordStep("not-applicable")
    /\ UNCHANGED <<at, child, passed>> /\ keepsVerified

\* The tool is not on PATH.
ToolMissing ==
    /\ AtStep
    /\ Applies(CurrentStep, risk.files)
    /\ CurrentStep.requires
    /\ recordStep("unavailable")
    /\ UNCHANGED <<at, child, passed>> /\ keepsVerified

\* requiresProbe, for a step that has one, then the command.
RunStep ==
    /\ AtStep
    /\ Applies(CurrentStep, risk.files)
    /\ Call(IF CurrentStep.requiresProbe THEN "probing" ELSE "checking")
    /\ UNCHANGED <<steps, passed>> /\ keepsVerified

\* Present is not usable.  A probe that was killed has not exited 0.
Probed ==
    /\ at = "probing" /\ Ended
    /\ IF child.code = 0
       THEN Call("checking") /\ UNCHANGED steps
       ELSE recordStep("unavailable") /\ at' = "verify" /\ child' = NoChild
    /\ UNCHANGED passed /\ keepsVerified

StepPassed == child.code = 0 /\ ~child.timedOut

Checked ==
    /\ at = "checking" /\ Ended
    /\ recordStep(IF StepPassed THEN "passed" ELSE "failed")
    /\ passed' = IF InTime THEN passed \cup {CurrentStep.name} ELSE passed
    /\ at' = "verify" /\ child' = NoChild
    /\ keepsVerified

\* mutant: what could not run is left out of the verdict
NoneFailed == ~HasFailed(steps)

\* ok, of the outcome.
VerifiedOk == ~HasFailed(steps) /\ ~HasUnavailable(steps)

\* A step that could not run blocks, whatever else has failed; a failure is handed to the
\* next round, if there is one.
Verified ==
    /\ at = "verify" /\ ~Remaining
    /\ CASE VerifiedOk -> at' = "review" /\ UNCHANGED <<child, turn>>
         [] ~VerifiedOk /\ (HasUnavailable(steps) \/ turn = FixRounds - 1) ->
                Blocked /\ UNCHANGED turn
         [] OTHER -> at' = "implement" /\ turn' = turn + 1 /\ UNCHANGED child
    /\ UNCHANGED <<risk, steps, reviews, passed, approving, invocations>>

-----------------------------------------------------------------------------
\* gatherReviews, review and extractReview.

Required == Tiers[risk.level].reviewers

Review ==
    /\ at = "review"
    /\ reviews.pass <= Required
    /\ Call("reviewing")
    /\ invocations' = invocations + 1
    /\ UNCHANGED <<turn, risk, steps, reviews, passed, approving>>

Verdicts == {"approve", "request_changes", "blocked"}
ReviewResult == [status : Verdicts, worst : {0, 4}]

\* What a reviewer said, in the structured output and in the text: a review that can be
\* validated, or none, <<>>.
Said == {<<>>} \cup {<<r>> : r \in ReviewResult}

extractReview(structured, text) == IF structured # <<>> THEN structured ELSE text

Approving(r) == r.status = "approve" /\ r.worst < BlockingSeverity

\* mutant: an attempt that failed is not counted
HeardAgain(review) ==
    reviews' = IF review = <<>> THEN reviews
               ELSE [usable |-> reviews.usable \o review, pass |-> reviews.pass + 1, attempt |-> 0]

\* A usable review ends the pass; anything else is an attempt, and after the last of them
\* the reviewer is absent.
Heard(review) ==
    LET last == reviews.attempt + 1 >= Retries
    IN  IF review # <<>> \/ last
        THEN reviews' = [usable |-> reviews.usable \o review, pass |-> reviews.pass + 1,
                         attempt |-> 0]
        ELSE reviews' = [reviews EXCEPT !.attempt = @ + 1]

Reviewed ==
    /\ at = "reviewing" /\ Ended
    /\ \E payload \in Payloads, structured \in Said, text \in Said :
        LET review == IF interpretInvocation(payload) THEN extractReview(structured, text) ELSE <<>>
        IN  /\ structured # <<>> => text = <<>>   \* the text is not looked at then
            /\ Heard(review)
            /\ approving' = approving +
                   (IF InTime /\ review # <<>> /\ Approving(review[1]) THEN 1 ELSE 0)
    /\ at' = "review" /\ child' = NoChild
    /\ UNCHANGED <<turn, risk, steps, passed, invocations>>

\* combine, which asks the aggregator for as many reviews as there are.
combine(usable) ==
    LET given == Range(usable)
    IN  CASE \E r \in given : r.status = "blocked" -> "blocked"
          [] \E r \in given : r.status = "request_changes" \/ r.worst >= BlockingSeverity ->
                 "request_changes"
          [] OTHER -> "approve"

EnoughReviews == Len(reviews.usable) >= Required

Judge ==
    /\ at = "review"
    /\ reviews.pass > Required
    /\ LET verdict == IF EnoughReviews THEN combine(reviews.usable) ELSE "blocked"
       IN  CASE verdict = "approve" -> at' = "settled" /\ UNCHANGED <<child, turn>>
             [] verdict = "blocked" \/ (verdict = "request_changes" /\ turn = FixRounds - 1) ->
                    Blocked /\ UNCHANGED turn
             [] OTHER -> at' = "implement" /\ turn' = turn + 1 /\ UNCHANGED child
    /\ UNCHANGED <<risk, steps, reviews, passed, approving, invocations>>

-----------------------------------------------------------------------------
NotClassified == [level |-> CHOOSE l \in RiskLevels : TRUE, files |-> {}]

\* The worktree is ready; a resumed issue starts with a later round.
RoundInit ==
    /\ at = "implement"
    /\ turn \in 0..(FixRounds - 1)
    /\ risk = NotClassified /\ child = NoChild /\ steps = <<>>
    /\ reviews = [usable |-> <<>>, pass |-> 1, attempt |-> 0]
    /\ passed = {} /\ approving = 0 /\ invocations = 0

RoundNext ==
    \/ Deadline \/ HardKill \/ ChildExits \/ OutputEnds
    \/ Implement \/ Implemented \/ NothingCommitted
    \/ NotApplicable \/ ToolMissing \/ RunStep \/ Probed \/ Checked \/ Verified
    \/ Review \/ Reviewed \/ Judge

RoundSpec == RoundInit /\ [][RoundNext]_roundVars

-----------------------------------------------------------------------------
\* A change that is published has, since the agent last touched it, passed every step of its
\* tier that applies to it, in time, and been approved by as many reviewers as the tier
\* asks for: a killed step, a missing tool, a late answer, an output that cannot be read or
\* a reviewer that was absent never stand in for one ("An unrunnable check is not a passing
\* one", verify.ts:182; "A missing review is never an approval", orchestrator.ts:739).
SettledIsChecked ==
    at = "settled" =>
        /\ \A i \in DOMAIN stepsForRisk(risk.level) :
               LET step == stepsForRisk(risk.level)[i]
               IN  Applies(step, risk.files) => step.name \in passed
        /\ approving >= Tiers[risk.level].reviewers

\* However the children end, an issue takes no more invocations than its rounds and the
\* retries of their reviews: what RunnerBudget takes for granted.
EffortIsBounded == invocations <= FixRounds * (1 + MostReviewers * Retries)
=============================================================================
