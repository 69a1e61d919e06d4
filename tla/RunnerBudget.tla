---------------------------- MODULE RunnerBudget ----------------------------
(***************************************************************************)
(* What an unattended runner may spend (local-runner, budget.ts and        *)
(* backoff.ts, as runUnattended calls them): a clock, the rolling windows  *)
(* of invocations and issues, and the waits after failures.  The budget    *)
(* is asked before an issue is claimed and never while it is worked on.    *)
(* Several calls may be made in one tick, the grain of the clock.          *)
(***************************************************************************)
EXTENDS Naturals, Sequences, FiniteSets, FiniteSetsExt

CONSTANTS
    Hour, Day,          \* the two windows, in ticks
    PerHour,            \* LOOP_MAX_MODEL_INVOCATIONS_PER_HOUR
    PerDay,             \* LOOP_MAX_ISSUES_PER_DAY
    MaxRuntime,         \* LOOP_MAX_RUNTIME_HOURS, in ticks
    CallsPerIssue,      \* the invocations one issue can take: see AgentRound
    MaxConsecutive,     \* LOOP_MAX_CONSECUTIVE_FAILURES
    BackoffBase, BackoffMax,
    MaxTime             \* bound: the clock

ASSUME BudgetAssumption ==
    /\ {Hour, Day, PerHour, PerDay, MaxRuntime, CallsPerIssue, MaxConsecutive,
        BackoffBase, BackoffMax, MaxTime} \subseteq Nat
    /\ Hour <= Day

VARIABLES
    clock,
    calls, issues,      \* timestamps: Budget.invocations and Budget.issues
    runner,             \* what the loop is at, and the calls made for the issue at hand
    consecutive,        \* Backoff
    \* history
    called, begun       \* every invocation, and every issue work began on, by its time,
                        \* but for those whose work was cut short by an error

budgetVars == <<clock, calls, issues, runner, consecutive, called, begun>>

-----------------------------------------------------------------------------
\* A time is in the window that ends now: at >= now() - windowMs.
InWindow(at, window) == clock <= at + window

\* mutant: the instant one window ago is no longer part of it
withinExclusive(timestamps, window) ==
    Cardinality({i \in DOMAIN timestamps : clock < timestamps[i] + window})

within(timestamps, window) ==
    Cardinality({i \in DOMAIN timestamps : InWindow(timestamps[i], window)})

\* What is left when the front has been shifted off for as long as it has aged out.
Shifted(timestamps, window) ==
    LET kept == {i \in DOMAIN timestamps : InWindow(timestamps[i], window)}
    IN  SubSeq(timestamps, Min(kept \cup {Len(timestamps) + 1}), Len(timestamps))

\* mutant: the issues of the day are dropped with the calls of the hour
prunedByHour == [calls |-> Shifted(calls, Hour), issues |-> Shifted(issues, Hour)]

\* prune
pruned == [calls |-> Shifted(calls, Hour), issues |-> Shifted(issues, Day)]

\* check: a limit of 0 is none.
Exceeded(kept) ==
    \/ PerHour > 0 /\ within(kept.calls, Hour) >= PerHour
    \/ PerDay > 0 /\ within(kept.issues, Day) >= PerDay
    \/ MaxRuntime > 0 /\ clock >= MaxRuntime

waitMs(n) == Min({BackoffBase * 2 ^ (n - 1), BackoffMax})

-----------------------------------------------------------------------------
AtRest == [pc |-> "cycle", made |-> 0, until |-> 0]

BudgetInit ==
    /\ clock = 0 /\ calls = <<>> /\ issues = <<>> /\ consecutive = 0
    /\ runner = AtRest
    /\ called = <<>> /\ begun = <<>>

Tick ==
    /\ clock < MaxTime
    /\ clock' = clock + 1
    /\ UNCHANGED <<calls, issues, runner, consecutive, called, begun>>

\* Nothing is in flight: the budget is asked, and an issue is claimed or the loop ends.
Ask ==
    /\ runner.pc = "cycle"
    /\ calls' = pruned.calls
    /\ issues' = pruned.issues
    /\ IF Exceeded(pruned)
       THEN runner' = [runner EXCEPT !.pc = "finished"] /\ UNCHANGED begun
       ELSE /\ runner' = [AtRest EXCEPT !.pc = "working"]
            /\ begun' = Append(begun, clock)
    /\ UNCHANGED <<clock, consecutive, called>>

\* recordInvocation, for a coding round and for each attempt of a review.
Invoke ==
    /\ runner.pc = "working"
    /\ runner.made < CallsPerIssue
    /\ runner' = [runner EXCEPT !.made = @ + 1]
    /\ calls' = Append(calls, clock)
    /\ called' = Append(called, clock)
    /\ UNCHANGED <<clock, issues, consecutive, begun>>

\* runOnce returned: only now is the issue counted.  A cycle that got here was no failure.
Worked ==
    /\ runner.pc = "working"
    /\ issues' = Append(issues, clock)
    /\ runner' = AtRest
    /\ consecutive' = 0
    /\ UNCHANGED <<clock, calls, called, begun>>

\* Wait out a failure, or stop.
tolerate ==
    /\ consecutive' = consecutive + 1
    /\ runner' = IF consecutive' > MaxConsecutive
                 THEN [AtRest EXCEPT !.pc = "finished"]
                 ELSE [AtRest EXCEPT !.pc = "waiting", !.until = clock + waitMs(consecutive')]

\* advance threw, or no issue could be selected.
CycleFails ==
    /\ runner.pc = "cycle"
    /\ tolerate
    /\ UNCHANGED <<clock, calls, issues, called, begun>>

\* runOnce threw after the claim: its issue is never counted.  Unless the journal has it in
\* flight, the next cycle may take another.
WorkFails ==
    /\ runner.pc = "working"
    /\ tolerate
    /\ begun' = SubSeq(begun, 1, Len(begun) - 1)
    /\ UNCHANGED <<clock, calls, issues, called>>

Waited ==
    /\ runner.pc = "waiting"
    /\ clock >= runner.until
    /\ runner' = AtRest
    /\ UNCHANGED <<clock, calls, issues, consecutive, called, begun>>

BudgetNext == Tick \/ Ask \/ Invoke \/ Worked \/ CycleFails \/ WorkFails \/ Waited

BudgetSpec == BudgetInit /\ [][BudgetNext]_budgetVars

-----------------------------------------------------------------------------
\* How many of a history fall into the window that ends at a time, both ends included.
Rolling(timestamps, end, window) ==
    Cardinality({i \in DOMAIN timestamps :
        timestamps[i] <= end /\ end <= timestamps[i] + window})

\* In no rolling day is work begun on more issues than allowed, although an issue is counted
\* when its work is over and not when it is claimed; but those whose work an error cut short
\* (a label call of fail, a create of a pull request: orchestrator.ts:256-268 skips 273) come
\* on top, although config.ts:70 says "Issues claimed in any rolling 24 hours".
IssuesPerDay ==
    PerDay > 0 => \A i \in DOMAIN begun : Rolling(begun, begun[i], Day) <= PerDay

\* In no rolling hour are there more invocations than allowed, but for those of one issue,
\* which the budget does not interrupt (config.ts:68 has no exception).
CallsPerHour ==
    PerHour > 0 =>
        \A i \in DOMAIN called : Rolling(called, called[i], Hour) < PerHour + CallsPerIssue
=============================================================================
