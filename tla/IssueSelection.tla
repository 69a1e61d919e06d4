--------------------------- MODULE IssueSelection ---------------------------
(***************************************************************************)
(* Which issue is worked on next (tooling/loop, eligibility.ts and         *)
(* dependencies.ts, run by bin/select-issue.ts and by the local runner).   *)
(* An issue is selected from the backlog as it was read, and is claimed    *)
(* later.  The workflow reads all issues, with a map of dependencies for   *)
(* bodies that name none, and looks at the state and labels once more      *)
(* before it writes labels.  The local runner reads the open issues only,  *)
(* without a map, and does not look again.                                 *)
(* Meanwhile issues are shipped and people edit, label and close them.     *)
(*                                                                         *)
(* A body is a sequence of lines: what kind a line is, the issues it       *)
(* refers to, and whether a heading says "none".  A title decides nothing. *)
(***************************************************************************)
EXTENDS Naturals, Sequences, FiniteSets, SequencesExt, FiniteSetsExt

CONSTANTS
    IssueNumbers,           \* of the issues that exist
    Bodies,                 \* bodies issues are written with
    fallbackDependencies,   \* .github/loop-dependencies.json
    priorityLabels,         \* most urgent first
    Selectors,              \* runs of the selection, with the claim that follows
    Local,                  \* those of them that are local runners
    MaxEdits                \* bound: what people do to the backlog

IsBody(body) == body \in Seq(Range(body))

ASSUME SelectionAssumption ==
    /\ IssueNumbers \subseteq Nat \ {0}
    /\ \A body \in Bodies : IsBody(body)
    /\ DOMAIN fallbackDependencies \subseteq Nat
    /\ Local \subseteq Selectors
    /\ MaxEdits \in Nat

VARIABLES
    backlog,    \* backlog[n]: an issue on GitHub
    selector,   \* selector[s]: where a run is, what it has read and selected
    \* history
    started,    \* who has begun work, on which issue
    edited,     \* issues whose body has been edited since the beginning
    edits       \* what people have done so far

selectionVars == <<backlog, selector, started, edited, edits>>

-----------------------------------------------------------------------------
\* parseDependencyDeclaration.  The references of all blocks go into one set; whether a
\* blank line ends a block depends on it.

IsHeading(line) == line.kind = "heading"

\* mutant: the first blank line ends the block
ConsumeToBlank(body, block, i) ==
    IF block.open /\ body[i].kind = "item"
    THEN [block EXCEPT !.refs = @ \cup body[i].refs]
    ELSE [block EXCEPT !.open = FALSE]

\* A line after the heading: of the block, or the first that is not.
Consume(body, block, i) ==
    CASE ~block.open -> block
      [] block.open /\ body[i].kind = "item" -> [block EXCEPT !.refs = @ \cup body[i].refs]
      [] block.open /\ body[i].kind = "blank" ->
             [block EXCEPT !.open = ~(block.refs # {} /\ body[i - 1].kind = "item")]
      [] OTHER -> [block EXCEPT !.open = FALSE]

ReadBlock(body, found, k) ==
    LET block[j \in 0..(Len(body) - k)] ==
            IF j = 0 THEN [refs |-> found \cup body[k].refs, open |-> TRUE]
            ELSE Consume(body, block[j - 1], k + j)
    IN  IF IsHeading(body[k]) THEN block[Len(body) - k].refs ELSE found

parseIssueDependencies(body) ==
    LET found[k \in 0..Len(body)] ==
            IF k = 0 THEN {} ELSE ReadBlock(body, found[k - 1], k)
    IN  found[Len(body)]

\* Whether the body answers the question.
Declared(body) ==
    /\ \E k \in DOMAIN body : IsHeading(body[k])
    /\ \/ parseIssueDependencies(body) # {}
       \/ \E k \in DOMAIN body : IsHeading(body[k]) /\ body[k].none

Fallback(map, n) == IF n \in DOMAIN map THEN map[n] ELSE {}

effective(map, n, body) ==
    IF Declared(body) THEN parseIssueDependencies(body) ELSE Fallback(map, n)

\* mutant: a dependency that cannot be seen is taken for satisfied
SatisfiedIfUnseen(issues, d) == d \in DOMAIN issues => issues[d].state = "closed"

satisfied(issues, d) == d \in DOMAIN issues /\ issues[d].state = "closed"

-----------------------------------------------------------------------------
\* evaluateCandidates and selectNextIssue.

ExcludedLabels == {"agent:in-progress", "agent:review", "agent:blocked"}

eligible(issues, n, map, skip) ==
    /\ issues[n].state = "open"
    /\ "agent:ready" \in issues[n].labels
    /\ issues[n].labels \cap ExcludedLabels = {}
    /\ n \notin skip
    /\ \A d \in effective(map, n, issues[n].body) : satisfied(issues, d)

\* The place of the most urgent priority label; one past the last without any.
priorityRank(labels) ==
    Min({k \in DOMAIN priorityLabels : priorityLabels[k] \in labels}
            \cup {Len(priorityLabels) + 1})

Before(issues, m, n) ==
    LET rank(k) == priorityRank(issues[k].labels)
    IN  rank(m) < rank(n) \/ (rank(m) = rank(n) /\ m < n)

\* None, or the first of those that are eligible.
selectNextIssue(issues, map, skip) ==
    {n \in DOMAIN issues : /\ eligible(issues, n, map, skip)
                           /\ \A m \in DOMAIN issues \ {n} :
                                  eligible(issues, m, map, skip) => Before(issues, n, m)}

-----------------------------------------------------------------------------
AtEase == [pc |-> "idle", selected |-> 0, skip |-> {}]

SelectionInit ==
    /\ backlog \in [IssueNumbers -> [state : {"open"}, labels : {{"agent:ready"}}, body : Bodies]]
    /\ selector = [s \in Selectors |-> AtEase]
    /\ started = {} /\ edited = {} /\ edits = 0

\* What a run reads: every issue, or the open ones.  (The local runner reads 200 at most.)
Visible(s) ==
    [n \in {m \in IssueNumbers : s \in Local => backlog[m].state = "open"} |-> backlog[n]]

\* DEFAULT_SELECTION_POLICY has no map.
FallbackOf(s) == IF s \in Local THEN <<>> ELSE fallbackDependencies

Selection(s) == selectNextIssue(Visible(s), FallbackOf(s), selector[s].skip)

\* "Read the backlog" and "Select".  Nothing of what was read is kept but the number.
SelectIssue(s) ==
    /\ selector[s].pc = "idle"
    /\ \E n \in Selection(s) :
        selector' = [selector EXCEPT ![s].pc = "claim", ![s].selected = n]
    /\ UNCHANGED <<backlog, started, edited, edits>>

\* No issue is eligible: has_selection is false.
NothingSelected(s) ==
    /\ selector[s].pc = "idle"
    /\ Selection(s) = {}
    /\ selector' = [selector EXCEPT ![s].pc = "stopped"]
    /\ UNCHANGED <<backlog, started, edited, edits>>

\* "Claim the issue": its state and labels as they are now, not its dependencies.
Claimable(n) ==
    /\ backlog[n].state = "open"
    /\ "agent:ready" \in backlog[n].labels
    /\ backlog[n].labels \cap {"agent:in-progress", "agent:blocked"} = {}

ClaimChecked(s) ==
    /\ selector[s].pc = "claim"
    /\ s \notin Local
    /\ selector' = [selector EXCEPT ![s] =
           IF Claimable(@.selected) THEN [@ EXCEPT !.pc = "label"] ELSE AtEase]
    /\ UNCHANGED <<backlog, started, edited, edits>>

\* The labels are written without another look, and work begins.
ClaimIssue(s) ==
    LET n == selector[s].selected
    IN  /\ selector[s].pc = IF s \in Local THEN "claim" ELSE "label"
        /\ backlog' = [backlog EXCEPT ![n].labels = (@ \cup {"agent:in-progress"}) \ {"agent:ready"}]
        /\ selector' = [selector EXCEPT ![s].pc = "work"]
        /\ started' = started \cup {<<s, n>>}
        /\ UNCHANGED <<edited, edits>>

\* The pull request is merged, and the issue closed (loop-next-issue.yml).
Ship(s) ==
    LET n == selector[s].selected
    IN  /\ selector[s].pc = "work"
        /\ backlog' = [backlog EXCEPT ![n].state = "closed",
                                       ![n].labels = @ \ ({"agent:ready"} \cup ExcludedLabels)]
        /\ selector' = [selector EXCEPT ![s] = [AtEase EXCEPT !.skip = selector[s].skip]]
        /\ UNCHANGED <<started, edited, edits>>

\* The issue is given up; a runner remembers it for as long as it lives.
GiveUpIssue(s) ==
    LET n == selector[s].selected
    IN  /\ selector[s].pc = "work"
        /\ backlog' = [backlog EXCEPT ![n].labels = (@ \cup {"agent:blocked"}) \ {"agent:in-progress"}]
        /\ selector' = [selector EXCEPT ![s] =
               [AtEase EXCEPT !.skip = IF s \in Local THEN selector[s].skip \cup {n} ELSE {}]]
        /\ UNCHANGED <<started, edited, edits>>

\* People: another body, a priority, a second try, an issue closed by hand.
ByPerson(n, issue) ==
    /\ edits < MaxEdits
    /\ backlog' = [backlog EXCEPT ![n] = issue]
    /\ edits' = edits + 1
    /\ UNCHANGED <<selector, started>>

EditBody(n) ==
    \E b \in Bodies : /\ ByPerson(n, [backlog[n] EXCEPT !.body = b])
                      /\ edited' = edited \cup {n}

Prioritise(n) ==
    \E l \in Range(priorityLabels) :
        ByPerson(n, [backlog[n] EXCEPT !.labels = @ \cup {l}]) /\ UNCHANGED edited

Unblock(n) ==
    /\ "agent:blocked" \in backlog[n].labels
    /\ ByPerson(n, [backlog[n] EXCEPT !.labels = (@ \ {"agent:blocked"}) \cup {"agent:ready"}])
    /\ UNCHANGED edited

CloseIssue(n) == ByPerson(n, [backlog[n] EXCEPT !.state = "closed"]) /\ UNCHANGED edited

SelectionNext ==
    \/ \E s \in Selectors :
        SelectIssue(s) \/ NothingSelected(s) \/ ClaimChecked(s) \/ ClaimIssue(s)
            \/ Ship(s) \/ GiveUpIssue(s)
    \/ \E n \in IssueNumbers : EditBody(n) \/ Prioritise(n) \/ Unblock(n) \/ CloseIssue(n)

SelectionSpec == SelectionInit /\ [][SelectionNext]_selectionVars

-----------------------------------------------------------------------------
\* What a body says, by the doc comment of dependencies.ts rather than by its loop.  A line
\* certainly belongs to a block if only blank lines and then only items lie between it and
\* the heading; it cannot belong to one if a line of another kind does.

Between(body, h, k, kinds) == \A i \in (h + 1)..k : body[i].kind \in kinds

CertainlyOf(body, h, k) ==
    \/ k = h
    \/ \E b \in h..(k - 1) : Between(body, h, b, {"blank"}) /\ Between(body, b, k, {"item"})

PossiblyOf(body, h, k) == k = h \/ Between(body, h, k, {"item", "blank"})

Refs(body, Of(_, _, _)) ==
    UNION {body[k].refs : k \in {j \in DOMAIN body :
        \E h \in 1..j : IsHeading(body[h]) /\ Of(body, h, j)}}

\* Every reference in a block is read, and none from elsewhere: "a #12 mentioned anywhere
\* else in the body is prose, not a dependency".
BlockIsRead ==
    \A n \in IssueNumbers :
        LET body == backlog[n].body
        IN  /\ Refs(body, CertainlyOf) \subseteq parseIssueDependencies(body)
            /\ parseIssueDependencies(body) \subseteq Refs(body, PossiblyOf)

\* What a body leaves open, the map may answer.
AnswersItself(body) ==
    \/ Refs(body, PossiblyOf) # {}
    \/ \E k \in DOMAIN body : IsHeading(body[k]) /\ body[k].none

IsClosed(d) == d \in IssueNumbers /\ backlog[d].state = "closed"

\* Work never begins on an issue before what its body names is closed, nor, in the workflow,
\* if the body names nothing and does not say "none", before what the fallback map names is:
\* however old the reading is that selected it, and although the claim does not look again.
\* Issues that are not there, and those that wait for each other, hold it back for ever.
\* The local runner has no map (orchestrator.ts:390): what only the map holds back, it begins.
WorkedInOrder ==
    \A b \in started :
        LET n == b[2]
            body == backlog[n].body
            others == IF AnswersItself(body) THEN {} ELSE Fallback(FallbackOf(b[1]), n)
        IN  n \notin edited => \A d \in Refs(body, CertainlyOf) \cup others : IsClosed(d)
=============================================================================
