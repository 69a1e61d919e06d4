-------------------------- MODULE PolicyEvolution --------------------------
(***************************************************************************)
(* The loop changes the policy it is governed by, one merge after another: *)
(* pull requests are classified (bin/classify-risk.ts), reviewed that many *)
(* times, evaluated (bin/evaluate-pr.ts) and merged, each at its own time. *)
(* Both programs read the trusted policy from the default branch as it is  *)
(* then, and the proposed one from the head of the pull request, which may *)
(* be behind, may have deleted the file or made it unreadable, and may not *)
(* be there to fetch.  Git merges the policy entry by entry, and refuses   *)
(* an entry that was changed on both sides (external).                     *)
(***************************************************************************)
EXTENDS RiskPolicy

CONSTANTS
    PullRequests,
    InitialPolicy,
    Checks, Steps,  \* names a policy may list
    FileSets,       \* what pull requests change: sequences of files
    LabelSets       \* the levels their risk labels declare

ASSUME PolicyAssumption ==
    /\ IsPolicy(InitialPolicy)
    /\ \A files \in FileSets : IsDiff(files)
    /\ LabelSets \subseteq SUBSET Levels

VARIABLES
    policy,     \* of the default branch, or the last it had
    policyFile, \* "valid", or what has become of the file on the default branch
    pr,
    \* history
    relaxed,    \* a person has merged a pull request past the gate
    unread      \* the gate has let go of a change of the policy that it had not read

policyVars == <<policy, policyFile, pr, relaxed, unread>>

-----------------------------------------------------------------------------
\* A policy file with one entry changed, or none, or without its control plane.
Variants(p) ==
    {p}
    \cup {[p EXCEPT !.requiredChecks = C] : C \in SUBSET Checks}
    \cup {[p EXCEPT !.reviewers[l] = n] : l \in Levels, n \in 1..2}
    \cup {[p EXCEPT !.steps[l] = S] : l \in Levels, S \in SUBSET Steps}
    \cup {[p EXCEPT !.blockingSeverity = s] : s \in 2..3}
    \cup {[p EXCEPT !.rules[q] = r] : q \in DOMAIN p.rules, r \in Levels \cup {"none"}}
    \cup {[p EXCEPT !.controlPatterns = {<<"elsewhere">>}, !.alwaysPolicy = {}]}

\* The three-way merge of a value, of a set, and of the policy.
Merge1(base, old, new) == IF new = old THEN base ELSE new
MergeSet(base, old, new) == (base \ (old \ new)) \cup (new \ old)
Clash(base, old, new) == new # old /\ base # old /\ base # new

Merged(base, old, new) ==
    [base EXCEPT
        !.requiredChecks = MergeSet(@, old.requiredChecks, new.requiredChecks),
        !.reviewers = [l \in Levels |-> Merge1(@[l], old.reviewers[l], new.reviewers[l])],
        !.steps = [l \in Levels |-> MergeSet(@[l], old.steps[l], new.steps[l])],
        !.blockingSeverity = Merge1(@, old.blockingSeverity, new.blockingSeverity),
        !.rules = [q \in DOMAIN @ |-> Merge1(@[q], old.rules[q], new.rules[q])],
        !.controlPatterns = MergeSet(@, old.controlPatterns, new.controlPatterns),
        !.alwaysPolicy = MergeSet(@, old.alwaysPolicy, new.alwaysPolicy)]

Conflicting(base, old, new) ==
    \/ \E l \in Levels : Clash(base.reviewers[l], old.reviewers[l], new.reviewers[l])
    \/ Clash(base.blockingSeverity, old.blockingSeverity, new.blockingSeverity)
    \/ \E q \in DOMAIN base.rules : Clash(base.rules[q], old.rules[q], new.rules[q])

-----------------------------------------------------------------------------
NoPullRequest ==
    [pc |-> "none", files |-> <<>>, labels |-> {}, file |-> "valid", fetched |-> TRUE,
     branch |-> InitialPolicy, head |-> InitialPolicy, asked |-> 0,
     judge |-> InitialPolicy, risk |-> "low", received |-> 0]

\* What the workflow hands the programs as the proposed policy, if it parses: nothing, when
\* the file is not there, or the head could not be fetched.
Proposed(p) == IF pr[p].file = "valid" /\ pr[p].fetched THEN <<pr[p].head>> ELSE <<>>

Risk(p) == classifyRiskMonotonic(pr[p].files, pr[p].labels, policy, Proposed(p))

PolicyInit ==
    /\ policy = InitialPolicy
    /\ policyFile = "valid"
    /\ pr = [p \in PullRequests |-> NoPullRequest]
    /\ relaxed = FALSE
    /\ unread = FALSE

PolicyPath == <<".github", "loop-policy.json">>
Edits(files) == \E f \in Range(files) : f.path = PolicyPath /\ f.status # "removed"
Deletes(files) == \E f \in Range(files) : f.path = PolicyPath /\ f.status = "removed"
Renames(files) == \E f \in Range(files) : f.status = "renamed"

\* A pull request that edits the policy file proposes another policy, or one that cannot be
\* parsed.  One that deletes it, or has renamed it to one of its files, proposes none.
Opened(p, files, labels, head, file) ==
    pr' = [pr EXCEPT ![p] = [@ EXCEPT !.pc = "open", !.files = files, !.labels = labels,
                                      !.file = file, !.branch = policy, !.head = head]]

\* Bound: none is opened once the default branch has no policy to be judged by.
Open(p, files, labels) ==
    /\ pr[p].pc = "none"
    /\ policyFile = "valid"
    /\ \/ ~Deletes(files) /\ Opened(p, files, labels, policy, "valid")
       \/ Edits(files) /\ Opened(p, files, labels, policy, "malformed")
       \/ (Deletes(files) \/ Renames(files)) /\ Opened(p, files, labels, policy, "deleted")
       \/ /\ Edits(files)
          /\ \E head \in Variants(policy) : Opened(p, files, labels, head, "valid")
    /\ UNCHANGED <<policy, policyFile, relaxed, unread>>

\* bin/classify-risk.ts: how many reviews the tier asks for.  A proposal that does not
\* parse is ignored.
Classify(p) ==
    /\ pr[p].pc = "open"
    /\ policyFile = "valid"
    /\ \E fetched \in BOOLEAN :
        LET risk == classifyRiskMonotonic(pr[p].files, pr[p].labels, policy,
                        IF fetched /\ pr[p].file = "valid" THEN <<pr[p].head>> ELSE <<>>)
        IN  pr' = [pr EXCEPT ![p] = [@ EXCEPT !.pc = "review", !.fetched = fetched,
                                              !.asked = reviewersForRisk(policy, risk)]]
    /\ UNCHANGED <<policy, policyFile, relaxed, unread>>

\* bin/evaluate-pr.ts can read what it is given.  A policy that does not parse, trusted or
\* proposed, is an exception: nothing is published.
Readable(p) == policyFile = "valid" /\ ~(pr[p].file = "malformed" /\ pr[p].fetched)

\* bin/evaluate-pr.ts, when it lets the change go: risk and protections are computed again,
\* under the policy of this moment, and as many reviews as that asks for have approved.
\* Without a proposed policy there is nothing to compare.
Evaluate(p) ==
    /\ pr[p].pc = "review"
    /\ Readable(p)
    /\ ~Weakens(pr[p].files, policy, Proposed(p))
    /\ \E received \in reviewersForRisk(policy, Risk(p))..pr[p].asked :
        pr' = [pr EXCEPT ![p] = [@ EXCEPT !.pc = "passed", !.judge = policy, !.risk = Risk(p),
                                          !.received = received]]
    /\ UNCHANGED <<policy, policyFile, relaxed, unread>>

\* The gate stops it: the next push starts over.
Stopped(p) ==
    /\ pr[p].pc = "review"
    /\ Readable(p)
    /\ \/ Weakens(pr[p].files, policy, Proposed(p))
       \/ pr[p].asked < reviewersForRisk(policy, Risk(p))
    /\ pr' = [pr EXCEPT ![p].pc = "open"]
    /\ UNCHANGED <<policy, policyFile, relaxed, unread>>

\* Git finds the policy changed on both sides: an entry of it, or the file as a whole.
Unmergeable(p) ==
    \/ policyFile = "valid" /\ Conflicting(policy, pr[p].branch, pr[p].head)
    \/ pr[p].file = "deleted" /\ policyFile # "deleted" /\ policy # pr[p].branch
    \/ pr[p].file = "deleted" /\ policyFile = "malformed"
    \/ pr[p].file = "malformed" /\ policyFile = "deleted"
    \/ pr[p].head # pr[p].branch /\ policyFile = "deleted"

\* The branch is brought up to date with the default branch: a new head, not yet judged.
UpdateBranch(p) ==
    /\ pr[p].pc \in {"open", "review", "passed"}
    /\ policyFile = "valid"
    /\ ~Unmergeable(p)
    /\ pr[p].branch # policy
    /\ pr' = [pr EXCEPT ![p] = [@ EXCEPT !.pc = "open", !.branch = policy,
                                         !.head = Merged(policy, pr[p].branch, pr[p].head)]]
    /\ UNCHANGED <<policy, policyFile, relaxed, unread>>

MergeOf(p) ==
    /\ ~Unmergeable(p)
    /\ policyFile' = IF pr[p].file = "valid" THEN policyFile ELSE pr[p].file
    /\ policy' = IF policyFile' = "valid" THEN Merged(policy, pr[p].branch, pr[p].head) ELSE policy
    /\ pr' = [pr EXCEPT ![p].pc = "merged"]

\* What it does to the policy is not what the gate has compared.
Unread(p) == Proposed(p) = <<>> /\ ~(pr[p].file = "valid" /\ pr[p].head = pr[p].branch)

\* Auto-merge, some time after the checks passed: the base may have moved on.
Merge(p) ==
    /\ pr[p].pc = "passed"
    /\ MergeOf(p)
    /\ unread' = (unread \/ Unread(p))
    /\ UNCHANGED relaxed

\* A person merges it, whatever the gate says.
MergeByHand(p) ==
    /\ pr[p].pc \in {"open", "review"}
    /\ MergeOf(p)
    /\ relaxed' = TRUE
    /\ UNCHANGED unread

PullRequestStep(p) ==
    \/ \E files \in FileSets, labels \in LabelSets : Open(p, files, labels)
    \/ Classify(p) \/ Evaluate(p) \/ Stopped(p) \/ UpdateBranch(p) \/ Merge(p) \/ MergeByHand(p)

PolicyNext == \E p \in PullRequests : PullRequestStep(p)

PolicySpec == PolicyInit /\ [][PolicyNext]_policyVars

-----------------------------------------------------------------------------
\* A policy keeps what another protects: what findWeakenedProtections compares.
Keeps(new, old) ==
    /\ old.requiredChecks \subseteq new.requiredChecks
    /\ \A l \in Levels : old.reviewers[l] <= new.reviewers[l] /\ old.steps[l] \subseteq new.steps[l]
    /\ new.blockingSeverity <= old.blockingSeverity
    /\ \A q \in DOMAIN old.rules : old.rules[q] # "none" => new.rules[q] # "none"

\* However many pull requests change the policy, judged against bases that have moved on
\* since and merged in any order: unless a person merged past the gate, or the gate let go of
\* a change of the policy that it could not read, the file stays valid, and no required
\* check, review, verification step, severity or risk rule of the beginning is ever lost.
ProtectionsSurvive ==
    ~relaxed /\ ~unread => policyFile = "valid" /\ Keeps(policy, InitialPolicy)

\* Nor is any that was added on the way: a change that was judged against an older base does
\* not undo what another has put into the policy in between.
ProtectionsOnlyGrow == [][~relaxed' /\ ~unread' => Keeps(policy', policy)]_policyVars

\* "Weakening is detected, and needs a person": docs/loop-engineering.md:131.  Violated: a
\* pull request that deletes the policy, or whose head cannot be fetched, proposes none
\* (loop-pr.yml:288-294), and evaluate-pr.ts:123-125 then looks for unsafe workflows only.
WeakeningNeedsAPerson == ~relaxed => policyFile = "valid" /\ Keeps(policy, InitialPolicy)

AtLeast(a, b) == RISK_ORDER[a] >= RISK_ORDER[b]

\* A pull request that went through the gate has been held to a risk no lower than the
\* trusted policy it was judged by assigns to its files, whatever the policy it brought
\* along and its labels say, and to the reviews that policy demands for that risk: it cannot
\* lower its own risk.  (Nothing makes a policy ask for more reviews of a higher risk.)
JudgedByTheBase ==
    \A p \in PullRequests : pr[p].pc = "passed" =>
        /\ AtLeast(pr[p].risk, classifyRisk(pr[p].files, {}, pr[p].judge))
        /\ pr[p].received >= reviewersForRisk(pr[p].judge, pr[p].risk)

\* Risk only ever moves up: a change is at least as risky as it would be without any one of
\* its files or labels, and as the policy's default.
Without(files, i) == [j \in 1..(Len(files) - 1) |-> IF j < i THEN files[j] ELSE files[j + 1]]

RiskOnlyMovesUp ==
    \A p \in PullRequests :
        LET files == pr[p].files
            labels == pr[p].labels
            risk == classifyRisk(files, labels, policy)
        IN  /\ AtLeast(risk, policy.default)
            /\ \A i \in DOMAIN files : AtLeast(risk, classifyRisk(Without(files, i), labels, policy))
            /\ \A l \in labels : AtLeast(risk, l) /\ AtLeast(risk, classifyRisk(files, labels \ {l}, policy))

\* The text git makes of a diff (external), and its reading, agree.
Raw(mark, path, line) == [mark |-> mark, path |-> path, line |-> line]
NoLine == [kind |-> "plain", name |-> "none", major |-> 0]

RenderFile(file) ==
    <<Raw("diff", file.path, NoLine)>>
    \o (CASE file.status = "added" -> <<Raw("newFile", <<>>, NoLine)>>
          [] file.status = "removed" -> <<Raw("deletedFile", <<>>, NoLine)>>
          [] file.status = "renamed" -> <<Raw("renameTo", file.path, NoLine)>>
          [] file.status = "modified" -> <<>>)
    \o <<Raw("oldName", <<>>, NoLine), Raw("newName", <<>>, NoLine), Raw("hunk", <<>>, NoLine)>>
    \o [i \in DOMAIN file.removed |-> Raw("minus", <<>>, file.removed[i])]
    \o <<Raw("context", <<>>, NoLine)>>
    \o [i \in DOMAIN file.added |-> Raw("plus", <<>>, file.added[i])]

Render(files) ==
    LET rendered[k \in 0..Len(files)] ==
            IF k = 0 THEN <<>> ELSE rendered[k - 1] \o RenderFile(files[k])
    IN  rendered[Len(files)]

\* What is classified is what the pull request changes: parseUnifiedDiff finds the files,
\* and every line of each, in the text of the diff.  (Lines that begin with "--" or "++",
\* and paths git puts in quotes, are the exceptions, and are not among the files here.)
DiffIsRead == \A p \in PullRequests : parseUnifiedDiff(Render(pr[p].files)) = pr[p].files
=============================================================================
