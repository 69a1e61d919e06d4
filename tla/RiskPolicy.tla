----------------------------- MODULE RiskPolicy -----------------------------
(***************************************************************************)
(* How risky a change is, and whether it weakens the rules it is judged by *)
(* (tooling/loop: glob, diff, detect, risk, control-plane, policy): pure.  *)
(*                                                                         *)
(* A path and a pattern are sequences of segments.  A line of a file is a  *)
(* record of what the checks look for in it.  A policy is a record of the  *)
(* parts of loop-policy.json that are compared or looked up.               *)
(***************************************************************************)
EXTENDS Naturals, Sequences, FiniteSets, SequencesExt, FiniteSetsExt

Levels == {"low", "medium", "high"}
RISK_ORDER == [low |-> 0, medium |-> 1, high |-> 2]

maxRisk(a, b) == IF RISK_ORDER[a] >= RISK_ORDER[b] THEN a ELSE b

HighestOf(default, risks) ==
    CHOOSE r \in risks \cup {default} :
        \A other \in risks \cup {default} : RISK_ORDER[r] >= RISK_ORDER[other]

\* What LoopPolicySchema accepts, of the parts that are modelled.  A rule that a policy does
\* not have is "none".
PolicyParts ==
    {"requiredChecks", "reviewers", "steps", "blockingSeverity", "rules", "default",
     "maxChangedFiles", "maxDeletedLines", "migrationGlobs", "contractGlobs",
     "controlPatterns", "alwaysPolicy", "policySignals"}

IsPolicy(p) ==
    /\ DOMAIN p = PolicyParts
    /\ p.reviewers \in [Levels -> 1..4]
    /\ DOMAIN p.steps = Levels
    /\ p.blockingSeverity \in Nat
    /\ p.rules \in [DOMAIN p.rules -> Levels \cup {"none"}]
    /\ p.default \in Levels
    /\ p.maxChangedFiles \in Nat /\ p.maxDeletedLines \in Nat

\* PullRequestDiff: files, each with its added and removed lines.
IsSequence(s) == s \in Seq(Range(s))
IsFile(file) ==
    file \in [path : {file.path}, status : {"added", "modified", "removed", "renamed"},
              added : Seq(Range(file.added)), removed : Seq(Range(file.removed))]
IsDiff(files) == IsSequence(files) /\ \A file \in Range(files) : IsFile(file)

-----------------------------------------------------------------------------
\* matchSegments.  "**" is any number of segments, "*" one of any text; what "*" and "?" do
\* inside a segment is left out.

SegmentMatches(pattern, segment) == pattern \in {"*", segment}

matchSegments(pattern, path) ==
    LET m[i \in 1..(Len(pattern) + 1), j \in 1..(Len(path) + 1)] ==
            IF i > Len(pattern) THEN j > Len(path)
            ELSE IF pattern[i] = "**" THEN \E k \in j..(Len(path) + 1) : m[i + 1, k]
            ELSE /\ j <= Len(path)
                 /\ SegmentMatches(pattern[i], path[j])
                 /\ m[i + 1, j + 1]
    IN  m[1, 1]

matchesAnyGlob(patterns, path) == \E p \in patterns : matchSegments(p, path)

-----------------------------------------------------------------------------
\* parseUnifiedDiff: raw lines are marked by how they begin, with the header of a file
\* ("diff"), what git says of it, the names "---" and "+++", "@@", or a sign.

NewFile(path) == [path |-> path, status |-> "modified", added |-> <<>>, removed |-> <<>>]

\* mutant: the two header lines of a file are read as lines of it
ReadHeaders(file, raw) ==
    CASE raw.mark = "newFile" -> [file EXCEPT !.status = "added"]
      [] raw.mark \in {"plus", "newName"} -> [file EXCEPT !.added = Append(@, raw.line)]
      [] raw.mark \in {"minus", "oldName"} -> [file EXCEPT !.removed = Append(@, raw.line)]
      [] OTHER -> file

\* What a raw line after its header says of a file.
ReadInFile(file, raw) ==
    CASE raw.mark = "newFile" -> [file EXCEPT !.status = "added"]
      [] raw.mark = "deletedFile" -> [file EXCEPT !.status = "removed"]
      [] raw.mark = "renameTo" -> [file EXCEPT !.status = "renamed", !.path = raw.path]
      [] raw.mark = "plus" -> [file EXCEPT !.added = Append(@, raw.line)]
      [] raw.mark = "minus" -> [file EXCEPT !.removed = Append(@, raw.line)]
      [] OTHER -> file

\* A header begins a file; the last of the files read so far is the current one.
ReadLine(files, raw) ==
    CASE raw.mark = "diff" -> Append(files, NewFile(raw.path))
      [] raw.mark # "diff" /\ files = <<>> -> files
      [] OTHER -> [files EXCEPT ![Len(files)] = ReadInFile(@, raw)]

parseUnifiedDiff(text) ==
    LET read[k \in 0..Len(text)] ==
            IF k = 0 THEN <<>> ELSE ReadLine(read[k - 1], text[k])
    IN  read[Len(text)]

-----------------------------------------------------------------------------
\* detect.ts, of a line's kind.

findDestructiveSql(file) == {l \in Range(file.added) : l.kind = "destructive"}

\* A name that is exported again is not removed: lines are only reordered.
ExportedNames(lines) == {l.name : l \in {x \in Range(lines) : x.kind = "export"}}
removedExports(file) == ExportedNames(file.removed) \ ExportedNames(file.added)

\* dependencyChanges: the same name on both sides with another major version, and no lower.
IsPackageJson(path) == path # <<>> /\ Last(path) = "package.json"
MajorUpgrades(file) ==
    {to \in Range(file.added) :
        /\ IsPackageJson(file.path)
        /\ to.kind = "dependency"
        /\ \E from \in Range(file.removed) :
               from.kind = "dependency" /\ from.name = to.name /\ from.major < to.major}

deletions(files) ==
    LET total[k \in 0..Len(files)] ==
            IF k = 0 THEN 0 ELSE total[k - 1] + Len(files[k].removed)
    IN  total[Len(files)]

-----------------------------------------------------------------------------
\* assessControlPlane: the file is machinery, or policy by name, or a changed line reads
\* like policy.
changedLinesCarryPolicy(file, policy) ==
    \E l \in Range(file.added) \cup Range(file.removed) : l.kind \in policy.policySignals

OnControlPlane(file, policy) ==
    \/ matchesAnyGlob(policy.controlPatterns, file.path)
    \/ matchesAnyGlob(policy.alwaysPolicy, file.path)
    \/ changedLinesCarryPolicy(file, policy)

assessControlPlane(files, policy) == \E file \in Range(files) : OnControlPlane(file, policy)

escalations(files, policy) ==
    \/ Len(files) > policy.maxChangedFiles
    \/ deletions(files) > policy.maxDeletedLines
    \/ \E file \in Range(files) :
        \/ matchesAnyGlob(policy.migrationGlobs, file.path) /\ findDestructiveSql(file) # {}
        \/ matchesAnyGlob(policy.contractGlobs, file.path) /\ removedExports(file) # {}
        \/ MajorUpgrades(file) # {}

\* The rules of risk.paths, by pattern.
RuleRisks(files, policy) ==
    {policy.rules[p] : p \in {q \in DOMAIN policy.rules :
        policy.rules[q] # "none" /\ \E file \in Range(files) : matchSegments(q, file.path)}}

\* mutant: a label overrides what the files say
classifyByLabel(files, labels, policy) ==
    HighestOf(policy.default, IF labels = {} THEN RuleRisks(files, policy) ELSE labels)

\* classifyRisk.  `labels` are the levels that risk labels declare.
classifyRisk(files, labels, policy) ==
    HighestOf(policy.default,
              RuleRisks(files, policy) \cup labels
                  \cup (IF escalations(files, policy) \/ assessControlPlane(files, policy)
                        THEN {"high"} ELSE {}))

\* mutant: a change is judged by the policy it brings along
classifyByProposal(files, labels, base, head) ==
    classifyRisk(files, labels, IF head = <<>> THEN base ELSE head[1])

\* stricterRisk, of the policy in force and the one the change proposes.  A proposal that
\* is the same, or cannot be parsed, is <<>>.
classifyRiskMonotonic(files, labels, base, head) ==
    LET under(policy) == classifyRisk(files, labels, policy)
    IN  IF head = <<>> THEN under(base) ELSE maxRisk(under(base), under(head[1]))

reviewersForRisk(policy, risk) == policy.reviewers[risk]

-----------------------------------------------------------------------------
\* findWeakenedProtections, with one element for each finding that is critical.
\* blockingSeverity is its place in SEVERITY_ORDER.

\* mutant: the lists are compared by their lengths
FewerChecks(base, head) ==
    IF Cardinality(head.requiredChecks) < Cardinality(base.requiredChecks)
    THEN base.requiredChecks \ head.requiredChecks ELSE {}

LostChecks(base, head) == base.requiredChecks \ head.requiredChecks

\* mutant: only the strictest tier is compared
FewerAtTheTop(base, head) == {l \in {"high"} : head.reviewers[l] < base.reviewers[l]}

FewerReviewers(base, head) == {l \in Levels : head.reviewers[l] < base.reviewers[l]}
LostSteps(base, head) == {l \in Levels : ~(base.steps[l] \subseteq head.steps[l])}

SeverityRaised(base, head) == head.blockingSeverity > base.blockingSeverity

\* A rule that is gone; one whose pattern is still there with another risk is not reported.
LostRules(base, head) == {p \in DOMAIN base.rules : base.rules[p] # "none" /\ head.rules[p] = "none"}

\* findUnsafeWorkflowChanges
IsWorkflow(path) == matchSegments(<<".github", "workflows", "**">>, path)
UnsafeWorkflows(files) ==
    {file \in Range(files) : IsWorkflow(file.path) /\ \E l \in Range(file.added) : l.kind = "unsafe"}

PolicyWeakened(base, head) ==
    \/ LostChecks(base, head) # {}
    \/ FewerReviewers(base, head) # {}
    \/ LostSteps(base, head) # {}
    \/ SeverityRaised(base, head)
    \/ LostRules(base, head) # {}

Weakens(files, base, head) ==
    \/ head # <<>> /\ PolicyWeakened(base, head[1])
    \/ UnsafeWorkflows(files) # {}
=============================================================================
