---------------------------- MODULE MCComponents ----------------------------
(***************************************************************************)
(* Several components that share nothing, each checked by itself in one    *)
(* run: `part` says which of them moves, the others stay as they were at   *)
(* first.  What the components are checked with is below, part by part.    *)
(***************************************************************************)
EXTENDS ArticleIngest, SourcesAdmin, MCPolicyEvolution, MCIssueSelection, AgentRound,
        RunnerBudget, MCRunnerLock, TLC

VARIABLE part

tableVars == <<sourcesVars, adminVars>>

-----------------------------------------------------------------------------
\* ArticleIngest: feeds, and every batch of four candidates of three urls and two hashes
\* (whose first is named, for the names do not matter).
Url(page) == [scheme |-> "https", page |-> page, dress |-> {}]
Txt(words) == [words |-> words, dress |-> {}]
Item(page, title) ==
    [links |-> <<[rel |-> "none", href |-> Url(page)]>>,
     title |-> <<Txt(title)>>, summaries |-> <<>>, broken |-> "none"]
WithSelf(item) == [item EXCEPT !.links = <<[rel |-> "self", href |-> Url("p3")]>> \o @]
\* The alternate link has no href, and the link before it is taken.
WithoutHref(item) ==
    [item EXCEPT !.links = <<[rel |-> "self", href |-> @[1].href],
                             [rel |-> "alternate", href |-> NoHref]>>]
Dressed(item) == [item EXCEPT !.links[1].href.dress = {"tracker"}, !.title[1].dress = {"markup"}]
Doc(root, entries) ==
    [brace |-> root = "jsonfeed", wellFormed |-> TRUE, root |-> root, entries |-> entries]

MCDocuments == {
    Doc("rss", <<Item("p2", "t1")>>),
    Doc("feed", <<Dressed(Item("p1", "t1")), WithSelf(Item("p2", "t1"))>>),
    Doc("rss", <<Item("p1", "t2"), Item("p3", "t1")>>),
    Doc("feed", <<WithoutHref(Item("p2", "t2"))>>),
    Doc("jsonfeed", <<Item("p1", "t1"), Item("p2", "t2"), Item("p1", "t2")>>),
    Doc("jsonfeed", <<[Item("p1", "t1") EXCEPT !.links[1].href.scheme = "mailto"],
                      [Item("p2", "t3") EXCEPT !.title = <<>>], Item("p2", "t3")>>),
    Doc("rss", <<[Item("p2", "t3") EXCEPT !.broken = "text"]>>)}

Batches ==
    [1..4 -> [canonicalUrl : {Url("p1"), Url("p2"), Url("p3")},
              contentHash : {<<t, Nothing>> : t \in {"t1", "t2"}}]]

AnyBatch ==
    /\ articles = {} /\ made = MaxCalls /\ completed = {} /\ overlapped = FALSE
    /\ \E b \in Batches :
        /\ b[1] = [canonicalUrl |-> Url("p1"), contentHash |-> <<"t1", Nothing>>]
        /\ call = [c \in Calls |->
               IF c = CHOOSE only \in Calls : TRUE
               THEN [NoCall EXCEPT !.pc = "match", !.candidates = b,
                                   !.root = collapseInBatchDuplicates(b)]
               ELSE NoCall]

-----------------------------------------------------------------------------
\* Sources and SourcesAdmin: one source, and room for another, for which there may be a job.
MCTyped == {<<"n1", "f2">>}

OneSource ==
    /\ AdminInit
    /\ sources = [s \in SourceIds |-> IF s = Edited THEN NewSource("n1", "f1") ELSE Absent]
    /\ \A j \in Jobs : job[j].source = Edited \/ (part = "fetch" /\ j # CHOOSE o \in Jobs : TRUE)

-----------------------------------------------------------------------------
\* IssueSelection: every body of up to four lines, or one of the backlogs.
AnyBody ==
    /\ \E b \in UNION {[1..k -> LineKinds] : k \in 1..4} :
        backlog = [Fresh(<<b, b, b>>) EXCEPT ![1].labels = {}, ![2].labels = {}, ![3].labels = {}]
    /\ selector = [s \in Selectors |-> AtEase]
    /\ started = {} /\ edited = {} /\ edits = MaxEdits

OneBacklog == SelectionInit /\ backlog = Fresh([n \in IssueNumbers |-> <<None>>])

-----------------------------------------------------------------------------
\* AgentRound: two tiers, one of them with a step that needs a tool and infrastructure.
Step(name, whenChanged, tool) ==
    [name |-> name, whenChanged |-> whenChanged, requires |-> tool, requiresProbe |-> tool]

MCTiers ==
    [low  |-> [inherits |-> "none", reviewers |-> 1, steps |-> <<Step("lint", {}, FALSE)>>],
     high |-> [inherits |-> "low", reviewers |-> 2,
               steps |-> <<Step("lint", {}, FALSE), Step("docker", {"infra"}, TRUE)>>]]

-----------------------------------------------------------------------------
Parts == {"ingest", "batch", "api", "fetch", "admin", "policy", "selection", "bodies",
          "round", "budget", "lock"}

MCInit ==
    /\ part \in Parts
    /\ IF part = "batch" THEN AnyBatch ELSE IngestInit
    /\ OneSource
    /\ CASE part = "selection" -> SomeBacklog
         [] part = "bodies" -> AnyBody
         [] OTHER -> OneBacklog
    /\ RoundInit /\ (part # "round" => turn = 0)
    /\ BudgetInit
    /\ PolicyInit /\ Init

\* A step of one component, and of no other.
Alone(parts) == part \in parts /\ UNCHANGED part

IngestOnly == Alone({"ingest", "batch"})
    /\ UNCHANGED <<tableVars, policyVars, selectionVars, roundVars, budgetVars, vars>>
TableOnly(parts) == Alone(parts)
    /\ UNCHANGED <<ingestVars, policyVars, selectionVars, roundVars, budgetVars, vars>>
PolicyOnly == Alone({"policy"})
    /\ UNCHANGED <<ingestVars, tableVars, selectionVars, roundVars, budgetVars, vars>>
SelectionOnly == Alone({"selection"})
    /\ UNCHANGED <<ingestVars, tableVars, policyVars, roundVars, budgetVars, vars>>
RoundOnly == Alone({"round"})
    /\ UNCHANGED <<ingestVars, tableVars, policyVars, selectionVars, budgetVars, vars>>
BudgetOnly == Alone({"budget"})
    /\ UNCHANGED <<ingestVars, tableVars, policyVars, selectionVars, roundVars, vars>>
LockOnly == Alone({"lock"})
    /\ UNCHANGED <<ingestVars, tableVars, policyVars, selectionVars, roundVars, budgetVars>>

\* Bounds: two requests that race, without jobs; two jobs beside one update, of which one
\* is retried, stalled or meets failures of the database; and, on the page, errors on one
\* form at a time, no half filled fields, and one of: a change that another admin makes, an
\* answer the database fails, refetches that fail.
ApiAlone ==
    /\ TableOnly({"api"}) /\ UNCHANGED adminVars
    /\ \E r \in {"create", "other"} : RequestStep(r)

FetchAlone ==
    /\ TableOnly({"fetch"}) /\ UNCHANGED adminVars
    /\ \/ \E j \in Jobs :
              /\ JobStep(j)
              /\ j # (CHOOSE o \in Jobs : TRUE) =>
                     job[j].attempts = 0 /\ ~job'[j].dbFailed /\ job'[j].stalls = 0
              /\ ~(job'[j].dbFailed /\ job'[j].stalls > 0)
       \/ Receive("other", "update", Edited, "n1", <<"f2">>) \/ Check("other") \/ Write("other")
    /\ requested' <= 1

Disturbances ==
    {r \in Requests : request[r].dbFailed}
        \cup {r \in {"other"} : request[r] # NoRequest}
        \cup ({"failed"} \cap {list.pc})

AdminAlone ==
    /\ TableOnly({"admin"}) /\ AdminNext
    /\ NoErrors \in {newForm'.errors, rowForm'.errors}
    /\ request'["other"].feedUrl \in {<<>>, <<"f2">>} /\ ~request'["other"].dbFailed
    /\ Cardinality(Disturbances') <= 1

\* Bounds: one of the two pull requests can be read and is fetched, and a merge past the
\* gate is the end.
PolicyAlone ==
    /\ PolicyOnly /\ ~relaxed /\ PolicyNext
    /\ pr'["p2"].file = "valid" /\ pr'["p2"].fetched

\* Bounds: three of the four runners at a time; the two that share a pid may be killed, one
\* of them.
LockAlone ==
    /\ LockOnly /\ ~mistaken /\ Next
    /\ Cardinality({p \in Runners : Alive(p)'}) <= 3
    /\ killed' \in {{}, {r1}, {twin}}

MCNext ==
    \/ IngestOnly /\ IngestNext
    \/ ApiAlone
    \/ FetchAlone
    \/ AdminAlone
    \/ PolicyAlone
    \/ SelectionOnly /\ SelectionNext
    \/ RoundOnly /\ RoundNext
    \/ BudgetOnly /\ BudgetNext
    \/ LockAlone
=============================================================================
