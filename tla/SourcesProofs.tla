---------------------------- MODULE SourcesProofs -----------------------------
(***************************************************************************)
(* What the sources table keeps, for any number of sources, requests and   *)
(* fetch jobs; then what the page shows, for any number of other admins and *)
(* of fields typed.  The page does nothing to the table but what Sources   *)
(* allows, so that all that is proved of Sources holds under the page.     *)
(***************************************************************************)
EXTENDS SourcesAdmin, TLAPS
-----------------------------------------------------------------------------
\* The types of the rows, the requests and the jobs.
NoUrl == {<<>>}
Given == {<<f>> : f \in FeedUrls}

SourceType ==
    [exists : BOOLEAN, name : Names \cup {"none"}, feedUrl : FeedUrls \cup {"none"},
     isActive : BOOLEAN, validator : FeedUrls \cup {"none"}, failing : BOOLEAN]

RequestType ==
    [pc : {"idle", "check", "write", "answered"},
     op : {"none", "create", "update", "deactivate"},
     id : SourceIds \cup {"none"}, name : Names \cup {"none"}, feedUrl : NoUrl \cup Given,
     result : {"none", "ok", "CONFLICT", "NOT_FOUND", "error"}, dbFailed : BOOLEAN]

Outcomes == {"none", "ok", "not-modified", "permanent", "retryable"}

JobType ==
    [pc : {"queued", "requesting", "record", "done", "failed"}, source : SourceIds,
     attempts : 0..MaxAttempts, stalls : 0..(MaxStalls + 1), feedUrl : FeedUrls \cup {"none"},
     redirects : 0..MaxRedirects, outcome : Outcomes, refusals : Nat, dbFailed : BOOLEAN,
     orphan : BOOLEAN]

ApiType == [name : Names \cup {"none"}, feedUrl : FeedUrls \cup {"none"}, isActive : BOOLEAN]

\* A request has what its statement needs; a job that has not ended has an attempt left and
\* was not stalled too often, and one that is to be recorded has an outcome.
RequestOK(q) ==
    q.pc \in {"check", "write"} =>
        /\ q.op \in {"create", "update", "deactivate"}
        /\ q.op = "create" => q.feedUrl \in Given
JobOK(j) ==
    /\ j.pc \in {"queued", "requesting", "record"} =>
           j.attempts < MaxAttempts /\ j.stalls <= MaxStalls
    /\ j.pc = "record" => j.outcome # "none"

Shaped ==
    /\ requested \in 0..MaxRequests
    /\ muddled \in SUBSET SourceIds
    /\ newest \in [SourceIds -> BOOLEAN]
    /\ sources \in [SourceIds -> SourceType]
    /\ latest \in [SourceIds -> [api : ApiType, writes : Nat]]
    /\ request \in [Requests -> RequestType]
    /\ job \in [Jobs -> JobType]
    /\ \A r \in Requests : RequestOK(request[r])
    /\ \A j \in Jobs : JobOK(job[j])

-----------------------------------------------------------------------------
\* What every request and every job is at first has its type.
LEMMA NoRequestType == NoRequest \in RequestType /\ RequestOK(NoRequest)
BY DEF NoRequest, RequestType, RequestOK, NoUrl

\* So has a job for any source.
LEMMA NewJobType ==
    ASSUME NEW s \in SourceIds
    PROVE  NewJob(s) \in JobType /\ JobOK(NewJob(s))
BY SourcesAssumption DEF NewJob, JobType, JobOK, Outcomes

\* A row that is absent, and a new one.
LEMMA RowTypes ==
    /\ Absent \in SourceType
    /\ \A name \in Names, f \in FeedUrls : NewSource(name, f) \in SourceType
BY DEF Absent, NewSource, SourceType

\* At first every part of the state has its type.
LEMMA ShapedInit == SourcesInit => Shaped
<1> SUFFICES ASSUME SourcesInit PROVE Shaped
  OBVIOUS
<1>1. sources \in [SourceIds -> SourceType]
  BY RowTypes DEF SourcesInit
<1>2. latest \in [SourceIds -> [api : ApiType, writes : Nat]]
  BY <1>1 DEF SourcesInit, SourceType, ApiType
<1>3. request \in [Requests -> RequestType] /\ \A r \in Requests : RequestOK(request[r])
  BY NoRequestType DEF SourcesInit
<1>4. job \in [Jobs -> JobType] /\ \A j \in Jobs : JobOK(job[j])
  BY NewJobType DEF SourcesInit
<1> QED
  BY <1>1, <1>2, <1>3, <1>4, SourcesAssumption DEF SourcesInit, Shaped

-----------------------------------------------------------------------------
\* The inductive invariant.

\* Two sources that are there have different feeds.
FeedsDiffer ==
    \A s, t \in SourceIds :
        s # t /\ sources[s].exists /\ sources[t].exists => sources[s].feedUrl # sources[t].feedUrl

\* An untyped error is the database's.
ErrorsAreFailures == \A r \in Requests : request[r].result = "error" => request[r].dbFailed

\* A job that was refused once more than it was stalled is about to record just that, or has
\* failed.
RefusalOK(q) ==
    ~q.dbFailed =>
        /\ q.refusals <= q.stalls + 1
        /\ q.refusals > q.stalls => \/ q.pc = "record" /\ q.outcome = "permanent"
                                   \/ q.pc = "failed"

Refusals == \A j \in Jobs : RefusalOK(job[j])

\* Attempts are made for sources that are there, and what is not there was never asked.
OnlyThere ==
    /\ \A j \in Jobs : InFlight(j) => sources[job[j].source].exists
    /\ \A s \in SourceIds : newest[s] => sources[s].exists

\* The attempts for a source do not overlap, unless the history says so.
OneAttempt ==
    \A j, k \in Jobs :
        InFlight(j) /\ InFlight(k) /\ job[j].source = job[k].source
            /\ job[j].source \notin muddled => j = k

\* What an attempt is about to record is the newest answer, and what is recorded was it.
Fails(j) == job[j].outcome \in {"permanent", "retryable"}

ToBeRecorded ==
    \A j \in Jobs :
        job[j].pc = "record" /\ job[j].source \notin muddled => (newest[job[j].source] <=> Fails(j))

AsRecorded ==
    \A s \in SourceIds :
        s \notin muddled /\ (\A j \in Jobs : job[j].source = s => job[j].pc # "record")
            => (sources[s].failing <=> newest[s])

TableInv == NoLostUpdate /\ FeedsDiffer
JobsInv == Refusals /\ OnlyThere /\ OneAttempt /\ ToBeRecorded /\ AsRecorded
SourcesInv == Shaped /\ TableInv /\ ErrorsAreFailures /\ JobsInv

\* At first all of it holds: there is no source, or one, that nobody has asked for.
LEMMA SourcesInvInit == SourcesInit => SourcesInv
<1> SUFFICES ASSUME SourcesInit PROVE SourcesInv
  OBVIOUS
<1>1. Shaped
  BY ShapedInit
<1>2. NoLostUpdate
  <2> SUFFICES ASSUME NEW s \in SourceIds PROVE Api(s) = latest[s].api
    BY DEF NoLostUpdate
  <2>1. latest[s].api = [name |-> sources[s].name, feedUrl |-> sources[s].feedUrl,
                         isActive |-> sources[s].isActive]
    BY DEF SourcesInit
  <2> QED
    BY <2>1 DEF Api
<1>3. FeedsDiffer
  BY DEF SourcesInit, FeedsDiffer, Absent, NewSource
<1>4. ErrorsAreFailures
  BY DEF SourcesInit, ErrorsAreFailures, NoRequest
<1>5. \A j \in Jobs : job[j].pc = "queued" /\ job[j].refusals = 0 /\ job[j].stalls = 0
  BY DEF SourcesInit, NewJob
<1>6. Refusals /\ OneAttempt /\ ToBeRecorded
  BY <1>5 DEF Refusals, RefusalOK, OneAttempt, ToBeRecorded, InFlight
<1>7. OnlyThere
  BY <1>5 DEF OnlyThere, InFlight, SourcesInit
<1>8. AsRecorded
  <2>1. Absent \in SourceType /\ ~Absent.failing
    BY DEF Absent, SourceType
  <2>2. \A name \in Names, f \in FeedUrls : ~NewSource(name, f).failing
    BY <2>1 DEF NewSource, SourceType
  <2>3. \A s \in SourceIds : ~sources[s].failing
    BY <2>1, <2>2 DEF SourcesInit
  <2>4. \A s \in SourceIds : ~newest[s]
    BY DEF SourcesInit
  <2> QED
    BY <2>3, <2>4 DEF AsRecorded
<1> QED
  BY <1>1, <1>2, <1>3, <1>4, <1>6, <1>7, <1>8 DEF SourcesInv, TableInv, JobsInv

-----------------------------------------------------------------------------
\* The requests.

\* Steps of a request that do not write: the table, its history and the jobs stay.
LEMMA OtherRequestSteps ==
    ASSUME SourcesInv, UNCHANGED <<sources, latest, jobVars>>,
           requested' \in 0..MaxRequests, request' \in [Requests -> RequestType],
           \A r \in Requests : RequestOK(request'[r]),
           \A r \in Requests : request'[r].result = "error" => request'[r].dbFailed
    PROVE  SourcesInv'
<1>1. Shaped'
  BY DEF SourcesInv, Shaped, jobVars
<1>2. TableInv'
  BY DEF SourcesInv, TableInv, NoLostUpdate, Api, FeedsDiffer
<1>3. ErrorsAreFailures'
  BY DEF ErrorsAreFailures
<1>4. JobsInv'
  BY DEF SourcesInv, JobsInv, Refusals, OnlyThere, OneAttempt, ToBeRecorded, AsRecorded,
         InFlight, Fails, jobVars
<1> QED
  BY <1>1, <1>2, <1>3, <1>4 DEF SourcesInv

\* What becomes of a request that is answered.
LEMMA AnsweredType ==
    ASSUME NEW q \in RequestType, NEW result \in {"ok", "CONFLICT", "NOT_FOUND"}, NEW a,
           a = [q EXCEPT !.pc = "answered", !.result = result]
    PROVE  a \in RequestType /\ a.pc = "answered" /\ a.result # "error"
BY DEF RequestType

\* What becomes of a request the database fails under.
LEMMA FailedType ==
    ASSUME NEW q \in RequestType, NEW a,
           a = [q EXCEPT !.pc = "answered", !.result = "error", !.dbFailed = TRUE]
    PROVE  a \in RequestType /\ a.pc = "answered" /\ a.dbFailed
BY DEF RequestType

\* A request that is answered keeps the types, and only a failure leaves an untyped error.
LEMMA AnswerStep ==
    ASSUME SourcesInv, NEW r \in Requests,
           \/ \E result \in {"ok", "CONFLICT", "NOT_FOUND"} : Answer(r, result)
           \/ Failed(r)
    PROVE  /\ request' \in [Requests -> RequestType]
           /\ \A q \in Requests : RequestOK(request'[q])
           /\ \A q \in Requests : request'[q].result = "error" => request'[q].dbFailed
<1>1. \A q \in Requests \ {r} : request'[q] = request[q]
  BY DEF Answer, Failed, SourcesInv, Shaped
<1>2. request'[r] \in RequestType /\ request'[r].pc = "answered"
      /\ (request'[r].result = "error" => request'[r].dbFailed)
  <2>1. request \in [Requests -> RequestType] /\ request[r] \in RequestType
    BY DEF SourcesInv, Shaped
  <2>2. CASE Failed(r)
    <3>1. request'[r] = [request[r] EXCEPT !.pc = "answered", !.result = "error", !.dbFailed = TRUE]
      BY <2>1, <2>2 DEF Failed
    <3> QED
      BY <2>1, <3>1, FailedType
  <2>3. ASSUME NEW result \in {"ok", "CONFLICT", "NOT_FOUND"}, Answer(r, result)
        PROVE  request'[r] \in RequestType /\ request'[r].pc = "answered"
               /\ request'[r].result # "error"
    <3>1. request'[r] = [request[r] EXCEPT !.pc = "answered", !.result = result]
      BY <2>1, <2>3 DEF Answer
    <3> QED
      BY <2>1, <3>1, AnsweredType
  <2> QED
    BY <2>2, <2>3
<1>3. request' = [q \in Requests |-> request'[q]]
  BY DEF Answer, Failed, SourcesInv, Shaped
<1> QED
  BY <1>1, <1>2, <1>3 DEF SourcesInv, Shaped, RequestOK, ErrorsAreFailures

\* A new request replaces one that was answered.
LEMMA ReceiveStep ==
    ASSUME SourcesInv, NEW r \in Requests, ReceiveCreate(r) \/ ReceiveUpdate(r) \/ ReceiveDeactivate(r)
    PROVE  SourcesInv'
<1> USE SourcesAssumption
<1>1. PICK op \in {"create", "update", "deactivate"}, id \in SourceIds \cup {"none"},
          name \in Names \cup {"none"}, feedUrl \in NoUrl \cup Given :
          Receive(r, op, id, name, feedUrl) /\ (op = "create" => feedUrl \in Given)
  BY DEF ReceiveCreate, ReceiveUpdate, ReceiveDeactivate, NoUrl, Given
<1> DEFINE new == [NoRequest EXCEPT !.pc = IF feedUrl # <<>> THEN "check" ELSE "write",
                                    !.op = op, !.id = id, !.name = name, !.feedUrl = feedUrl]
<1>2. new \in RequestType /\ RequestOK(new) /\ new.result = "none"
  BY <1>1 DEF NoRequest, RequestType, RequestOK
<1>3. request' = [request EXCEPT ![r] = new] /\ requested' \in 0..MaxRequests
      /\ UNCHANGED <<sources, latest, jobVars>>
  BY <1>1 DEF Receive, SourcesInv, Shaped
<1> HIDE DEF new
<1>4. /\ request' \in [Requests -> RequestType]
      /\ \A q \in Requests : RequestOK(request'[q])
      /\ \A q \in Requests : request'[q].result = "error" => request'[q].dbFailed
  BY <1>2, <1>3 DEF SourcesInv, Shaped, ErrorsAreFailures
<1> QED
  BY <1>3, <1>4, OtherRequestSteps

\* A request that is answered without a write leaves all of it as it was.
LEMMA UnwrittenAnswer ==
    ASSUME SourcesInv, NEW r \in Requests, UNCHANGED <<sources, requested, latest, jobVars>>,
           \/ \E result \in {"ok", "CONFLICT", "NOT_FOUND"} : Answer(r, result)
           \/ Failed(r)
    PROVE  SourcesInv'
<1>1. requested' \in 0..MaxRequests
  BY DEF SourcesInv, Shaped
<1> QED
  BY <1>1, AnswerStep, OtherRequestSteps

\* The check answers, or lets the request go on.
LEMMA CheckStep ==
    ASSUME SourcesInv, NEW r \in Requests, Check(r)
    PROVE  SourcesInv'
<1>1. CASE FeedUrlTaken(r)
  BY <1>1, UnwrittenAnswer DEF Check
<1>2. CASE ~FeedUrlTaken(r)
  <2>1. request' = [request EXCEPT ![r].pc = "write"] /\ request[r].pc = "check"
    BY <1>2 DEF Check
  <2>2. request \in [Requests -> RequestType] /\ requested \in 0..MaxRequests
    BY DEF SourcesInv, Shaped
  <2>3. /\ request' \in [Requests -> RequestType]
        /\ \A q \in Requests : request'[q].result = request[q].result
    BY <2>1, <2>2 DEF RequestType
  <2>4. \A q \in Requests : request'[q].dbFailed = request[q].dbFailed
    BY <2>1, <2>2 DEF RequestType
  <2>5. \A q \in Requests : RequestOK(request'[q])
    BY <2>1, <2>2 DEF RequestType, RequestOK, SourcesInv, Shaped
  <2>6. UNCHANGED <<sources, latest, jobVars>> /\ requested' = requested
    BY DEF Check
  <2>7. \A q \in Requests : request'[q].result = "error" => request'[q].dbFailed
    BY <2>3, <2>4 DEF SourcesInv, ErrorsAreFailures
  <2> QED
    BY <2>2, <2>3, <2>5, <2>6, <2>7, OtherRequestSteps
<1> QED
  BY <1>1, <1>2

-----------------------------------------------------------------------------
\* The statements.

\* The row a statement writes: a new one that never failed, or the old one with another
\* name, feed or activity.
LEMMA WrittenRow ==
    ASSUME SourcesInv, NEW r \in Requests, NEW s \in SourceIds, Written(r, s)
    PROVE  /\ sources' = [sources EXCEPT ![s] = sources'[s]]
           /\ sources'[s] \in SourceType
           /\ sources'[s].exists
           /\ sources[s].exists => (sources'[s].failing <=> sources[s].failing)
           /\ ~sources[s].exists => ~sources'[s].failing
           /\ \/ sources'[s].feedUrl = sources[s].feedUrl /\ sources[s].exists
              \/ \A t \in SourceIds \ {s} :
                     sources[t].exists => sources[t].feedUrl # sources'[s].feedUrl
<1>1. /\ sources \in [SourceIds -> SourceType] /\ sources[s] \in SourceType
      /\ request[r] \in RequestType /\ RequestOK(request[r]) /\ request[r].pc = "write"
  BY DEF SourcesInv, Shaped, Written
<1>2. CASE request[r].op = "create"
  <2>1. ~sources[s].exists /\ request[r].feedUrl \in Given
    BY <1>1, <1>2 DEF Written, Targets, RequestOK
  <2>2. PICK f \in FeedUrls : request[r].feedUrl = <<f>>
    BY <2>1 DEF Given
  <2>3. sources' = [sources EXCEPT ![s] = NewSource(request[r].name, f)]
    BY <1>2, <2>2 DEF Written, Statement, Inserted
  <2>4. /\ NewSource(request[r].name, f) \in SourceType
        /\ NewSource(request[r].name, f).exists
        /\ ~NewSource(request[r].name, f).failing
        /\ NewSource(request[r].name, f).feedUrl = f
    <3>1. Absent \in SourceType /\ ~Absent.failing
      BY DEF Absent, SourceType
    <3> QED
      BY <1>1, <3>1 DEF NewSource, SourceType, RequestType
  <2>5. \A t \in SourceIds \ {s} : sources[t].exists => sources[t].feedUrl # f
    BY <1>2, <2>2 DEF Written, FeedUrlTaken
  <2> HIDE DEF NewSource
  <2> QED
    BY <1>1, <2>1, <2>3, <2>4, <2>5
<1>3. CASE request[r].op = "update"
  <2>1. sources[s].exists /\ s = request[r].id
    BY <1>3 DEF Written, Targets
  <2>2. sources' = Updated(r, s)
    BY <1>3 DEF Written, Statement
  <2>3. CASE request[r].feedUrl = <<>>
    <3>1. sources' = [sources EXCEPT ![s] = [sources[s] EXCEPT !.name = request[r].name,
                                                              !.feedUrl = sources[s].feedUrl]]
      BY <1>1, <2>2, <2>3 DEF Updated
    <3> QED
      BY <1>1, <2>1, <3>1 DEF SourceType, RequestType
  <2>4. ASSUME NEW f \in FeedUrls, request[r].feedUrl = <<f>>
        PROVE  /\ sources' = [sources EXCEPT ![s] = [sources[s] EXCEPT !.name = request[r].name,
                                                                       !.feedUrl = f]]
               /\ \A t \in SourceIds \ {s} : sources[t].exists => sources[t].feedUrl # f
    <3>1. request[r].feedUrl # <<>> /\ request[r].feedUrl[1] = f
      BY <2>4
    <3>2. \A t \in SourceIds \ {s} : sources[t].exists => sources[t].feedUrl # f
      BY <2>1, <3>1 DEF Written, FeedUrlTaken
    <3> QED
      BY <1>1, <2>2, <3>1, <3>2 DEF Updated
  <2>5. ASSUME NEW f \in FeedUrls, request[r].feedUrl = <<f>>
        PROVE  /\ sources' = [sources EXCEPT ![s] = sources'[s]]
               /\ sources'[s] \in SourceType /\ sources'[s].exists
               /\ (sources'[s].failing <=> sources[s].failing)
               /\ \A t \in SourceIds \ {s} :
                     sources[t].exists => sources[t].feedUrl # sources'[s].feedUrl
    <3>1. /\ sources'[s] = [sources[s] EXCEPT !.name = request[r].name, !.feedUrl = f]
          /\ sources' = [sources EXCEPT ![s] = sources'[s]]
      BY <1>1, <2>4, <2>5
    <3>2. /\ sources'[s] \in SourceType /\ sources'[s].exists
          /\ (sources'[s].failing <=> sources[s].failing)
          /\ sources'[s].feedUrl = f
      BY <1>1, <2>1, <3>1 DEF SourceType, RequestType
    <3> QED
      BY <2>4, <2>5, <3>1, <3>2
  <2> QED
    BY <1>1, <2>1, <2>3, <2>5 DEF RequestType, NoUrl, Given
<1>4. CASE request[r].op = "deactivate"
  <2>1. sources[s].exists
    BY <1>4 DEF Written, Targets
  <2>2. sources' = [sources EXCEPT ![s] = [sources[s] EXCEPT !.isActive = FALSE]]
    BY <1>1, <1>4 DEF Written, Statement, Deactivated
  <2> QED
    BY <1>1, <2>1, <2>2 DEF SourceType
<1> QED
  BY <1>1, <1>2, <1>3, <1>4 DEF RequestOK

\* What is written is what the history calls the last write of the api.
LEMMA WrittenLatest ==
    ASSUME SourcesInv, NEW r \in Requests, NEW s \in SourceIds, Written(r, s)
    PROVE  /\ latest' \in [SourceIds -> [api : ApiType, writes : Nat]]
           /\ NoLostUpdate'
<1>1. /\ sources' = [sources EXCEPT ![s] = sources'[s]] /\ sources'[s] \in SourceType
      /\ sources \in [SourceIds -> SourceType]
      /\ latest \in [SourceIds -> [api : ApiType, writes : Nat]] /\ NoLostUpdate
  BY WrittenRow DEF SourcesInv, Shaped, TableInv
<1>2. \A t \in SourceIds : Api(t)' = [name |-> sources'[t].name, feedUrl |-> sources'[t].feedUrl,
                                      isActive |-> sources'[t].isActive]
  BY DEF Api
<1>3. Api(s)' \in ApiType
  BY <1>1, <1>2 DEF SourceType, ApiType
<1>4. latest' = [latest EXCEPT ![s] = [api |-> Api(s)', writes |-> latest[s].writes + 1]]
  BY <1>1 DEF Written
<1>5. latest' \in [SourceIds -> [api : ApiType, writes : Nat]]
  BY <1>1, <1>3, <1>4
<1>6. ASSUME NEW t \in SourceIds
      PROVE  Api(t)' = latest'[t].api
  <2>1. CASE t = s
    BY <1>1, <1>4, <2>1
  <2>2. CASE t # s
    <3>1. sources'[t] = sources[t] /\ latest'[t] = latest[t]
      BY <1>1, <1>4, <2>2
    <3> QED
      BY <1>1, <1>2, <3>1 DEF NoLostUpdate, Api
  <2> QED
    BY <2>1, <2>2
<1> QED
  BY <1>5, <1>6 DEF NoLostUpdate

\* A write, answered or not, keeps the invariant.
LEMMA WriteStep ==
    ASSUME SourcesInv, NEW r \in Requests, NEW s \in SourceIds, Written(r, s),
           UNCHANGED <<requested, jobVars>>, Answer(r, "ok") \/ Failed(r)
    PROVE  SourcesInv'
<1>1. /\ request' \in [Requests -> RequestType] /\ \A q \in Requests : RequestOK(request'[q])
      /\ ErrorsAreFailures'
  BY AnswerStep DEF ErrorsAreFailures
<1>2. /\ sources \in [SourceIds -> SourceType] /\ job' = job /\ newest' = newest
      /\ muddled' = muddled
  BY DEF SourcesInv, Shaped, jobVars
<1>3. /\ sources' = [sources EXCEPT ![s] = sources'[s]]
      /\ sources'[s] \in SourceType /\ sources'[s].exists
      /\ sources[s].exists => (sources'[s].failing <=> sources[s].failing)
      /\ ~sources[s].exists => ~sources'[s].failing
      /\ \/ sources'[s].feedUrl = sources[s].feedUrl /\ sources[s].exists
         \/ \A t \in SourceIds \ {s} : sources[t].exists => sources[t].feedUrl # sources'[s].feedUrl
  BY WrittenRow
<1>4. sources' \in [SourceIds -> SourceType] /\ \A t \in SourceIds \ {s} : sources'[t] = sources[t]
  BY <1>2, <1>3
<1>5. Shaped'
  BY <1>1, <1>2, <1>4, WrittenLatest DEF SourcesInv, Shaped
<1>6. FeedsDiffer'
  BY <1>3, <1>4 DEF SourcesInv, TableInv, FeedsDiffer
<1>7. Refusals' /\ OneAttempt' /\ ToBeRecorded'
  BY <1>2 DEF SourcesInv, JobsInv, Refusals, OneAttempt, ToBeRecorded, InFlight, Fails
<1>8. OnlyThere'
  BY <1>2, <1>3, <1>4 DEF SourcesInv, Shaped, JobType, JobsInv, OnlyThere, InFlight
<1>9. AsRecorded'
  <2>1. SUFFICES ASSUME NEW t \in SourceIds, t \notin muddled,
                        \A j \in Jobs : job[j].source = t => job[j].pc # "record"
                 PROVE  sources'[t].failing <=> newest[t]
    BY <1>2 DEF AsRecorded
  <2>2. sources[t].failing <=> newest[t]
    BY <2>1 DEF SourcesInv, JobsInv, AsRecorded
  <2>3. ~sources[t].exists => ~newest[t]
    BY DEF SourcesInv, JobsInv, OnlyThere
  <2> QED
    BY <1>3, <1>4, <2>2, <2>3
<1> QED
  BY <1>1, <1>5, <1>6, <1>7, <1>8, <1>9, WrittenLatest DEF SourcesInv, TableInv, JobsInv

\* Every step of a request keeps the invariant.
LEMMA RequestSteps ==
    ASSUME SourcesInv, NEW r \in Requests, RequestStep(r)
    PROVE  SourcesInv'
<1>1. CASE ReceiveCreate(r) \/ ReceiveUpdate(r) \/ ReceiveDeactivate(r)
  BY <1>1, ReceiveStep
<1>2. CASE Check(r)
  BY <1>2, CheckStep
<1>3. CASE Write(r) \/ WriteUnconfirmed(r)
  BY <1>3, WriteStep DEF Write, WriteUnconfirmed
<1>4. CASE WriteRefused(r) \/ WriteNothing(r) \/ RequestFails(r)
  BY <1>4, UnwrittenAnswer DEF WriteRefused, WriteNothing, RequestFails
<1> QED
  BY <1>1, <1>2, <1>3, <1>4 DEF RequestStep

-----------------------------------------------------------------------------
\* The attempts.

\* Steps of an attempt that record nothing leave the table as it was.
LEMMA UnrecordedStep ==
    ASSUME SourcesInv, UNCHANGED <<sources, apiVars>>
    PROVE  /\ TableInv' /\ ErrorsAreFailures'
           /\ sources' \in [SourceIds -> SourceType]
           /\ requested' \in 0..MaxRequests
           /\ latest' \in [SourceIds -> [api : ApiType, writes : Nat]]
           /\ request' \in [Requests -> RequestType]
           /\ \A r \in Requests : RequestOK(request'[r])
BY DEF SourcesInv, Shaped, TableInv, NoLostUpdate, Api, FeedsDiffer, ErrorsAreFailures, apiVars

\* What is recorded is whether the feed fails, and its validator, and nothing else.
LEMMA RecordedRow ==
    ASSUME SourcesInv, NEW j \in Jobs, job[j].pc = "record", Recorded(j)
    PROVE  LET s == job[j].source
           IN  /\ s \in SourceIds
               /\ sources' = [sources EXCEPT ![s] = sources'[s]]
               /\ sources'[s] \in SourceType
               /\ sources'[s].failing <=> Fails(j)
               /\ sources'[s].exists = sources[s].exists
               /\ sources'[s].name = sources[s].name
               /\ sources'[s].feedUrl = sources[s].feedUrl
               /\ sources'[s].isActive = sources[s].isActive
<1> DEFINE s == job[j].source
<1>1. /\ sources \in [SourceIds -> SourceType] /\ s \in SourceIds /\ sources[s] \in SourceType
      /\ job[j].outcome \in Outcomes \ {"none"} /\ job[j].feedUrl \in FeedUrls \cup {"none"}
  BY DEF SourcesInv, Shaped, JobType, JobOK
<1>2. PICK v \in FeedUrls \cup {"none"} : sources' = recordFetchOutcome(j, v)
  BY <1>1 DEF Recorded
<1>3. CASE job[j].outcome = "ok"
  <2>1. sources' = [sources EXCEPT ![s] = [sources[s] EXCEPT !.failing = FALSE, !.validator = v]]
    BY <1>1, <1>2, <1>3 DEF recordFetchOutcome
  <2> QED
    BY <1>1, <1>3, <2>1 DEF SourceType, Fails
<1>4. CASE job[j].outcome = "not-modified"
  <2>1. sources' = [sources EXCEPT ![s] = [sources[s] EXCEPT !.failing = FALSE]]
    BY <1>1, <1>2, <1>4 DEF recordFetchOutcome
  <2> QED
    BY <1>1, <1>4, <2>1 DEF SourceType, Fails
<1>5. CASE job[j].outcome \in {"permanent", "retryable"}
  <2>1. sources' = [sources EXCEPT ![s] = [sources[s] EXCEPT !.failing = TRUE]]
    BY <1>1, <1>2, <1>5 DEF recordFetchOutcome
  <2> QED
    BY <1>1, <1>5, <2>1 DEF SourceType, Fails
<1> QED
  BY <1>1, <1>3, <1>4, <1>5 DEF Outcomes

\* A job that moves: the others stay as they were.
LEMMA MovedJob ==
    ASSUME SourcesInv, NEW j \in Jobs, NEW moved \in JobType, JobOK(moved),
           job' = [job EXCEPT ![j] = moved]
    PROVE  /\ job' \in [Jobs -> JobType] /\ \A k \in Jobs : JobOK(job'[k])
           /\ job'[j] = moved /\ \A k \in Jobs \ {j} : job'[k] = job[k]
BY DEF SourcesInv, Shaped

\* What becomes of a job whose attempt begins, goes on after a redirect, or is lost.
Started(q, f) == [q EXCEPT !.pc = "requesting", !.feedUrl = f]
Redirected(q) == [q EXCEPT !.redirects = q.redirects + 1]
StalledAs(q, pc) == [q EXCEPT !.pc = pc, !.stalls = q.stalls + 1, !.feedUrl = "none",
                              !.redirects = 0, !.outcome = "none"]

\* It has its type, and one refusal more is allowed to a job that was stalled.
LEMMA StartedJob ==
    ASSUME NEW q \in JobType, JobOK(q), RefusalOK(q), q.pc = "queued",
           NEW f \in FeedUrls \cup {"none"}
    PROVE  LET m == Started(q, f)
           IN  m \in JobType /\ JobOK(m) /\ RefusalOK(m) /\ m.source = q.source
               /\ m.pc = "requesting"
<1> SUFFICES ASSUME NEW m, m = Started(q, f)
             PROVE  m \in JobType /\ JobOK(m) /\ RefusalOK(m) /\ m.source = q.source
                    /\ m.pc = "requesting"
  OBVIOUS
<1>1. m = [pc |-> "requesting", source |-> q.source, attempts |-> q.attempts, stalls |-> q.stalls,
           feedUrl |-> f, redirects |-> q.redirects, outcome |-> q.outcome,
           refusals |-> q.refusals, dbFailed |-> q.dbFailed, orphan |-> q.orphan]
  BY DEF JobType, Started
<1>2. m \in JobType
  BY <1>1 DEF JobType
<1> QED
  BY <1>1, <1>2 DEF JobOK, RefusalOK

LEMMA RedirectedJob ==
    ASSUME NEW q \in JobType, JobOK(q), RefusalOK(q), q.pc = "requesting",
           q.redirects < MaxRedirects
    PROVE  LET m == Redirected(q)
           IN  m \in JobType /\ JobOK(m) /\ RefusalOK(m) /\ m.source = q.source
               /\ m.pc = "requesting"
<1> SUFFICES ASSUME NEW m, m = Redirected(q)
             PROVE  m \in JobType /\ JobOK(m) /\ RefusalOK(m) /\ m.source = q.source
                    /\ m.pc = "requesting"
  OBVIOUS
<1>1. m = [pc |-> "requesting", source |-> q.source, attempts |-> q.attempts, stalls |-> q.stalls,
           feedUrl |-> q.feedUrl, redirects |-> q.redirects + 1, outcome |-> q.outcome,
           refusals |-> q.refusals, dbFailed |-> q.dbFailed, orphan |-> q.orphan]
  BY DEF JobType, Redirected
<1>2. q.redirects + 1 \in 0..MaxRedirects
  BY SourcesAssumption DEF JobType
<1>3. m \in JobType
  BY <1>1, <1>2 DEF JobType
<1> QED
  BY <1>1, <1>3 DEF JobOK, RefusalOK

LEMMA StalledJob ==
    ASSUME NEW q \in JobType, JobOK(q), RefusalOK(q), q.pc \in {"queued", "requesting", "record"},
           NEW pc \in {"queued", "failed"}, pc = "queued" => q.stalls < MaxStalls
    PROVE  LET m == StalledAs(q, pc)
           IN  m \in JobType /\ JobOK(m) /\ RefusalOK(m) /\ m.source = q.source /\ m.pc = pc
<1> SUFFICES ASSUME NEW m, m = StalledAs(q, pc)
             PROVE  m \in JobType /\ JobOK(m) /\ RefusalOK(m) /\ m.source = q.source /\ m.pc = pc
  OBVIOUS
<1>1. m = [pc |-> pc, source |-> q.source, attempts |-> q.attempts, stalls |-> q.stalls + 1,
           feedUrl |-> "none", redirects |-> 0, outcome |-> "none",
           refusals |-> q.refusals, dbFailed |-> q.dbFailed, orphan |-> q.orphan]
  BY DEF JobType, StalledAs
<1>2. /\ q.stalls \in Nat /\ q.stalls <= MaxStalls /\ MaxStalls \in Nat /\ q.refusals \in Nat
      /\ q.attempts < MaxAttempts
  BY SourcesAssumption DEF JobType, JobOK
<1>3. m \in JobType
  BY <1>1, <1>2, SourcesAssumption DEF JobType, Outcomes
<1>4. JobOK(m)
  BY <1>1, <1>2 DEF JobOK
<1>5. RefusalOK(m)
  BY <1>1, <1>2 DEF RefusalOK
<1> QED
  BY <1>1, <1>3, <1>4, <1>5

\* What becomes of a job whose attempt has ended.
LeftAs(q, pc) == [q EXCEPT !.pc = pc, !.attempts = q.attempts + 1, !.feedUrl = "none",
                           !.redirects = 0, !.outcome = "none"]

\* It has its type, and a job that is queued again has an attempt left.
LEMMA LeftJob ==
    ASSUME NEW q \in JobType, JobOK(q), q.pc \in {"queued", "requesting", "record"},
           NEW pc \in {"queued", "done", "failed"},
           pc = "queued" => q.attempts + 1 < MaxAttempts
    PROVE  LET m == LeftAs(q, pc)
           IN  /\ m \in JobType /\ JobOK(m) /\ m.source = q.source /\ m.pc = pc
               /\ m.refusals = q.refusals /\ m.stalls = q.stalls /\ m.dbFailed = q.dbFailed
<1> SUFFICES ASSUME NEW m, m = LeftAs(q, pc)
             PROVE  /\ m \in JobType /\ JobOK(m) /\ m.source = q.source /\ m.pc = pc
                    /\ m.refusals = q.refusals /\ m.stalls = q.stalls /\ m.dbFailed = q.dbFailed
  OBVIOUS
<1>1. m = [pc |-> pc, source |-> q.source, attempts |-> q.attempts + 1, stalls |-> q.stalls,
           feedUrl |-> "none", redirects |-> 0, outcome |-> "none", refusals |-> q.refusals,
           dbFailed |-> q.dbFailed, orphan |-> q.orphan]
  BY DEF JobType, LeftAs
<1>2. q.attempts + 1 \in 0..MaxAttempts /\ q.stalls <= MaxStalls
  BY SourcesAssumption DEF JobType, JobOK
<1>3. 0 \in 0..MaxRedirects /\ "none" \in Outcomes
  BY SourcesAssumption DEF Outcomes
<1>4. m \in JobType
  BY <1>1, <1>2, <1>3 DEF JobType
<1> QED
  BY <1>1, <1>2, <1>4 DEF JobOK

\* When a job that has thrown is queued again.
LEMMA ThrownType ==
    ASSUME NEW j \in Jobs
    PROVE  /\ Thrown(j) \in {"queued", "failed"}
           /\ Thrown(j) = "queued" => job[j].attempts + 1 < MaxAttempts
BY DEF Thrown

\* A step of an attempt after which nothing is to be recorded that was answered, and which
\* does not make it overlap another one unnoticed.
LEMMA UnansweredStep ==
    ASSUME SourcesInv, NEW j \in Jobs, NEW moved \in JobType, JobOK(moved), RefusalOK(moved),
           job' = [job EXCEPT ![j] = moved], moved.source = job[j].source,
           moved.pc \in {"queued", "requesting", "failed"},
           UNCHANGED <<sources, apiVars, newest>>,
           muddled \subseteq muddled', muddled' \subseteq SourceIds,
           job[j].pc = "record" => job[j].source \in muddled',
           moved.pc = "requesting" =>
               /\ sources[job[j].source].exists
               /\ \/ InFlight(j)
                  \/ job[j].source \in muddled'
                  \/ \A o \in Jobs \ {j} : job[o].source = job[j].source => ~InFlight(o)
    PROVE  SourcesInv'
<1> DEFINE s == job[j].source
<1>1. /\ job[j] \in JobType /\ s \in SourceIds /\ job \in [Jobs -> JobType]
      /\ newest' = newest /\ sources' = sources
  BY DEF SourcesInv, Shaped, JobType
<1>2. /\ job' \in [Jobs -> JobType] /\ \A k \in Jobs : JobOK(job'[k])
      /\ job'[j] = moved /\ \A k \in Jobs \ {j} : job'[k] = job[k]
  BY MovedJob
<1>3. Shaped'
  BY <1>1, <1>2, UnrecordedStep DEF SourcesInv, Shaped
<1>4. Refusals'
  BY <1>2 DEF SourcesInv, JobsInv, Refusals
<1>5. OnlyThere'
  BY <1>1, <1>2 DEF SourcesInv, JobsInv, OnlyThere, InFlight
<1>6. OneAttempt'
  BY <1>1, <1>2 DEF SourcesInv, JobsInv, OneAttempt, InFlight
<1>7. ToBeRecorded'
  <2>1. SUFFICES ASSUME NEW k \in Jobs, job'[k].pc = "record", job'[k].source \notin muddled'
                 PROVE  newest[job'[k].source] <=> Fails(k)'
    BY <1>1 DEF ToBeRecorded
  <2>2. k # j /\ job'[k] = job[k] /\ job[k].source \notin muddled
    BY <1>2, <2>1
  <2> QED
    BY <2>1, <2>2 DEF SourcesInv, JobsInv, ToBeRecorded, Fails
<1>8. AsRecorded'
  <2>1. SUFFICES ASSUME NEW t \in SourceIds, t \notin muddled',
                        \A k \in Jobs : job'[k].source = t => job'[k].pc # "record"
                 PROVE  sources[t].failing <=> newest[t]
    BY <1>1 DEF AsRecorded
  <2>2. t \notin muddled /\ \A k \in Jobs : job[k].source = t => job[k].pc # "record"
    BY <1>1, <1>2, <2>1
  <2> QED
    BY <2>2 DEF SourcesInv, JobsInv, AsRecorded
<1> QED
  BY <1>3, <1>4, <1>5, <1>6, <1>7, <1>8, UnrecordedStep DEF SourcesInv, JobsInv

\* An attempt begins, or there is nothing to fetch, or the database fails.
LEMMA StartStep ==
    ASSUME SourcesInv, NEW j \in Jobs, Start(j) \/ StartFails(j)
    PROVE  SourcesInv'
<1> DEFINE s == job[j].source
<1>1. /\ job[j] \in JobType /\ s \in SourceIds /\ job \in [Jobs -> JobType]
      /\ job[j].pc = "queued" /\ JobOK(job[j]) /\ RefusalOK(job[j]) /\ sources[s] \in SourceType
      /\ muddled \subseteq SourceIds /\ UNCHANGED <<sources, apiVars, newest>>
      /\ muddled \subseteq muddled' /\ muddled' \subseteq SourceIds
  BY DEF SourcesInv, Shaped, JobType, JobsInv, Refusals, Start, StartFails
<1>2. ASSUME NEW pc \in {"queued", "failed"}, pc = "queued" => job[j].attempts + 1 < MaxAttempts,
             job' = [job EXCEPT ![j] = LeftAs(job[j], pc)]
      PROVE  SourcesInv'
  <2> DEFINE moved == LeftAs(job[j], pc)
  <2>1. /\ moved \in JobType /\ JobOK(moved) /\ moved.source = s /\ moved.pc = pc
        /\ moved.refusals = job[j].refusals /\ moved.stalls = job[j].stalls
        /\ moved.dbFailed = job[j].dbFailed
    BY <1>1, <1>2, LeftJob
  <2> HIDE DEF moved
  <2>2. RefusalOK(moved)
    BY <1>1, <2>1 DEF RefusalOK
  <2> QED
    BY <1>1, <1>2, <2>1, <2>2, UnansweredStep DEF moved
<1>3. CASE StartFails(j)
  <2>1. job' = [job EXCEPT ![j] = LeftAs(job[j], Thrown(j))]
    BY <1>3 DEF StartFails, Left, LeftAs
  <2> QED
    BY <1>2, <2>1, ThrownType
<1>4. CASE Start(j) /\ ~sources[s].exists
  <2>1. job' = [job EXCEPT ![j] = LeftAs(job[j], "failed")]
    BY <1>4 DEF Start, Left, LeftAs
  <2> QED
    BY <1>2, <2>1
<1>5. CASE Start(j) /\ sources[s].exists
  <2> DEFINE moved == Started(job[j], sources[s].feedUrl)
  <2>1. job' = [job EXCEPT ![j] = moved]
    BY <1>5 DEF Start, Started
  <2>2. sources[s].feedUrl \in FeedUrls \cup {"none"}
    BY <1>1 DEF SourceType
  <2>3. /\ moved \in JobType /\ JobOK(moved) /\ RefusalOK(moved) /\ moved.source = s
        /\ moved.pc = "requesting"
    BY <1>1, <2>2, StartedJob
  <2> HIDE DEF moved
  <2>4. s \in muddled' \/ \A o \in Jobs \ {j} : job[o].source = s => ~InFlight(o)
    BY <1>5 DEF Start
  <2> QED
    BY <1>1, <1>5, <2>1, <2>3, <2>4, UnansweredStep
<1> QED
  BY <1>3, <1>4, <1>5

\* A redirect that is followed decides nothing.
LEMMA FollowStep ==
    ASSUME SourcesInv, NEW j \in Jobs, Follow(j)
    PROVE  SourcesInv'
<1> DEFINE moved == Redirected(job[j])
<1>1. /\ job[j] \in JobType /\ job \in [Jobs -> JobType] /\ job[j].pc = "requesting"
      /\ JobOK(job[j]) /\ RefusalOK(job[j]) /\ job[j].redirects < MaxRedirects
      /\ UNCHANGED <<sources, apiVars, newest>> /\ muddled' = muddled
      /\ muddled \subseteq SourceIds
  BY DEF SourcesInv, Shaped, JobsInv, Refusals, Follow
<1>2. job' = [job EXCEPT ![j] = moved]
  BY <1>1 DEF Follow, Redirected
<1>3. /\ moved \in JobType /\ JobOK(moved) /\ RefusalOK(moved) /\ moved.source = job[j].source
      /\ moved.pc = "requesting"
  BY <1>1, RedirectedJob
<1> HIDE DEF moved
<1>4. InFlight(j) /\ sources[job[j].source].exists
  BY <1>1 DEF InFlight, SourcesInv, JobsInv, OnlyThere
<1> QED
  BY <1>1, <1>2, <1>3, <1>4, UnansweredStep

\* What becomes of a job that is answered.
AnsweredOf(q, o, n) == [q EXCEPT !.pc = "record", !.outcome = o, !.refusals = n]

\* It has its type.
LEMMA AnsweredJob ==
    ASSUME NEW q \in JobType, JobOK(q), q.pc = "requesting", NEW o \in Outcomes \ {"none"},
           NEW n \in Nat
    PROVE  LET m == AnsweredOf(q, o, n)
           IN  /\ m \in JobType /\ JobOK(m) /\ m.source = q.source /\ m.pc = "record"
               /\ m.outcome = o /\ m.refusals = n /\ m.dbFailed = q.dbFailed
               /\ m.stalls = q.stalls
<1> SUFFICES ASSUME NEW m, m = AnsweredOf(q, o, n)
             PROVE  /\ m \in JobType /\ JobOK(m) /\ m.source = q.source /\ m.pc = "record"
                    /\ m.outcome = o /\ m.refusals = n /\ m.dbFailed = q.dbFailed
                    /\ m.stalls = q.stalls
  OBVIOUS
<1>1. m = [pc |-> "record", source |-> q.source, attempts |-> q.attempts, stalls |-> q.stalls,
           feedUrl |-> q.feedUrl, redirects |-> q.redirects, outcome |-> o, refusals |-> n,
           dbFailed |-> q.dbFailed, orphan |-> q.orphan]
  BY DEF JobType, AnsweredOf
<1>2. m \in JobType
  BY <1>1 DEF JobType
<1> QED
  BY <1>1, <1>2 DEF JobOK

\* An answer decides what will be recorded.
LEMMA AnsweredStep ==
    ASSUME SourcesInv, NEW j \in Jobs, NEW answer \in Answers, Answered(j, answer)
    PROVE  SourcesInv'
<1> DEFINE s == job[j].source
           o == Outcome(answer)
<1>1. /\ job[j] \in JobType /\ s \in SourceIds /\ job \in [Jobs -> JobType]
      /\ job[j].pc = "requesting" /\ JobOK(job[j]) /\ newest \in [SourceIds -> BOOLEAN]
      /\ muddled' = muddled /\ UNCHANGED <<sources, apiVars>>
  BY DEF SourcesInv, Shaped, JobType, Answered
<1>2. o \in Outcomes \ {"none"}
  BY DEF Outcome, Answers, Outcomes
<1>3. newest' = [newest EXCEPT ![s] = o \in {"permanent", "retryable"}]
  BY DEF Answered
<1>4. PICK moved \in JobType :
          /\ job' = [job EXCEPT ![j] = moved] /\ JobOK(moved)
          /\ moved.source = s /\ moved.pc = "record" /\ moved.outcome = o
          /\ moved.refusals = job[j].refusals + (IF o = "permanent" THEN 1 ELSE 0)
          /\ moved.stalls = job[j].stalls /\ moved.dbFailed = job[j].dbFailed
  <2> DEFINE n == job[j].refusals + (IF o = "permanent" THEN 1 ELSE 0)
             moved == AnsweredOf(job[j], o, n)
  <2>1. job[j].refusals \in Nat /\ n \in Nat
    BY <1>1 DEF JobType
  <2>2. job' = [job EXCEPT ![j] = moved]
    <3>1. (IF o = "permanent" THEN job[j].refusals + 1 ELSE job[j].refusals) = n
      BY <2>1
    <3> QED
      BY <1>1, <3>1 DEF Answered, AnsweredOf
  <2> HIDE DEF o, n
  <2>3. /\ moved \in JobType /\ JobOK(moved) /\ moved.source = s /\ moved.pc = "record"
        /\ moved.outcome = o /\ moved.refusals = n /\ moved.dbFailed = job[j].dbFailed
        /\ moved.stalls = job[j].stalls
    BY <1>1, <1>2, <2>1, AnsweredJob
  <2> HIDE DEF moved
  <2> QED
    BY <2>2, <2>3 DEF n
<1> HIDE DEF o
<1>5. /\ job' \in [Jobs -> JobType] /\ \A k \in Jobs : JobOK(job'[k])
      /\ job'[j] = moved /\ \A k \in Jobs \ {j} : job'[k] = job[k]
  BY <1>4, MovedJob
<1>6. newest' \in [SourceIds -> BOOLEAN]
  BY <1>1, <1>3
<1>7. Shaped'
  BY <1>1, <1>5, <1>6, UnrecordedStep DEF SourcesInv, Shaped
<1>8. Refusals'
  <2>1. RefusalOK(job[j]) /\ job[j].refusals \in Nat /\ job[j].stalls \in Nat
    BY <1>1 DEF SourcesInv, JobsInv, Refusals, JobType
  <2>2. RefusalOK(moved)
    BY <1>1, <1>4, <2>1 DEF RefusalOK
  <2> QED
    BY <1>4, <1>5, <2>2 DEF SourcesInv, JobsInv, Refusals
<1>9. OnlyThere'
  <2>1. sources[s].exists
    BY <1>1 DEF SourcesInv, JobsInv, OnlyThere, InFlight
  <2>2. \A t \in SourceIds : newest'[t] => sources'[t].exists
    BY <1>1, <1>3, <2>1 DEF SourcesInv, JobsInv, OnlyThere
  <2>3. \A k \in Jobs : InFlight(k)' => sources'[job'[k].source].exists
    BY <1>1, <1>4, <1>5, <2>1 DEF SourcesInv, JobsInv, OnlyThere, InFlight
  <2> QED
    BY <2>2, <2>3 DEF OnlyThere
<1>10. OneAttempt'
  BY <1>1, <1>4, <1>5 DEF SourcesInv, JobsInv, OneAttempt, InFlight
<1>11. ToBeRecorded'
  <2>1. SUFFICES ASSUME NEW k \in Jobs, job'[k].pc = "record", job'[k].source \notin muddled
                 PROVE  newest'[job'[k].source] <=> Fails(k)'
    BY <1>1 DEF ToBeRecorded
  <2>2. CASE k = j
    BY <1>1, <1>3, <1>4, <1>5, <2>2 DEF Fails
  <2>3. CASE k # j
    <3>1. job'[k] = job[k] /\ job[k].source # s
      BY <1>1, <1>5, <2>1, <2>3 DEF SourcesInv, JobsInv, OneAttempt, InFlight
    <3>2. newest'[job[k].source] = newest[job[k].source]
      BY <1>1, <1>3, <3>1 DEF JobType
    <3> QED
      BY <2>1, <3>1, <3>2 DEF SourcesInv, JobsInv, ToBeRecorded, Fails
  <2> QED
    BY <2>2, <2>3
<1>12. AsRecorded'
  <2>1. SUFFICES ASSUME NEW t \in SourceIds, t \notin muddled,
                        \A k \in Jobs : job'[k].source = t => job'[k].pc # "record"
                 PROVE  sources[t].failing <=> newest'[t]
    BY <1>1 DEF AsRecorded, apiVars
  <2>2. t # s /\ \A k \in Jobs : job[k].source = t => job[k].pc # "record"
    BY <1>1, <1>4, <1>5, <2>1
  <2>3. newest'[t] = newest[t]
    BY <1>1, <1>3, <2>2
  <2> QED
    BY <2>1, <2>2, <2>3 DEF SourcesInv, JobsInv, AsRecorded
<1> QED
  BY <1>1, <1>7, <1>8, <1>9, <1>10, <1>11, <1>12, UnrecordedStep DEF SourcesInv, JobsInv

\* Recording leaves the history of the api, and the rows of other sources, as they were.
LEMMA RecordedTable ==
    ASSUME SourcesInv, NEW j \in Jobs, job[j].pc = "record", Recorded(j) \/ sources' = sources,
           UNCHANGED apiVars
    PROVE  /\ TableInv' /\ ErrorsAreFailures'
           /\ sources' \in [SourceIds -> SourceType]
           /\ \A t \in SourceIds : sources'[t].exists = sources[t].exists
           /\ \A t \in SourceIds \ {job[j].source} : sources'[t] = sources[t]
           /\ requested' \in 0..MaxRequests
           /\ latest' \in [SourceIds -> [api : ApiType, writes : Nat]]
           /\ request' \in [Requests -> RequestType]
           /\ \A r \in Requests : RequestOK(request'[r])
<1> DEFINE s == job[j].source
<1>1. CASE sources' = sources
  BY <1>1, UnrecordedStep DEF SourcesInv, Shaped
<1>2. CASE Recorded(j)
  <2>1. /\ sources \in [SourceIds -> SourceType] /\ s \in SourceIds
        /\ latest' = latest /\ request' = request /\ requested' = requested
    BY DEF SourcesInv, Shaped, JobType, apiVars
  <2>2. /\ sources' = [sources EXCEPT ![s] = sources'[s]] /\ sources'[s] \in SourceType
        /\ sources'[s].exists = sources[s].exists /\ sources'[s].name = sources[s].name
        /\ sources'[s].feedUrl = sources[s].feedUrl /\ sources'[s].isActive = sources[s].isActive
    BY <1>2, RecordedRow
  <2>3. /\ sources' \in [SourceIds -> SourceType]
        /\ \A t \in SourceIds \ {s} : sources'[t] = sources[t]
    BY <2>1, <2>2
  <2>4. \A t \in SourceIds :
            /\ sources'[t].exists = sources[t].exists /\ sources'[t].feedUrl = sources[t].feedUrl
            /\ sources'[t].name = sources[t].name /\ sources'[t].isActive = sources[t].isActive
    BY <2>2, <2>3
  <2>5. FeedsDiffer'
    BY <2>4 DEF SourcesInv, TableInv, FeedsDiffer
  <2>6. NoLostUpdate'
    <3>1. \A t \in SourceIds : Api(t)' = Api(t)
      BY <2>4 DEF Api
    <3> QED
      BY <2>1, <3>1 DEF SourcesInv, TableInv, NoLostUpdate
  <2> QED
    BY <2>1, <2>3, <2>4, <2>5, <2>6
       DEF SourcesInv, Shaped, TableInv, ErrorsAreFailures
<1> QED
  BY <1>1, <1>2

\* What ends an attempt, and when it is queued again.
LEMMA EndsType ==
    ASSUME SourcesInv, NEW j \in Jobs, job[j].pc = "record"
    PROVE  /\ Ends(j) \in {"queued", "done", "failed"}
           /\ Ends(j) = "queued" => job[j].attempts + 1 < MaxAttempts
           /\ job[j].outcome = "permanent" => Ends(j) = "failed"
<1>1. job[j].outcome \in {"ok", "not-modified", "permanent", "retryable"}
  BY DEF SourcesInv, Shaped, JobType, JobOK, Outcomes
<1>2. CASE job[j].outcome \in {"ok", "not-modified"}
  <2>1. Ends(j) = "done"
    BY <1>2 DEF Ends
  <2> QED
    BY <1>2, <2>1
<1>3. CASE job[j].outcome = "permanent"
  <2>1. Ends(j) = "failed"
    BY <1>3 DEF Ends
  <2> QED
    BY <2>1
<1>4. CASE job[j].outcome = "retryable"
  <2>1. Ends(j) = Thrown(j)
    BY <1>4 DEF Ends
  <2> QED
    BY <1>4, <2>1, ThrownType
<1> QED
  BY <1>1, <1>2, <1>3, <1>4

\* What was answered is written, and the attempt is over, however the queue goes on.
LEMMA RecordedStep ==
    ASSUME SourcesInv, NEW j \in Jobs, job[j].pc = "record", Recorded(j),
           NEW moved \in JobType, JobOK(moved), RefusalOK(moved),
           job' = [job EXCEPT ![j] = moved], moved.source = job[j].source,
           moved.pc \in {"queued", "done", "failed"},
           UNCHANGED <<apiVars, newest, muddled>>
    PROVE  SourcesInv'
<1> DEFINE s == job[j].source
<1>1. /\ job[j] \in JobType /\ s \in SourceIds /\ job \in [Jobs -> JobType]
      /\ newest' = newest /\ muddled' = muddled /\ UNCHANGED apiVars
  BY DEF SourcesInv, Shaped, JobType
<1>2. /\ job' \in [Jobs -> JobType] /\ \A k \in Jobs : JobOK(job'[k])
      /\ job'[j] = moved /\ \A k \in Jobs \ {j} : job'[k] = job[k]
  BY MovedJob
<1>3. Shaped'
  BY <1>1, <1>2, RecordedTable DEF SourcesInv, Shaped
<1>4. Refusals'
  BY <1>2 DEF SourcesInv, JobsInv, Refusals
<1>5. OnlyThere'
  BY <1>1, <1>2, RecordedTable DEF SourcesInv, JobsInv, OnlyThere, InFlight, JobType
<1>6. OneAttempt'
  BY <1>1, <1>2 DEF SourcesInv, JobsInv, OneAttempt, InFlight
<1>7. ToBeRecorded'
  <2>1. SUFFICES ASSUME NEW k \in Jobs, job'[k].pc = "record", job'[k].source \notin muddled
                 PROVE  newest[job'[k].source] <=> Fails(k)'
    BY <1>1 DEF ToBeRecorded
  <2>2. k # j /\ job'[k] = job[k]
    BY <1>2, <2>1
  <2> QED
    BY <2>1, <2>2 DEF SourcesInv, JobsInv, ToBeRecorded, Fails
<1>8. AsRecorded'
  <2>1. SUFFICES ASSUME NEW t \in SourceIds, t \notin muddled,
                        \A k \in Jobs : job'[k].source = t => job'[k].pc # "record"
                 PROVE  sources'[t].failing <=> newest[t]
    BY <1>1 DEF AsRecorded
  <2>2. CASE t = s
    <3>1. sources'[s].failing <=> Fails(j)
      BY RecordedRow
    <3>2. newest[s] <=> Fails(j)
      BY <2>1, <2>2 DEF SourcesInv, JobsInv, ToBeRecorded
    <3> QED
      BY <2>2, <3>1, <3>2
  <2>3. CASE t # s
    <3>1. sources'[t] = sources[t]
      BY <1>1, <2>3, RecordedTable
    <3>2. \A k \in Jobs : job[k].source = t => job[k].pc # "record"
      BY <1>2, <2>1, <2>3
    <3> QED
      BY <2>1, <3>1, <3>2 DEF SourcesInv, JobsInv, AsRecorded
  <2> QED
    BY <2>2, <2>3
<1> QED
  BY <1>1, <1>3, <1>4, <1>5, <1>6, <1>7, <1>8, RecordedTable DEF SourcesInv, JobsInv

\* The outcome is recorded.
LEMMA RecordStep ==
    ASSUME SourcesInv, NEW j \in Jobs, Record(j)
    PROVE  SourcesInv'
<1> DEFINE s == job[j].source
           moved == LeftAs(job[j], Ends(j))
<1>1. /\ job[j] \in JobType /\ job[j].pc = "record" /\ JobOK(job[j]) /\ RefusalOK(job[j])
      /\ UNCHANGED <<apiVars, newest, muddled>> /\ Recorded(j)
  BY DEF SourcesInv, Shaped, JobType, JobsInv, Refusals, Record
<1>2. job' = [job EXCEPT ![j] = moved]
  BY DEF Record, Left, LeftAs
<1>3. /\ moved \in JobType /\ JobOK(moved) /\ moved.source = s
      /\ moved.refusals = job[j].refusals /\ moved.stalls = job[j].stalls
      /\ moved.dbFailed = job[j].dbFailed
      /\ moved.pc \in {"queued", "done", "failed"}
      /\ job[j].outcome = "permanent" => moved.pc = "failed"
  <2>1. /\ Ends(j) \in {"queued", "done", "failed"}
        /\ Ends(j) = "queued" => job[j].attempts + 1 < MaxAttempts
        /\ job[j].outcome = "permanent" => Ends(j) = "failed"
    BY <1>1, EndsType
  <2> QED
    BY <1>1, <2>1, LeftJob
<1> HIDE DEF moved
<1>4. RefusalOK(moved)
  BY <1>1, <1>3 DEF RefusalOK
<1> QED
  BY <1>1, <1>2, <1>3, <1>4, RecordedStep

\* What becomes of a job when the database fails.
Unwritten(q) == [q EXCEPT !.outcome = "retryable", !.dbFailed = TRUE]
Marked(q) == [q EXCEPT !.dbFailed = TRUE]

\* Both have their type.
LEMMA UnwrittenJob ==
    ASSUME NEW q \in JobType
    PROVE  /\ Unwritten(q) \in JobType /\ Unwritten(q).source = q.source
           /\ Unwritten(q).pc = q.pc /\ Unwritten(q).outcome = "retryable"
           /\ Unwritten(q).attempts = q.attempts /\ Unwritten(q).stalls = q.stalls
           /\ Unwritten(q).dbFailed
           /\ Marked(q) \in JobType /\ Marked(q).source = q.source /\ Marked(q).pc = q.pc
           /\ Marked(q).outcome = q.outcome /\ Marked(q).attempts = q.attempts
           /\ Marked(q).stalls = q.stalls /\ Marked(q).dbFailed
<1>1. ASSUME NEW m, m = Unwritten(q)
      PROVE  /\ m \in JobType /\ m.source = q.source /\ m.pc = q.pc /\ m.outcome = "retryable"
             /\ m.attempts = q.attempts /\ m.stalls = q.stalls /\ m.dbFailed
  <2>1. m = [pc |-> q.pc, source |-> q.source, attempts |-> q.attempts, stalls |-> q.stalls,
             feedUrl |-> q.feedUrl, redirects |-> q.redirects, outcome |-> "retryable",
             refusals |-> q.refusals, dbFailed |-> TRUE, orphan |-> q.orphan]
    BY <1>1 DEF Unwritten, JobType
  <2>2. m \in JobType
    BY <2>1 DEF JobType, Outcomes
  <2> QED
    BY <2>1, <2>2
<1>2. ASSUME NEW m, m = Marked(q)
      PROVE  /\ m \in JobType /\ m.source = q.source /\ m.pc = q.pc /\ m.outcome = q.outcome
             /\ m.attempts = q.attempts /\ m.stalls = q.stalls /\ m.dbFailed
  <2>1. m = [pc |-> q.pc, source |-> q.source, attempts |-> q.attempts, stalls |-> q.stalls,
             feedUrl |-> q.feedUrl, redirects |-> q.redirects, outcome |-> q.outcome,
             refusals |-> q.refusals, dbFailed |-> TRUE, orphan |-> q.orphan]
    BY <1>2 DEF Marked, JobType
  <2>2. m \in JobType
    BY <2>1 DEF JobType
  <2> QED
    BY <2>1, <2>2
<1> QED
  BY <1>1, <1>2

\* The outcome cannot be recorded, or is recorded unheard.
LEMMA RecordFailsStep ==
    ASSUME SourcesInv, NEW j \in Jobs, RecordFails(j)
    PROVE  SourcesInv'
<1> DEFINE s == job[j].source
<1>1. /\ job[j] \in JobType /\ s \in SourceIds /\ job \in [Jobs -> JobType]
      /\ job[j].pc = "record" /\ JobOK(job[j]) /\ newest' = newest
      /\ muddled' = muddled \cup {s}
      /\ UNCHANGED apiVars /\ muddled \subseteq SourceIds
      /\ Recorded(j) \/ sources' = sources
  BY DEF SourcesInv, Shaped, JobType, RecordFails
<1>2. PICK moved \in JobType :
          /\ job' = [job EXCEPT ![j] = moved] /\ JobOK(moved)
          /\ moved.source = s /\ moved.pc \in {"record", "queued", "failed"} /\ moved.dbFailed
  <2>1. CASE job[j].outcome \in {"ok", "not-modified"}
    <3>1. job' = [job EXCEPT ![j] = Unwritten(job[j])]
      BY <1>1, <2>1 DEF RecordFails, Unwritten
    <3>2. Unwritten(job[j]) \in JobType /\ JobOK(Unwritten(job[j]))
      BY <1>1, UnwrittenJob DEF JobOK
    <3> QED
      BY <1>1, <3>1, <3>2, UnwrittenJob
  <2>2. CASE job[j].outcome \notin {"ok", "not-modified"}
    <3> DEFINE left == LeftAs(job[j], Thrown(j))
    <3>1. job' = [job EXCEPT ![j] = Marked(left)]
      BY <1>1, <2>2 DEF RecordFails, Left, LeftAs, Marked
    <3>2. /\ left \in JobType /\ JobOK(left) /\ left.source = s /\ left.pc \in {"queued", "failed"}
      <4>1. /\ Thrown(j) \in {"queued", "done", "failed"}
            /\ Thrown(j) = "queued" => job[j].attempts + 1 < MaxAttempts
            /\ Thrown(j) # "done"
        BY <1>1, ThrownType
      <4>2. left \in JobType /\ JobOK(left) /\ left.source = s /\ left.pc = Thrown(j)
        BY <1>1, <4>1, LeftJob
      <4> HIDE DEF left
      <4> QED
        BY <4>1, <4>2
    <3> HIDE DEF left
    <3>3. /\ Marked(left) \in JobType /\ JobOK(Marked(left)) /\ Marked(left).source = s
          /\ Marked(left).pc \in {"queued", "failed"} /\ Marked(left).dbFailed
      BY <3>2, UnwrittenJob DEF JobOK
    <3> QED
      BY <3>1, <3>3
  <2> QED
    BY <2>1, <2>2
<1>3. /\ job' \in [Jobs -> JobType] /\ \A k \in Jobs : JobOK(job'[k])
      /\ job'[j] = moved /\ \A k \in Jobs \ {j} : job'[k] = job[k]
  BY <1>2, MovedJob
<1>4. Shaped'
  BY <1>1, <1>3, RecordedTable DEF SourcesInv, Shaped
<1>5. Refusals'
  BY <1>1, <1>2, <1>3 DEF SourcesInv, JobsInv, Refusals, RefusalOK
<1>6. OnlyThere'
  BY <1>1, <1>2, <1>3, RecordedTable DEF SourcesInv, JobsInv, OnlyThere, InFlight, JobType
<1>7. OneAttempt'
  BY <1>1, <1>2, <1>3 DEF SourcesInv, JobsInv, OneAttempt, InFlight
<1>8. ToBeRecorded'
  <2>1. SUFFICES ASSUME NEW k \in Jobs, job'[k].pc = "record", job'[k].source \notin muddled \cup {s}
                 PROVE  newest[job'[k].source] <=> Fails(k)'
    BY <1>1 DEF ToBeRecorded
  <2>2. k # j /\ job'[k] = job[k]
    BY <1>2, <1>3, <2>1
  <2> QED
    BY <2>1, <2>2 DEF SourcesInv, JobsInv, ToBeRecorded, Fails
<1>9. AsRecorded'
  <2>1. SUFFICES ASSUME NEW t \in SourceIds, t \notin muddled \cup {s},
                        \A k \in Jobs : job'[k].source = t => job'[k].pc # "record"
                 PROVE  sources'[t].failing <=> newest[t]
    BY <1>1 DEF AsRecorded
  <2>2. sources'[t] = sources[t]
    BY <1>1, <2>1, RecordedTable
  <2>3. \A k \in Jobs : job[k].source = t => job[k].pc # "record"
    BY <1>3, <2>1
  <2> QED
    BY <2>1, <2>2, <2>3 DEF SourcesInv, JobsInv, AsRecorded
<1> QED
  BY <1>1, <1>4, <1>5, <1>6, <1>7, <1>8, <1>9, RecordedTable DEF SourcesInv, JobsInv

-----------------------------------------------------------------------------
\* What the queue makes of a stalled job.
LEMMA RedeliveredJob ==
    ASSUME SourcesInv, NEW j \in Jobs, job[j].pc \in {"queued", "requesting", "record"}
    PROVE  LET m == Redelivered(j)
           IN  /\ m \in JobType /\ JobOK(m) /\ RefusalOK(m) /\ m.source = job[j].source
               /\ m.pc \in {"queued", "failed"}
<1> DEFINE pc == IF job[j].stalls < MaxStalls THEN "queued" ELSE "failed"
<1>1. job[j] \in JobType /\ JobOK(job[j]) /\ RefusalOK(job[j])
  BY DEF SourcesInv, Shaped, JobsInv, Refusals
<1>2. pc \in {"queued", "failed"} /\ (pc = "queued" => job[j].stalls < MaxStalls)
  OBVIOUS
<1>3. Redelivered(j) = StalledAs(job[j], pc)
  BY DEF Redelivered, StalledAs
<1> HIDE DEF pc
<1> QED
  BY <1>1, <1>2, <1>3, StalledJob

\* The worker dies under a job.
LEMMA StallStep ==
    ASSUME SourcesInv, NEW j \in Jobs, Stall(j)
    PROVE  SourcesInv'
<1>1. /\ job[j].source \in SourceIds /\ muddled \subseteq SourceIds
      /\ UNCHANGED <<apiVars, newest>> /\ job' = [job EXCEPT ![j] = Redelivered(j)]
      /\ job[j].pc \in {"queued", "requesting", "record"}
  BY DEF SourcesInv, Shaped, JobType, Stall
<1>2. /\ Redelivered(j) \in JobType /\ JobOK(Redelivered(j)) /\ RefusalOK(Redelivered(j))
      /\ Redelivered(j).source = job[j].source /\ Redelivered(j).pc \in {"queued", "failed"}
  BY <1>1, RedeliveredJob
<1>3. CASE job[j].pc = "record" /\ Recorded(j) /\ UNCHANGED muddled
  BY <1>1, <1>2, <1>3, RecordedStep
<1>4. CASE /\ job[j].pc = "record" => muddled' = muddled \cup {job[j].source}
           /\ muddled' \in {muddled, muddled \cup {job[j].source}}
           /\ UNCHANGED sources
  BY <1>1, <1>2, <1>4, UnansweredStep
<1> QED
  BY <1>3, <1>4 DEF Stall

\* The worker loses a job, and its attempt goes on.
LEMMA LoseLockStep ==
    ASSUME SourcesInv, NEW j \in Jobs, NEW o \in Jobs, LoseLock(j, o)
    PROVE  SourcesInv'
<1> DEFINE s == job[j].source
           lost == [job[j] EXCEPT !.orphan = TRUE]
           moved == Redelivered(j)
<1>1. /\ job[j] \in JobType /\ s \in SourceIds /\ job \in [Jobs -> JobType]
      /\ job[j].pc \in {"requesting", "record"} /\ job[o].pc \in {"done", "failed"} /\ o # j
      /\ JobOK(job[j]) /\ RefusalOK(job[j])
      /\ UNCHANGED <<sources, apiVars>> /\ newest' = newest /\ muddled' = muddled
      /\ sources' = sources
      /\ job' = [job EXCEPT ![j] = moved, ![o] = lost]
  BY DEF SourcesInv, Shaped, JobType, JobsInv, Refusals, LoseLock, InFlight
<1>2. /\ moved \in JobType /\ JobOK(moved) /\ RefusalOK(moved) /\ moved.source = s
      /\ moved.pc \in {"queued", "failed"}
  BY <1>1, RedeliveredJob
<1>3. /\ lost \in JobType /\ JobOK(lost) /\ RefusalOK(lost) /\ lost.source = s
      /\ lost.pc = job[j].pc /\ lost.outcome = job[j].outcome
  BY <1>1 DEF JobType, JobOK, RefusalOK
<1> HIDE DEF lost, moved
<1>4. /\ job' \in [Jobs -> JobType] /\ job'[j] = moved /\ job'[o] = lost
      /\ \A k \in Jobs \ {j, o} : job'[k] = job[k]
  BY <1>1, <1>2, <1>3
<1>5. \A k \in Jobs : JobOK(job'[k])
  BY <1>2, <1>3, <1>4 DEF SourcesInv, Shaped
<1>6. Shaped'
  BY <1>1, <1>4, <1>5, UnrecordedStep DEF SourcesInv, Shaped
<1>7. Refusals'
  BY <1>2, <1>3, <1>4 DEF SourcesInv, JobsInv, Refusals
<1>8. OnlyThere'
  BY <1>1, <1>2, <1>3, <1>4 DEF SourcesInv, JobsInv, OnlyThere, InFlight
<1>9. OneAttempt'
  BY <1>1, <1>2, <1>3, <1>4 DEF SourcesInv, JobsInv, OneAttempt, InFlight
<1>10. ToBeRecorded'
  BY <1>1, <1>2, <1>3, <1>4 DEF SourcesInv, JobsInv, ToBeRecorded, Fails
<1>11. AsRecorded'
  <2>1. SUFFICES ASSUME NEW t \in SourceIds, t \notin muddled,
                        \A k \in Jobs : job'[k].source = t => job'[k].pc # "record"
                 PROVE  sources[t].failing <=> newest[t]
    BY <1>1 DEF AsRecorded
  <2>2. \A k \in Jobs : job[k].source = t => job[k].pc # "record"
    BY <1>1, <1>2, <1>3, <1>4, <2>1
  <2> QED
    BY <2>1, <2>2 DEF SourcesInv, JobsInv, AsRecorded
<1> QED
  BY <1>1, <1>6, <1>7, <1>8, <1>9, <1>10, <1>11, UnrecordedStep DEF SourcesInv, JobsInv

-----------------------------------------------------------------------------
\* A step in which nothing changes.
LEMMA SourcesStutter == SourcesInv /\ UNCHANGED sourcesVars => SourcesInv'
<1> SUFFICES ASSUME SourcesInv, UNCHANGED sourcesVars PROVE SourcesInv'
  OBVIOUS
<1>1. /\ requested' \in 0..MaxRequests /\ request' \in [Requests -> RequestType]
      /\ \A r \in Requests : RequestOK(request'[r])
      /\ \A r \in Requests : request'[r].result = "error" => request'[r].dbFailed
      /\ UNCHANGED <<sources, latest, jobVars>>
  BY DEF SourcesInv, Shaped, ErrorsAreFailures, sourcesVars, jobVars
<1> QED
  BY <1>1, OtherRequestSteps

\* Requests and jobs keep the invariant, in whatever order they come.
LEMMA SourcesInvStep == SourcesInv /\ [SourcesNext]_sourcesVars => SourcesInv'
<1> SUFFICES ASSUME SourcesInv, [SourcesNext]_sourcesVars PROVE SourcesInv'
  OBVIOUS
<1>1. ASSUME NEW r \in Requests, RequestStep(r) PROVE SourcesInv'
  BY <1>1, RequestSteps
<1>2. ASSUME NEW j \in Jobs, JobStep(j) PROVE SourcesInv'
  BY <1>2, StartStep, FollowStep, AnsweredStep, RecordStep, RecordFailsStep, StallStep,
     LoseLockStep DEF JobStep
<1>3. CASE UNCHANGED sourcesVars
  BY <1>3, SourcesStutter
<1> QED
  BY <1>1, <1>2, <1>3 DEF SourcesNext

\* The invariant always holds.
THEOREM SourcesInvariant == SourcesSpec => []SourcesInv
BY SourcesInvInit, SourcesInvStep, PTL DEF SourcesSpec

\* The table, the counters of attempts and of redirects keep their types: a job has no more
\* attempts than sourcesFetchJob allows (definitions.ts).
THEOREM SourcesTypeCorrect == SourcesSpec => []SourcesTypeOK
<1>1. SourcesInv => SourcesTypeOK
  BY DEF SourcesInv, Shaped, SourceType, JobType, SourcesTypeOK
<1> QED
  BY <1>1, SourcesInvariant, PTL

\* The worker's update of a row (recordFetchOutcome) and those of the api (update,
\* deactivate) never undo each other, for any number of sources, requests and jobs.
THEOREM NoUpdateIsLost == SourcesSpec => []NoLostUpdate
<1>1. SourcesInv => NoLostUpdate
  BY DEF SourcesInv, TableInv
<1> QED
  BY <1>1, SourcesInvariant, PTL

\* Requests that race for a feed url end with a row or with CONFLICT (isFeedUrlConflict).
THEOREM RacesAlwaysEndAsConflicts == SourcesSpec => []RacesEndAsConflicts
<1>1. SourcesInv => RacesEndAsConflicts
  BY DEF SourcesInv, TableInv, FeedsDiffer, ErrorsAreFailures, RacesEndAsConflicts
<1> QED
  BY <1>1, SourcesInvariant, PTL

\* The error of a source is that of the attempt answered last (recordFetchOutcome), but for
\* attempts that overlapped and outcomes that were not recorded.
THEOREM OutcomeIsAlwaysOfNewestAttempt == SourcesSpec => []OutcomeIsOfNewestAttempt
<1>1. SourcesInv => OutcomeIsOfNewestAttempt
  <2> SUFFICES ASSUME SourcesInv, NEW s \in SourceIds, s \notin muddled,
                      \A j \in Jobs : job[j].source = s => ~InFlight(j)
               PROVE  sources[s].failing = newest[s]
    BY DEF OutcomeIsOfNewestAttempt
  <2>1. sources[s].failing <=> newest[s]
    BY DEF SourcesInv, JobsInv, AsRecorded, InFlight
  <2>2. sources[s].failing \in BOOLEAN /\ newest[s] \in BOOLEAN
    BY DEF SourcesInv, Shaped, SourceType
  <2> QED
    BY <2>1, <2>2
<1> QED
  BY <1>1, SourcesInvariant, PTL

\* What a feed refused for good (FeedFetchError, not retryable) is not fetched again by the
\* same job, unless the database failed or the queue delivered the stalled job once more.
THEOREM PermanentIsAlwaysFinal == SourcesSpec => []PermanentIsFinal
<1>1. SourcesInv => PermanentIsFinal
  BY DEF SourcesInv, JobsInv, Refusals, RefusalOK, PermanentIsFinal
<1> QED
  BY <1>1, SourcesInvariant, PTL

-----------------------------------------------------------------------------
(***************************************************************************)
(* The page of sources.                                                    *)
(***************************************************************************)

\* The types of a form and of the list.
FormType ==
    [name : Names \cup {"none"}, feedUrl : FeedUrls \cup {"none"}, isEditing : BOOLEAN,
     errors : [field : BOOLEAN, form : BOOLEAN]]

SeenType ==
    [SourceIds ->
        [exists : BOOLEAN, name : Names \cup {"none"}, feedUrl : FeedUrls \cup {"none"},
         isActive : BOOLEAN, writes : Nat]]

ListType == [data : SeenType, pc : {"idle", "sent", "read", "failed"}, answer : SeenType]

PageTypes ==
    /\ list \in ListType
    /\ newForm \in FormType
    /\ rowForm \in FormType
    /\ owed \in [SourceIds -> Nat]

\* What is owed has been written; what is shown, or is about to be, has seen it.
Seen(data) == \A s \in SourceIds : data[s].writes >= owed[s]

PageSees ==
    /\ \A s \in SourceIds : latest[s].writes >= owed[s]
    /\ list.pc = "idle" => Seen(list.data)
    /\ list.pc = "read" => Seen(list.answer)

PageInv == PageTypes /\ PageSees

allVars == <<sourcesVars, adminVars>>

-----------------------------------------------------------------------------
\* An answer of the list sees every write that is done.
LEMMA SnapshotIsNow ==
    ASSUME Shaped
    PROVE  Snapshot \in SeenType /\ \A s \in SourceIds : Snapshot[s].writes = latest[s].writes
BY DEF Shaped, SourceType, Snapshot, SeenType

\* The writes of a source only become more.
LEMMA WritesGrow ==
    ASSUME Shaped, [SourcesNext]_sourcesVars, NEW s \in SourceIds
    PROVE  latest'[s].writes >= latest[s].writes
<1>1. latest[s].writes \in Nat /\ latest[s].writes + 1 \in Nat
  BY DEF Shaped
<1>2. CASE latest' = latest
  BY <1>1, <1>2
<1>3. ASSUME NEW r \in Requests, NEW t \in SourceIds, Written(r, t)
      PROVE  latest'[s].writes >= latest[s].writes
  <2>1. latest' = [latest EXCEPT ![t] = [api |-> Api(t)', writes |-> latest[t].writes + 1]]
    BY <1>3 DEF Written
  <2>2. latest'[s].writes = latest[s].writes \/ latest'[s].writes = latest[s].writes + 1
    BY <2>1 DEF Shaped
  <2> QED BY <2>2, <1>1
<1>4. ASSUME NEW r \in Requests, RequestStep(r)
      PROVE  latest' = latest \/ \E t \in SourceIds : Written(r, t)
  BY <1>4 DEF RequestStep, ReceiveCreate, ReceiveUpdate, ReceiveDeactivate, Receive, Check, Write,
     WriteRefused, WriteNothing, RequestFails, WriteUnconfirmed
<1>5. ASSUME NEW j \in Jobs, JobStep(j) PROVE latest' = latest
  BY <1>5 DEF JobStep, Start, StartFails, Follow, Answered, Record, RecordFails, Stall, LoseLock,
     apiVars
<1>6. UNCHANGED sourcesVars => latest' = latest
  BY DEF sourcesVars
<1> QED BY <1>2, <1>3, <1>4, <1>5, <1>6 DEF SourcesNext

-----------------------------------------------------------------------------
\* What handlers make of a form is a form.
LEMMA FormsStayForms ==
    ASSUME NEW form \in FormType
    PROVE  /\ EmptyForm \in FormType
           /\ Refuse(form) \in FormType /\ Sent(form) \in FormType
           /\ Conflicted(form) \in FormType /\ NotSaved(form) \in FormType
           /\ [form EXCEPT !.isEditing = TRUE] \in FormType
           /\ [form EXCEPT !.errors.form = TRUE] \in FormType
           /\ [form EXCEPT !.errors.form = FALSE] \in FormType
           /\ [form EXCEPT !.isEditing = FALSE, !.errors = NoErrors] \in FormType
<1>1. EmptyForm \in FormType
  BY DEF EmptyForm, FormType, NoErrors, Unset
<1>2. Refuse(form) \in FormType /\ Sent(form) \in FormType
  BY DEF Refuse, Sent, FormType, NoErrors
<1>3. Conflicted(form) \in FormType /\ NotSaved(form) \in FormType
  BY DEF Conflicted, NotSaved, FormType
<1>4. [form EXCEPT !.isEditing = TRUE] \in FormType
  BY DEF FormType
<1>5. [form EXCEPT !.errors.form = TRUE] \in FormType
  BY DEF FormType
<1>6. [form EXCEPT !.errors.form = FALSE] \in FormType
  BY DEF FormType
<1>7. [form EXCEPT !.isEditing = FALSE, !.errors = NoErrors] \in FormType
  BY DEF FormType, NoErrors
<1> QED BY <1>1, <1>2, <1>3, <1>4, <1>5, <1>6, <1>7

\* What is typed into a form leaves it a form.
LEMMA TypingKeepsForms ==
    ASSUME NEW form \in FormType,
           NEW name \in Names \cup {"none"}, NEW f \in FeedUrls \cup {"none"}
    PROVE  [form EXCEPT !.name = name, !.feedUrl = f] \in FormType
BY DEF FormType

\* The fields of a row are those of the source it is mounted with.
LEMMA RowsAreForms ==
    ASSUME NEW source, source.name \in Names \cup {"none"}, source.feedUrl \in FeedUrls \cup {"none"}
    PROVE  FieldsOf(source) \in FormType
BY FormsStayForms DEF FieldsOf, EmptyForm, FormType, NoErrors, Unset

-----------------------------------------------------------------------------
\* Every step of the page is a step of Sources, or leaves the table and its requests alone.
LEMMA PageStepIsSourcesStep ==
    ASSUME PageTypes, [AdminNext]_allVars
    PROVE  [SourcesNext]_sourcesVars
<1> USE SourcesAdminAssumption DEF Slots
<1>1. CASE UNCHANGED allVars
  BY <1>1 DEF allVars, sourcesVars
<1>2. CASE Refetch \/ ListRead \/ ListShown \/ ListFails \/ Edit \/ handleCancel
  BY <1>2 DEF Refetch, ListRead, ListShown, ListFails, Edit, handleCancel
<1>3. CASE \E t \in Typed : TypeNew(t[1], t[2]) \/ TypeRow(t[1], t[2])
  BY <1>3 DEF TypeNew, TypeRow
<1>4. CASE \E slot \in Slots : Settled(slot) \/ Disconnected(slot)
  BY <1>4 DEF Settled, Disconnected
<1>5. CASE handleSubmit
  <2>1. CASE Valid(newForm)
    <3>1. newForm.name \in Names /\ newForm.feedUrl \in FeedUrls
      BY <2>1 DEF PageTypes, FormType, Valid, Unset
    <3>2. Receive("create", "create", "none", newForm.name, <<newForm.feedUrl>>)
      BY <1>5, <2>1 DEF handleSubmit
    <3>3. ReceiveCreate("create")
      BY <3>1, <3>2 DEF ReceiveCreate
    <3> QED BY <3>3 DEF SourcesNext, RequestStep
  <2>2. CASE ~Valid(newForm)
    BY <1>5, <2>2 DEF handleSubmit
  <2> QED BY <2>1, <2>2
<1>6. CASE handleSave
  <2>1. CASE Valid(rowForm)
    <3>1. rowForm.name \in Names /\ rowForm.feedUrl \in FeedUrls
      BY <2>1 DEF PageTypes, FormType, Valid, Unset
    <3>2. Receive("update", "update", Edited, rowForm.name, <<rowForm.feedUrl>>)
      BY <1>6, <2>1 DEF handleSave
    <3>3. ReceiveUpdate("update")
      BY <3>1, <3>2 DEF ReceiveUpdate
    <3> QED BY <3>3 DEF SourcesNext, RequestStep
  <2>2. CASE ~Valid(rowForm)
    BY <1>6, <2>2 DEF handleSave
  <2> QED BY <2>1, <2>2
<1>7. CASE handleDeactivate
  <2>1. ReceiveDeactivate("deactivate")
    BY <1>7 DEF handleDeactivate, ReceiveDeactivate
  <2> QED BY <2>1 DEF SourcesNext, RequestStep
<1>8. CASE \E r \in Requests : Elsewhere(r)
  BY <1>8 DEF Elsewhere, ApiStep, SourcesNext, RequestStep
<1> QED
  BY <1>1, <1>2, <1>3, <1>4, <1>5, <1>6, <1>7, <1>8 DEF AdminNext

\* A step that leaves the list and what is owed alone keeps what is seen.
LEMMA NothingUnseen ==
    ASSUME Shaped, PageInv, [SourcesNext]_sourcesVars, Shaped', list' = list, owed' = owed
    PROVE  PageSees'
<1>1. ASSUME NEW s \in SourceIds PROVE latest'[s].writes >= owed[s]
  <2>1. latest'[s].writes >= latest[s].writes /\ latest[s].writes >= owed[s]
    BY WritesGrow DEF PageInv, PageSees
  <2>2. latest'[s].writes \in Nat /\ latest[s].writes \in Nat /\ owed[s] \in Nat
    BY DEF Shaped, PageInv, PageTypes
  <2> QED BY <2>1, <2>2
<1> QED BY <1>1 DEF PageInv, PageSees, Seen

\* The list and its refetch: what is read now has seen every write.
LEMMA ListStep ==
    ASSUME Shaped, PageInv, Refetch \/ ListRead \/ ListShown \/ ListFails
    PROVE  PageInv'
<1>1. UNCHANGED <<sourcesVars, formVars>>
  BY DEF Refetch, ListRead, ListShown, ListFails
<1>2. newForm' = newForm /\ rowForm' = rowForm /\ owed' = owed /\ latest' = latest
  BY <1>1 DEF sourcesVars, formVars
<1>3. list \in ListType /\ Snapshot \in SeenType
  BY SnapshotIsNow DEF PageInv, PageTypes
<1>4. Seen(Snapshot)
  BY SnapshotIsNow DEF PageInv, PageSees, Seen
<1>5. CASE Refetch
  <2>1. list' = [data |-> list.data, pc |-> "sent", answer |-> list.answer]
    BY <1>3, <1>5 DEF Refetch, ListType
  <2> QED BY <1>2, <1>3, <2>1 DEF PageInv, PageTypes, PageSees, ListType
<1>6. CASE ListRead
  <2>1. list' = [data |-> list.data, pc |-> "read", answer |-> Snapshot]
    BY <1>3, <1>6 DEF ListRead, ListType
  <2> QED BY <1>2, <1>3, <1>4, <2>1 DEF PageInv, PageTypes, PageSees, ListType, Seen
<1>7. CASE ListShown
  <2>1. list' = [data |-> list.answer, pc |-> "idle", answer |-> list.answer] /\ list.pc = "read"
    BY <1>3, <1>7 DEF ListShown, ListType
  <2> QED BY <1>2, <1>3, <2>1 DEF PageInv, PageTypes, PageSees, ListType, Seen
<1>8. CASE ListFails
  <2>1. list' = [data |-> list.data, pc |-> "failed", answer |-> list.data]
    BY <1>3, <1>8 DEF ListFails, ListType
  <2> QED BY <1>2, <1>3, <2>1 DEF PageInv, PageTypes, PageSees, ListType
<1> QED BY <1>5, <1>6, <1>7, <1>8

\* Whatever is submitted, typed, edited or cancelled, the forms are forms.
LEMMA HandlerTypes ==
    ASSUME PageTypes,
           \/ handleSubmit \/ handleSave \/ handleDeactivate \/ Edit \/ handleCancel
           \/ \E t \in Typed : TypeNew(t[1], t[2]) \/ TypeRow(t[1], t[2])
    PROVE  PageTypes' /\ list' = list /\ owed' = owed
<1>1. newForm \in FormType /\ rowForm \in FormType
  BY DEF PageTypes
<1>2. CASE handleSubmit \/ handleSave \/ handleDeactivate
  <2>1. list' = list /\ owed' = owed
    BY <1>2 DEF handleSubmit, handleSave, handleDeactivate
  <2>2. newForm' \in FormType /\ rowForm' \in FormType
    BY <1>1, <1>2, FormsStayForms DEF handleSubmit, handleSave, handleDeactivate
  <2> QED BY <2>1, <2>2 DEF PageTypes
<1>3. CASE Edit
  BY <1>1, <1>3, FormsStayForms DEF Edit, PageTypes
<1>4. CASE handleCancel
  <2>1. /\ list.data[Edited].name \in Names \cup {"none"}
        /\ list.data[Edited].feedUrl \in FeedUrls \cup {"none"}
    BY SourcesAdminAssumption DEF PageTypes, ListType, SeenType
  <2>2. rowForm' \in FormType
    BY <1>4, <2>1, RowsAreForms DEF handleCancel
  <2> QED BY <1>1, <1>4, <2>2 DEF handleCancel, PageTypes
<1>5. CASE \E t \in Typed : TypeNew(t[1], t[2]) \/ TypeRow(t[1], t[2])
  <2>1. PICK t \in Typed : TypeNew(t[1], t[2]) \/ TypeRow(t[1], t[2])
    BY <1>5
  <2>2. t[1] \in Names \cup {"none"} /\ t[2] \in FeedUrls \cup {"none"}
    BY SourcesAdminAssumption
  <2>3. list' = list /\ owed' = owed
    BY <2>1 DEF TypeNew, TypeRow
  <2>4. CASE TypeNew(t[1], t[2])
    <3>1. newForm' = [newForm EXCEPT !.name = t[1], !.feedUrl = t[2]] /\ rowForm' = rowForm
      BY <2>4 DEF TypeNew
    <3> QED BY <1>1, <2>2, <2>3, <3>1, TypingKeepsForms DEF PageTypes
  <2>5. CASE TypeRow(t[1], t[2])
    <3>1. rowForm' = [rowForm EXCEPT !.name = t[1], !.feedUrl = t[2]] /\ newForm' = newForm
      BY <2>5 DEF TypeRow
    <3> QED BY <1>1, <2>2, <2>3, <3>1, TypingKeepsForms DEF PageTypes
  <2> QED BY <2>1, <2>3, <2>4, <2>5
<1> QED BY <1>2, <1>3, <1>4, <1>5

\* An answer: a confirmed change is owed, and the list is asked again.
LEMMA MutationEnds ==
    Shaped /\ PageInv /\ (\E slot \in Slots : Settled(slot) \/ Disconnected(slot)) => PageInv'
<1> SUFFICES ASSUME Shaped, PageInv, NEW slot \in Slots, Settled(slot) \/ Disconnected(slot)
             PROVE  PageInv'
  OBVIOUS
<1>1. /\ newForm \in FormType /\ rowForm \in FormType /\ list \in ListType
      /\ owed \in [SourceIds -> Nat] /\ UNCHANGED sourcesVars
  BY DEF PageInv, PageTypes, Settled, Disconnected
<1>2. latest' = latest
  BY <1>1 DEF sourcesVars
<1>3. ASSUME NEW result, OnError(slot, result) PROVE PageInv'
  <2>1. list' = list /\ owed' = owed
    BY <1>3 DEF OnError
  <2>2. newForm' \in FormType /\ rowForm' \in FormType
    BY <1>1, <1>3, FormsStayForms DEF OnError, Slots
  <2> QED BY <1>1, <1>2, <2>1, <2>2 DEF PageInv, PageTypes, PageSees, Seen
<1>4. ASSUME OnSuccess(slot) PROVE PageInv'
  <2>1. newForm' \in FormType /\ rowForm' \in FormType
    BY <1>1, <1>4, FormsStayForms DEF OnSuccess, Slots
  <2>2. list' = [data |-> list.data, pc |-> "sent", answer |-> list.data]
    BY <1>1, <1>4 DEF OnSuccess, Invalidate, ListType
  <2>3. owed' = [s \in SourceIds |->
                    IF slot = "create" \/ s = Edited THEN latest[s].writes ELSE owed[s]]
    BY <1>4 DEF OnSuccess
  <2>4. owed' \in [SourceIds -> Nat] /\ \A s \in SourceIds : latest'[s].writes >= owed'[s]
    BY <1>1, <1>2, <2>3 DEF Shaped, PageInv, PageSees
  <2> QED BY <1>1, <2>1, <2>2, <2>4 DEF PageInv, PageTypes, PageSees, ListType
<1> QED BY <1>3, <1>4 DEF Settled, Disconnected

-----------------------------------------------------------------------------
\* At first nothing is owed, and the list is what the table is.
LEMMA PageInvInit == AdminInit => SourcesInv /\ PageInv
<1> SUFFICES ASSUME AdminInit PROVE SourcesInv /\ PageInv
  OBVIOUS
<1>1. SourcesInv /\ Shaped
  BY SourcesInvInit DEF AdminInit, SourcesInv
<1>2. Snapshot \in SeenType
  BY <1>1, SnapshotIsNow
<1>3. list \in ListType
  BY <1>2 DEF AdminInit, ListType
<1>4. newForm \in FormType /\ rowForm \in FormType
  <2>1. sources[Edited].name \in Names \cup {"none"} /\ sources[Edited].feedUrl \in FeedUrls \cup {"none"}
    BY <1>1, SourcesAdminAssumption DEF Shaped, SourceType
  <2>2. newForm \in FormType
    BY <1>3 DEF AdminInit, EmptyForm, FormType, NoErrors, Unset
  <2> QED BY <2>1, <2>2, RowsAreForms DEF AdminInit
<1>5. PageTypes
  BY <1>3, <1>4 DEF AdminInit, PageTypes
<1>6. PageSees
  <2>1. \A s \in SourceIds : latest[s].writes >= owed[s] /\ list.data[s].writes >= owed[s]
    <3> SUFFICES ASSUME NEW s \in SourceIds
                 PROVE  latest[s].writes >= owed[s] /\ list.data[s].writes >= owed[s]
      OBVIOUS
    <3>1. latest[s].writes \in Nat
      BY <1>1 DEF Shaped
    <3>2. owed[s] = 0 /\ list.data = Snapshot
      BY DEF AdminInit
    <3>3. Snapshot[s].writes = latest[s].writes
      BY <1>1, SnapshotIsNow
    <3> QED BY <3>1, <3>2, <3>3
  <2> QED BY <2>1 DEF AdminInit, PageSees, Seen
<1> QED BY <1>1, <1>5, <1>6 DEF PageInv

\* The invariant of the page, with that of the table.
THEOREM PageInvariant == AdminSpec => [](SourcesInv /\ PageInv)
<1>1. SourcesInv /\ PageInv /\ [AdminNext]_allVars => (SourcesInv /\ PageInv)'
  <2> SUFFICES ASSUME SourcesInv, PageInv, [AdminNext]_allVars PROVE SourcesInv' /\ PageInv'
    OBVIOUS
  <2>1. PageTypes /\ Shaped
    BY DEF PageInv, SourcesInv
  <2>2. [SourcesNext]_sourcesVars
    BY <2>1, PageStepIsSourcesStep
  <2>3. SourcesInv' /\ Shaped'
    BY <2>2, SourcesInvStep DEF SourcesInv
  <2>4. CASE UNCHANGED adminVars
    <3>1. list' = list /\ owed' = owed /\ newForm' = newForm /\ rowForm' = rowForm
      BY <2>4 DEF adminVars
    <3>2. PageSees'
      BY <2>1, <2>2, <2>3, <3>1, NothingUnseen
    <3> QED BY <2>1, <2>3, <3>1, <3>2 DEF PageInv, PageTypes
  <2>5. CASE Refetch \/ ListRead \/ ListShown \/ ListFails
    BY <2>1, <2>3, <2>5, ListStep
  <2>6. CASE \/ handleSubmit \/ handleSave \/ handleDeactivate \/ Edit \/ handleCancel
             \/ \E t \in Typed : TypeNew(t[1], t[2]) \/ TypeRow(t[1], t[2])
    <3>1. PageTypes' /\ list' = list /\ owed' = owed
      BY <2>1, <2>6, HandlerTypes
    <3>2. PageSees'
      BY <2>1, <2>2, <2>3, <3>1, NothingUnseen
    <3> QED BY <2>3, <3>1, <3>2 DEF PageInv
  <2>7. CASE \E slot \in Slots : Settled(slot) \/ Disconnected(slot)
    BY <2>1, <2>3, <2>7, MutationEnds
  <2>8. CASE UNCHANGED allVars \/ \E r \in Requests : Elsewhere(r)
    BY <2>4, <2>8 DEF allVars, adminVars, Elsewhere
  <2> QED BY <2>5, <2>6, <2>7, <2>8 DEF AdminNext
<1> QED
  BY <1>1, PageInvInit, PTL DEF AdminSpec, allVars

\* An own change that was confirmed is shown as soon as no refetch is under way or has
\* failed (onSuccess invalidates the list): what is owed has been written when it becomes
\* owed, and from then on only answers that are read later are shown.
THEOREM OwnChangesAreAlwaysShown == AdminSpec => []OwnChangesAreShown
<1>1. PageInv => OwnChangesAreShown
  BY DEF PageInv, PageSees, Seen, OwnChangesAreShown
<1> QED
  BY <1>1, PageInvariant, PTL

\* The page over the api is the api with one client more: handleSubmit, handleSave and
\* handleDeactivate send what the contract admits, and nothing else reaches the table.
THEOREM PageImplementsSources == AdminSpec => SourcesSpec
<1>1. AdminInit => SourcesInit
  BY DEF AdminInit
<1>2. PageInv /\ [AdminNext]_allVars => [SourcesNext]_sourcesVars
  BY PageStepIsSourcesStep DEF PageInv
<1> QED
  BY <1>1, <1>2, PageInvariant, PTL DEF AdminSpec, SourcesSpec, allVars
=============================================================================
