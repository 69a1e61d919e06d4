------------------------------ MODULE Sources ------------------------------
(***************************************************************************)
(* The table of sources and its two writers, which share no code and no    *)
(* lock: requests to the api (apps/api, modules/sources) change the name,  *)
(* the feed and the activity of a source; jobs of the worker               *)
(* (handlers/sources-fetch.ts) fetch the feed and write the validator and  *)
(* the last error.  A request checks before it writes, a job reads before  *)
(* it fetches and writes after; each access to the database is one step    *)
(* and may fail, before its effect or after it.  A job whose worker dies,  *)
(* or loses its lock on it, is stalled: the queue delivers it again.       *)
(*                                                                         *)
(* The feed url is unique in the database.  The validators (etag and last- *)
(* modified) are one value, the feed that issued them.  Sources are never  *)
(* deleted by this code.                                                   *)
(***************************************************************************)
EXTENDS Naturals, Sequences

CONSTANTS
    SourceIds, Names, FeedUrls,
    Requests,       \* api requests under way at once
    Jobs,           \* sources.fetch jobs in the queue
    MaxAttempts,    \* attempts of sourcesFetchJob
    MaxStalls,      \* maxStalledCount, which createSystemWorker leaves to the queue
    MaxRedirects,   \* DEFAULT_MAX_REDIRECTS
    MaxRequests     \* bound: requests made

ASSUME SourcesAssumption ==
    /\ MaxAttempts \in Nat \ {0} /\ MaxStalls \in Nat
    /\ MaxRedirects \in Nat /\ MaxRequests \in Nat
    /\ "none" \notin FeedUrls /\ "none" \notin Names

VARIABLES
    sources,    \* the table, by id
    request,    \* request[r]: an api request
    job,        \* job[j]: a fetch job and the locals of its attempt
    \* history
    requested,  \* requests made so far
    latest,     \* latest[s]: what the last write of the api left, and how many there were
    newest,     \* newest[s]: whether the attempt that was answered last failed
    muddled     \* sources of which two attempts overlapped, or an outcome was not recorded

sourcesVars == <<sources, request, job, requested, latest, newest, muddled>>

-----------------------------------------------------------------------------
Absent == [exists |-> FALSE, name |-> "none", feedUrl |-> "none", isActive |-> FALSE,
           validator |-> "none", failing |-> FALSE]

NewSource(name, feedUrl) ==
    [Absent EXCEPT !.exists = TRUE, !.name = name, !.feedUrl = feedUrl, !.isActive = TRUE]

NoRequest == [pc |-> "idle", op |-> "none", id |-> "none", name |-> "none", feedUrl |-> <<>>,
              result |-> "none", dbFailed |-> FALSE]

\* An orphan is an attempt that goes on after the queue has given its job to another one.
NewJob(s) == [pc |-> "queued", source |-> s, attempts |-> 0, stalls |-> 0, feedUrl |-> "none",
              redirects |-> 0, outcome |-> "none", refusals |-> 0, dbFailed |-> FALSE,
              orphan |-> FALSE]

Api(s) == [name |-> sources[s].name, feedUrl |-> sources[s].feedUrl,
           isActive |-> sources[s].isActive]

\* findByFeedUrl, other than the source itself: also what the unique index refuses.
FeedUrlTaken(r) ==
    /\ request[r].feedUrl # <<>>
    /\ \E s \in SourceIds :
        /\ sources[s].exists
        /\ sources[s].feedUrl = request[r].feedUrl[1]
        /\ ~(request[r].op = "update" /\ s = request[r].id)

Answer(r, result) ==
    request' = [request EXCEPT ![r].pc = "answered", ![r].result = result]

jobVars == <<job, newest, muddled>>

\* A request arrives.  An update without a feed url, and a deactivation, are not checked.
Receive(r, op, id, name, feedUrl) ==
    /\ request[r].pc \in {"idle", "answered"}
    /\ requested < MaxRequests
    /\ request' = [request EXCEPT ![r] =
           [NoRequest EXCEPT !.pc = IF feedUrl # <<>> THEN "check" ELSE "write",
                             !.op = op, !.id = id, !.name = name, !.feedUrl = feedUrl]]
    /\ requested' = requested + 1
    /\ UNCHANGED <<sources, latest, jobVars>>

ReceiveCreate(r) ==
    \E name \in Names, f \in FeedUrls : Receive(r, "create", "none", name, <<f>>)

ReceiveUpdate(r) ==
    \E id \in SourceIds, name \in Names, f \in {<<>>} \cup {<<g>> : g \in FeedUrls} :
        Receive(r, "update", id, name, f)

ReceiveDeactivate(r) ==
    \E id \in SourceIds : Receive(r, "deactivate", id, "none", <<>>)

\* The service looks whether another source has the feed url.
Check(r) ==
    /\ request[r].pc = "check"
    /\ IF FeedUrlTaken(r)
       THEN Answer(r, "CONFLICT")
       ELSE request' = [request EXCEPT ![r].pc = "write"]
    /\ UNCHANGED <<sources, requested, latest, jobVars>>

\* What the statement of a request makes of the table.
Inserted(r, s) ==
    [sources EXCEPT ![s] = NewSource(request[r].name, request[r].feedUrl[1])]

Updated(r, s) ==
    [sources EXCEPT ![s].name = request[r].name,
                    ![s].feedUrl = IF request[r].feedUrl = <<>> THEN @ ELSE request[r].feedUrl[1]]

Deactivated(s) == [sources EXCEPT ![s].isActive = FALSE]

\* The source a statement writes: a new one, or that with the id, if there is one.
Targets(r) ==
    IF request[r].op = "create"
    THEN {s \in SourceIds : ~sources[s].exists}
    ELSE {s \in SourceIds : s = request[r].id /\ sources[s].exists}

Statement(r, s) ==
    CASE request[r].op = "create" -> Inserted(r, s)
      [] request[r].op = "update" -> Updated(r, s)
      [] request[r].op = "deactivate" -> Deactivated(s)

Written(r, s) ==
    /\ request[r].pc = "write"
    /\ s \in Targets(r)
    /\ ~FeedUrlTaken(r)
    /\ sources' = Statement(r, s)
    /\ latest' = [latest EXCEPT ![s] = [api |-> Api(s)', writes |-> @.writes + 1]]

Write(r) ==
    /\ \E s \in SourceIds : Written(r, s)
    /\ Answer(r, "ok")
    /\ UNCHANGED <<requested, jobVars>>

\* mutant: the error of the unique index goes through as it is
WriteThrows(r) ==
    /\ request[r].pc = "write"
    /\ Targets(r) # {}
    /\ FeedUrlTaken(r)
    /\ Answer(r, "error")
    /\ UNCHANGED <<sources, requested, latest, jobVars>>

\* isFeedUrlConflict: another request took the url between the check and the write.
WriteRefused(r) ==
    /\ request[r].pc = "write"
    /\ Targets(r) # {}
    /\ FeedUrlTaken(r)
    /\ Answer(r, "CONFLICT")
    /\ UNCHANGED <<sources, requested, latest, jobVars>>

\* SourceNotFoundError: the update met no row.
WriteNothing(r) ==
    /\ request[r].pc = "write"
    /\ request[r].op # "create"
    /\ Targets(r) = {}
    /\ Answer(r, "NOT_FOUND")
    /\ UNCHANGED <<sources, requested, latest, jobVars>>

Failed(r) ==
    request' = [request EXCEPT ![r].pc = "answered", ![r].result = "error", ![r].dbFailed = TRUE]

\* The database fails under a request, which is answered with an untyped error.
RequestFails(r) ==
    /\ request[r].pc \in {"check", "write"}
    /\ Failed(r)
    /\ UNCHANGED <<sources, requested, latest, jobVars>>

\* The same, after the write was done.
WriteUnconfirmed(r) ==
    /\ \E s \in SourceIds : Written(r, s)
    /\ Failed(r)
    /\ UNCHANGED <<requested, jobVars>>

-----------------------------------------------------------------------------
apiVars == <<request, requested, latest>>

InFlight(j) == job[j].pc \in {"requesting", "record"}

\* The end of an attempt, and of its locals.
Left(j, pc) ==
    [job[j] EXCEPT !.pc = pc, !.attempts = @ + 1, !.feedUrl = "none", !.redirects = 0,
                   !.outcome = "none"]

\* mutant: one attempt too many
ThrownLate(j) ==
    IF job[j].attempts + 1 <= MaxAttempts /\ ~job[j].orphan THEN "queued" ELSE "failed"

\* A job that has thrown: again, unless its attempts are used up.
Thrown(j) == IF job[j].attempts + 1 < MaxAttempts /\ ~job[j].orphan THEN "queued" ELSE "failed"

\* findFetchTarget: what the attempt knows of its source from here on.
Start(j) ==
    LET s == job[j].source
    IN  /\ job[j].pc = "queued"
        /\ job' = [job EXCEPT ![j] = IF sources[s].exists
                                     THEN [job[j] EXCEPT !.pc = "requesting",
                                                         !.feedUrl = sources[s].feedUrl]
                                     ELSE Left(j, "failed")]
        /\ muddled' = IF \E o \in Jobs \ {j} : job[o].source = s /\ InFlight(o)
                      THEN muddled \cup {s} ELSE muddled
        /\ UNCHANGED <<sources, apiVars, newest>>

\* The database fails under findFetchTarget.
StartFails(j) ==
    /\ job[j].pc = "queued"
    /\ job' = [job EXCEPT ![j] = Left(j, Thrown(j))]
    /\ UNCHANGED <<sources, apiVars, newest, muddled>>

\* What a server, or the network, may answer a request of fetchFeed with.
Answers == {"not-modified", "redirect", "redirect-nowhere", "redirect-no-url", "redirect-scheme",
            "gone", "server-error", "client-error", "oversized", "ok", "body-lost",
            "timeout", "unreachable"}

\* A redirect that is followed.
Follow(j) ==
    /\ job[j].pc = "requesting"
    /\ job[j].redirects < MaxRedirects
    /\ job' = [job EXCEPT ![j].redirects = @ + 1]
    /\ UNCHANGED <<sources, apiVars, newest, muddled>>

\* fetchFeed, of an answer that ends it: the result, or whether the error may be retried.
\* A location that is no url, and a body that breaks off, throw something else than a
\* FeedFetchError, which the handler takes for retryable.
Outcome(answer) ==
    CASE answer \in {"not-modified", "ok"} -> answer
      [] answer \in {"redirect", "redirect-nowhere", "redirect-scheme", "gone", "client-error",
                     "oversized"} -> "permanent"
      [] OTHER -> "retryable"

Answered(j, answer) ==
    /\ job[j].pc = "requesting"
    /\ answer = "redirect" => job[j].redirects >= MaxRedirects
    /\ answer \in {"redirect-no-url", "redirect-scheme"} => job[j].redirects < MaxRedirects
    /\ job' = [job EXCEPT ![j].pc = "record", ![j].outcome = Outcome(answer),
                          ![j].refusals = IF Outcome(answer) = "permanent" THEN @ + 1 ELSE @]
    /\ newest' = [newest EXCEPT ![job[j].source] = Outcome(answer) \in {"permanent", "retryable"}]
    /\ UNCHANGED <<sources, apiVars, muddled>>

\* mutant: the row that was read is written back with the outcome
recordWholeRow(j, validator) ==
    LET s == job[j].source
    IN  [sources EXCEPT ![s].feedUrl = job[j].feedUrl, ![s].validator = validator,
                        ![s].failing = job[j].outcome \in {"permanent", "retryable"}]

\* mutant: a feed that has not changed leaves the row as it is
recordUnlessUnchanged(j, validator) ==
    LET s == job[j].source
    IN  CASE job[j].outcome = "ok" ->
                 [sources EXCEPT ![s].failing = FALSE, ![s].validator = validator]
          [] job[j].outcome = "not-modified" -> sources
          [] OTHER -> [sources EXCEPT ![s].failing = TRUE]

\* recordFetchOutcome: a failure keeps the validators of the last success, a feed that has
\* not changed too; a fetched feed may have come without any.
recordFetchOutcome(j, validator) ==
    LET s == job[j].source
    IN  CASE job[j].outcome = "ok" ->
                 [sources EXCEPT ![s].failing = FALSE, ![s].validator = validator]
          [] job[j].outcome = "not-modified" -> [sources EXCEPT ![s].failing = FALSE]
          [] OTHER -> [sources EXCEPT ![s].failing = TRUE]

Recorded(j) ==
    \E validator \in {"none", job[j].feedUrl} : sources' = recordFetchOutcome(j, validator)

\* mutant: every error is retried
EndsRetried(j) == IF job[j].outcome \in {"ok", "not-modified"} THEN "done" ELSE Thrown(j)

Ends(j) ==
    CASE job[j].outcome \in {"ok", "not-modified"} -> "done"
      [] job[j].outcome = "permanent" -> "failed"
      [] job[j].outcome = "retryable" -> Thrown(j)

Record(j) ==
    /\ job[j].pc = "record"
    /\ Recorded(j)
    /\ job' = [job EXCEPT ![j] = Left(j, Ends(j))]
    /\ UNCHANGED <<apiVars, newest, muddled>>

\* The outcome cannot be written, or the write is not confirmed.  A success has been
\* written inside the try: the handler goes on to record the failure of the database as one
\* of the feed.  In the catch, the exception replaces the verdict on the feed.
RecordFails(j) ==
    /\ job[j].pc = "record"
    /\ sources' = sources \/ Recorded(j)
    /\ job' = [job EXCEPT ![j] =
           IF job[j].outcome \in {"ok", "not-modified"}
           THEN [@ EXCEPT !.outcome = "retryable", !.dbFailed = TRUE]
           ELSE [Left(j, Thrown(j)) EXCEPT !.dbFailed = TRUE]]
    /\ muddled' = muddled \cup {job[j].source}
    /\ UNCHANGED <<apiVars, newest>>

\* What the queue makes of a stalled job (external): it is delivered again, and failed when
\* that has happened too often.  A stall is no attempt.
Redelivered(j) ==
    [job[j] EXCEPT !.pc = IF job[j].stalls < MaxStalls THEN "queued" ELSE "failed",
                   !.stalls = @ + 1, !.feedUrl = "none", !.redirects = 0, !.outcome = "none"]

\* The worker dies under a job: also with the outcome recorded, and the queue not yet told.
Stall(j) ==
    /\ ~job[j].orphan
    /\ \/ job[j].pc \in {"queued", "requesting"} /\ UNCHANGED <<sources, muddled>>
       \/ job[j].pc = "record" /\ Recorded(j) /\ UNCHANGED muddled
       \/ /\ job[j].pc = "record"
          /\ muddled' = muddled \cup {job[j].source}
          /\ UNCHANGED sources
    /\ job' = [job EXCEPT ![j] = Redelivered(j)]
    /\ UNCHANGED <<apiVars, newest>>

\* The worker loses its lock on the job and does not know: its attempt goes on, here in the
\* place of a job that has ended, and the queue will not hear of it.
LoseLock(j, o) ==
    /\ InFlight(j) /\ ~job[j].orphan
    /\ job[o].pc \in {"done", "failed"}
    /\ job' = [job EXCEPT ![j] = Redelivered(j), ![o] = [job[j] EXCEPT !.orphan = TRUE]]
    /\ UNCHANGED <<sources, apiVars, newest, muddled>>

-----------------------------------------------------------------------------
\* The table may hold a source that is older than what is looked at.
SourcesInit ==
    /\ \E old \in SUBSET SourceIds : \E f \in FeedUrls, name \in Names :
        /\ \A s, t \in old : s = t
        /\ sources = [s \in SourceIds |-> IF s \in old THEN NewSource(name, f) ELSE Absent]
        /\ latest = [s \in SourceIds |->
               [api |-> [name |-> sources[s].name, feedUrl |-> sources[s].feedUrl,
                         isActive |-> sources[s].isActive], writes |-> 0]]
    /\ request = [r \in Requests |-> NoRequest]
    /\ \E target \in [Jobs -> SourceIds] : job = [j \in Jobs |-> NewJob(target[j])]
    /\ requested = 0
    /\ newest = [s \in SourceIds |-> FALSE]
    /\ muddled = {}

RequestStep(r) ==
    \/ ReceiveCreate(r) \/ ReceiveUpdate(r) \/ ReceiveDeactivate(r)
    \/ Check(r) \/ Write(r) \/ WriteRefused(r) \/ WriteNothing(r)
    \/ RequestFails(r) \/ WriteUnconfirmed(r)

JobStep(j) ==
    \/ Start(j) \/ StartFails(j) \/ Follow(j) \/ (\E a \in Answers : Answered(j, a))
    \/ Record(j) \/ RecordFails(j) \/ Stall(j) \/ (\E o \in Jobs : LoseLock(j, o))

SourcesNext ==
    \/ \E r \in Requests : RequestStep(r)
    \/ \E j \in Jobs : JobStep(j)

SourcesSpec == SourcesInit /\ [][SourcesNext]_sourcesVars

-----------------------------------------------------------------------------
\* Type correctness.
SourcesTypeOK ==
    /\ requested \in 0..MaxRequests
    /\ muddled \subseteq SourceIds
    /\ newest \in [SourceIds -> BOOLEAN]
    /\ sources \in [SourceIds ->
           [exists : BOOLEAN, name : Names \cup {"none"}, feedUrl : FeedUrls \cup {"none"},
            isActive : BOOLEAN, validator : FeedUrls \cup {"none"}, failing : BOOLEAN]]
    /\ \A j \in Jobs :
        /\ job[j].source \in SourceIds
        /\ job[j].attempts \in 0..MaxAttempts
        /\ job[j].stalls \in 0..(MaxStalls + 1)
        /\ job[j].redirects \in 0..MaxRedirects

\* The two writers of a row do not undo each other: name, feed and activity of a source are
\* always what the last write of the api left, whatever an attempt has read before that
\* write and records after it.
NoLostUpdate ==
    \A s \in SourceIds : Api(s) = latest[s].api

\* Two requests for one feed url, whichever way they interleave, end with a row or with the
\* typed CONFLICT: an untyped error is only ever the database's own failure (the comment of
\* isFeedUrlConflict: "so it still surfaces as SourceFeedUrlConflictError"); and no two
\* sources have the same feed.
RacesEndAsConflicts ==
    /\ \A r \in Requests : request[r].result = "error" => request[r].dbFailed
    /\ \A s, t \in SourceIds :
        s # t /\ sources[s].exists /\ sources[t].exists => sources[s].feedUrl # sources[t].feedUrl

\* The error shown for a source is that of the attempt answered last, and is gone after a
\* success, a 304 included, unless two attempts overlapped or an outcome was not recorded.
OutcomeIsOfNewestAttempt ==
    \A s \in SourceIds :
        s \notin muddled /\ (\A j \in Jobs : job[j].source = s => ~InFlight(j))
            => sources[s].failing = newest[s]

\* A feed that has refused for good is not asked again, unless the database failed or the
\* queue delivered the job again because it was stalled: after one refusal more than there
\* were stalls, the job is about to record it or has failed.  (definitions.ts:54-57 of
\* packages/jobs names no exception; but the error of a database that does not take the
\* record is thrown in place of UnrecoverableError, sources-fetch.ts:65, and retried.)
PermanentIsFinal ==
    \A j \in Jobs : job[j].refusals > job[j].stalls /\ ~job[j].dbFailed =>
        job[j].pc \in {"record", "failed"}
=============================================================================
