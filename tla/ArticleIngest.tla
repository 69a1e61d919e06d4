--------------------------- MODULE ArticleIngest ---------------------------
(***************************************************************************)
(* dedupeAndPersist (apps/worker, modules/articles): a batch of candidates *)
(* is collapsed, matched against the stored articles with one query, and   *)
(* what is new is inserted row by row, without a transaction.  Calls run   *)
(* side by side, fail in the middle, and are repeated with the same batch. *)
(* The canonical url is unique in the database; the content hash is not.   *)
(*                                                                         *)
(* The call has no caller in this repository yet; its callers here are     *)
(* what the collector's queue allows: every document at any time, again    *)
(* after a failure, again after a success.                                 *)
(***************************************************************************)
EXTENDS FeedParser, FiniteSets, FiniteSetsExt

CONSTANTS
    Calls,      \* calls of dedupeAndPersist that may be under way at once
    Documents,  \* the feed bodies they are made with
    MaxCalls    \* bound: calls made

IsBatch(cs) == cs \in Seq(Range(cs))

ASSUME IngestAssumption ==
    /\ MaxCalls \in Nat
    /\ \A d \in Documents : IsBatch(d.entries)

VARIABLES
    articles,    \* the table: rows of a canonical url and a content hash
    call,        \* call[c]: the locals of a call
    \* history
    made,        \* calls made so far
    completed,   \* batches a call has been completed for
    overlapped   \* two calls were between their query and their end at once

ingestVars == <<articles, call, made, completed, overlapped>>

-----------------------------------------------------------------------------
\* collapseInBatchDuplicates: union-find over the indexes of the batch, in order.  The
\* result is the final root of each index.

\* mutant: the index is moved, and the others of its group are left behind
UniteAlone(root, a, b) == [root EXCEPT ![a] = Min({root[a], root[b]})]

\* union: the earlier root wins.
Unite(root, a, b) ==
    LET winner == Min({root[a], root[b]})
        loser  == Max({root[a], root[b]})
    IN  [i \in DOMAIN root |-> IF root[i] = loser THEN winner ELSE root[i]]

\* The index the map of a key holds when k is reached: the last earlier one, if any.
LastWith(cs, k, Same(_, _)) ==
    LET earlier == {j \in 1..(k - 1) : Same(cs[j], cs[k])}
    IN  IF earlier = {} THEN k ELSE Max(earlier)

SameUrl(a, b) == a.canonicalUrl = b.canonicalUrl
SameHash(a, b) == a.contentHash = b.contentHash

Absorb(root, cs, k) ==
    LET byUrl == Unite(root, k, LastWith(cs, k, SameUrl))
    IN  Unite(byUrl, k, LastWith(cs, k, SameHash))

collapseInBatchDuplicates(cs) ==
    LET after[k \in 0..Len(cs)] ==
            IF k = 0 THEN [i \in DOMAIN cs |-> i] ELSE Absorb(after[k - 1], cs, k)
    IN  after[Len(cs)]

\* findMatch: a candidate and a row are the same article by either key.
SameArticle(a, b) == SameUrl(a, b) \/ SameHash(a, b)

-----------------------------------------------------------------------------
NoCall == [pc |-> "idle", candidates |-> <<>>, root |-> <<>>, index |-> 1,
           matches |-> {}, inserted |-> {}, again |-> FALSE]

Candidates(c) == call[c].candidates
Current(c) == Candidates(c)[call[c].index]

\* groupMembersByRepresentative
Group(c, i) == {j \in DOMAIN Candidates(c) : call[c].root[j] = call[c].root[i]}

\* mutant: a match for one story is taken for a match of all
BatchMatched(c) == call[c].matches # {}

\* findGroupMatch: every member is compared with what the one query returned.
GroupMatched(c) ==
    \E j \in Group(c, call[c].index) : \E row \in call[c].matches :
        SameArticle(Candidates(c)[j], row)

\* mutant: by the url alone
findMatchesByUrl(queries) == {row \in articles : \E q \in queries : SameUrl(q, row)}

\* mutant: one row is asked for
findFirst(queries) ==
    LET found == {row \in articles : \E q \in queries : SameArticle(q, row)}
    IN  {row \in found : row = CHOOSE r \in found : TRUE}

\* findMatches: the rows that share a key with one of the queries.
findMatches(queries) == {row \in articles : \E q \in queries : SameArticle(q, row)}

\* The representative whose turn it is.
AtRepresentative(c) ==
    /\ call[c].pc = "persist"
    /\ call[c].index \in DOMAIN Candidates(c)
    /\ call[c].root[call[c].index] = call[c].index

\* The index of the next representative after i, or one past the batch.
NextIndex(c, i) ==
    Min({j \in DOMAIN Candidates(c) : j > i /\ call[c].root[j] = j} \cup {Len(Candidates(c)) + 1})

UrlTaken(candidate) == \E row \in articles : SameUrl(row, candidate)

\* mutant: stored without its hash
toNewArticleUnhashed(candidate) == [candidate EXCEPT !.contentHash = <<Nothing, Nothing>>]

toNewArticle(candidate) == candidate

IngestInit ==
    /\ articles = {}
    /\ call = [c \in Calls |-> NoCall]
    /\ made = 0
    /\ completed = {}
    /\ overlapped = FALSE

\* dedupeAndPersist is called with what parseFeed made of a document.
Begin(c, d) ==
    /\ call[c].pc \in {"idle", "done", "failed"}
    /\ made < MaxCalls
    /\ parseFeed(d).error = "none"
    /\ LET batch == parseFeed(d).candidates
       IN  call' = [call EXCEPT ![c] = [NoCall EXCEPT !.pc = "match", !.candidates = batch,
                                            !.root = collapseInBatchDuplicates(batch)]]
    /\ made' = made + 1
    /\ UNCHANGED <<articles, completed, overlapped>>

\* The same batch again, after the call that threw.
Repeat(c) ==
    /\ call[c].pc = "failed"
    /\ made < MaxCalls
    /\ call' = [call EXCEPT ![c] = [NoCall EXCEPT !.pc = "match", !.candidates = Candidates(c),
                                                  !.root = call[c].root]]
    /\ made' = made + 1
    /\ UNCHANGED <<articles, completed, overlapped>>

\* One query for the whole batch; what it returns is not looked at again.
Match(c) ==
    /\ call[c].pc = "match"
    /\ call' = [call EXCEPT ![c] = [@ EXCEPT !.pc = "persist",
                                             !.matches = findMatches(Range(Candidates(c))),
                                             !.again = Candidates(c) \in completed]]
    /\ overlapped' = (overlapped \/ \E o \in Calls \ {c} : call[o].pc \in {"persist", "lookup"})
    /\ UNCHANGED <<articles, made, completed>>

\* The representative is settled: on to the next one.
Advance(c, inserted) ==
    call' = [call EXCEPT ![c] = [call[c] EXCEPT !.pc = "persist",
                                                !.index = NextIndex(c, @),
                                                !.inserted = @ \cup inserted]]

\* status "existing", found before the write.
Settle(c) ==
    /\ AtRepresentative(c)
    /\ GroupMatched(c)
    /\ Advance(c, {})
    /\ UNCHANGED <<articles, made, completed, overlapped>>

Insert(c) ==
    /\ AtRepresentative(c)
    /\ ~GroupMatched(c)
    /\ ~UrlTaken(Current(c))
    /\ articles' = articles \cup {toNewArticle(Current(c))}
    /\ Advance(c, {call[c].index})
    /\ UNCHANGED <<made, completed, overlapped>>

\* isCanonicalUrlConflict: the unique index refuses the row.
Conflict(c) ==
    /\ AtRepresentative(c)
    /\ ~GroupMatched(c)
    /\ UrlTaken(Current(c))
    /\ call' = [call EXCEPT ![c].pc = "lookup"]
    /\ UNCHANGED <<articles, made, completed, overlapped>>

\* status "existing", reason "race"; a row that is not there is the error thrown.
Lookup(c) ==
    /\ call[c].pc = "lookup"
    /\ IF findMatches({Current(c)}) # {}
       THEN Advance(c, {})
       ELSE call' = [call EXCEPT ![c].pc = "failed"]
    /\ UNCHANGED <<articles, made, completed, overlapped>>

Finish(c) ==
    /\ call[c].pc = "persist"
    /\ call[c].index \notin DOMAIN Candidates(c)
    /\ call' = [call EXCEPT ![c].pc = "done"]
    /\ completed' = completed \cup {Candidates(c)}
    /\ UNCHANGED <<articles, made, overlapped>>

\* A query fails, and the call with it.  The rows already inserted stay.
QueryFails(c) ==
    /\ \/ call[c].pc \in {"match", "lookup"}
       \/ AtRepresentative(c) /\ ~GroupMatched(c)
    /\ call' = [call EXCEPT ![c].pc = "failed"]
    /\ UNCHANGED <<articles, made, completed, overlapped>>

\* The same, with the answer to an insert that was done lost.
AnswerLost(c) ==
    /\ AtRepresentative(c)
    /\ ~GroupMatched(c)
    /\ ~UrlTaken(Current(c))
    /\ articles' = articles \cup {toNewArticle(Current(c))}
    /\ call' = [call EXCEPT ![c].pc = "failed"]
    /\ UNCHANGED <<made, completed, overlapped>>

IngestStep(c) ==
    \/ \E d \in Documents : Begin(c, d)
    \/ Repeat(c) \/ Match(c) \/ Settle(c) \/ Insert(c) \/ Conflict(c) \/ Lookup(c)
    \/ Finish(c) \/ QueryFails(c) \/ AnswerLost(c)

IngestNext == \E c \in Calls : IngestStep(c)

IngestSpec == IngestInit /\ [][IngestNext]_ingestVars

-----------------------------------------------------------------------------
\* The two keys of a candidate and of a row.
Keys == {"canonicalUrl", "contentHash"}

\* Type correctness, with what ties a call's locals to each other: rows and candidates are
\* what parseFeed makes, the root of a batch is the collapse of its candidates, and what was
\* inserted is a representative and stored as it is.
IngestTypeOK ==
    /\ made \in 0..MaxCalls
    /\ overlapped \in BOOLEAN
    /\ \A row \in articles : DOMAIN row = Keys
    /\ DOMAIN call = Calls
    /\ \A c \in Calls :
        /\ \A i \in DOMAIN Candidates(c) : DOMAIN Candidates(c)[i] = Keys
        /\ call[c].pc \in {"idle", "match", "persist", "lookup", "done", "failed"}
        /\ call[c].index \in 1..(Len(Candidates(c)) + 1)
        /\ call[c].matches \subseteq articles
        /\ call[c].root = collapseInBatchDuplicates(Candidates(c))
        /\ \A i \in call[c].inserted : call[c].root[i] = i /\ Candidates(c)[i] \in articles

\* Two candidates of a batch are folded into one group exactly when a chain of shared keys
\* connects them, and the group is named by its earliest member: the doc comment of
\* collapseInBatchDuplicates (a candidate may bridge two groups already established).
Closed(cs, S) == \A i \in S : \A j \in DOMAIN cs : SameArticle(cs[i], cs[j]) => j \in S
Connected(cs, i) ==
    {j \in DOMAIN cs : \A S \in SUBSET DOMAIN cs : i \in S /\ Closed(cs, S) => j \in S}

CollapseIsClosure ==
    \A c \in Calls : \A i \in DOMAIN Candidates(c) :
        call[c].root[i] = Min(Connected(Candidates(c), i))

\* As long as no two calls ran side by side, two stored articles share neither key, whatever
\* failed and was repeated in between.  (Side by side, two calls store the same content
\* under two urls: only the url is unique in the database.)
OneArticlePerStory ==
    ~overlapped => \A a, b \in articles : a # b => ~SameArticle(a, b)

\* A call that returned has left none of its stories out: each group of the batch has a
\* member that shares a key with a stored article, also when another call won the insert.
NothingIsLost ==
    \A c \in Calls : call[c].pc = "done" =>
        \A i \in DOMAIN Candidates(c) :
            \E j \in Group(c, i) : \E row \in articles : SameArticle(Candidates(c)[j], row)

\* A batch that has been stored once is stored: the call made with it again, after a lost
\* answer or by a second delivery, inserts nothing.
RetryAddsNothing ==
    \A c \in Calls : call[c].again => call[c].inserted = {}
=============================================================================
