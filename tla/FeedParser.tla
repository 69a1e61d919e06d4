----------------------------- MODULE FeedParser -----------------------------
(***************************************************************************)
(* From a feed document to article candidates (feed-parser.ts): pure.      *)
(*                                                                         *)
(* A url is a page, a scheme and what may be hung on a url without naming  *)
(* another page (`dress`: trackers, a fragment, the default port, capital  *)
(* letters).  A text is its words and what may be put around them (markup, *)
(* entities, blanks, more than the limit).  Documents are records of what  *)
(* the parser looks at.  Authors, images and dates are left out: nothing   *)
(* is decided by them.                                                     *)
(***************************************************************************)
EXTENDS Naturals, Sequences, SequencesExt

Nothing == "blank"   \* the words of a text of which nothing is left

\* canonicalizeUrl.  <<>> is null.
canonicalizeUrl(url) ==
    IF url.scheme \in {"http", "https"} THEN <<[url EXCEPT !.dress = {}]>> ELSE <<>>

\* sanitizeText, of a field that may be missing.
sanitizeText(field) == IF field = <<>> THEN Nothing ELSE field[1].words

-----------------------------------------------------------------------------
\* The fields of an entry, each a sequence of none or one: the url, the title, and the
\* summary, for which formats have alternatives; the first that is there is taken,
\* blank or not.

First(fields) == IF fields = <<>> THEN <<>> ELSE <<Head(fields)>>

\* parseRssItems.  A repeated tag is an array, and an array has no text.
Only(fields) == IF Len(fields) = 1 THEN fields ELSE <<>>

RssFields(item) ==
    [url |-> Only(item.links), title |-> item.title, summary |-> Only(item.summaries)]

\* The href of a link that has none.
NoHref == [scheme |-> "none", page |-> "none", dress |-> {}]

\* extractAtomUrl: the first link that is an alternate or does not say what it is ("none"),
\* or else, if there is none or it has no href, the first.
AtomUrl(links) ==
    LET alternate == {i \in DOMAIN links : links[i].rel \in {"alternate", "none"}}
    IN  IF alternate # {} /\ links[Min(alternate)].href # NoHref
        THEN <<links[Min(alternate)]>>
        ELSE First(links)

AtomFields(entry) ==
    [url |-> AtomUrl(entry.links), title |-> entry.title, summary |-> First(entry.summaries)]

JsonFields(item) ==
    [url |-> First(item.links), title |-> item.title, summary |-> First(item.summaries)]

\* What buildCandidates needs of a raw entry.
Extract(root, entry) ==
    CASE root = "rss" -> RssFields(entry)
      [] root = "feed" -> AtomFields(entry)
      [] root = "jsonfeed" -> JsonFields(entry)

CanonicalUrl(raw) == IF raw.url = <<>> THEN <<>> ELSE canonicalizeUrl(raw.url[1].href)

\* buildCandidates skips an entry without a usable url, or without a title.
MissingUrl(raw) == CanonicalUrl(raw) = <<>>
MissingTitle(raw) == sanitizeText(raw.title) = Nothing

\* computeContentHash: of the title and the summary as they are stored, of nothing else.
computeContentHash(title, summary) == <<title, summary>>

Candidate(raw) ==
    [canonicalUrl |-> CanonicalUrl(raw)[1],
     contentHash |-> computeContentHash(sanitizeText(raw.title), sanitizeText(raw.summary))]

\* An entry that is no object, or a reference to a character that does not exist, in a
\* text that is read: the exception leaves parseFeed, and the entries around it are lost.
Throws(root, entry) ==
    \/ entry.broken = "entry"
    \/ entry.broken = "text" /\ ~MissingUrl(Extract(root, entry))

WithEntry(candidates, raw) ==
    IF MissingUrl(raw) \/ MissingTitle(raw) THEN candidates ELSE Append(candidates, Candidate(raw))

buildCandidates(root, entries) ==
    LET built[k \in 0..Len(entries)] ==
            IF k = 0 THEN <<>> ELSE WithEntry(built[k - 1], Extract(root, entries[k]))
    IN  built[Len(entries)]

-----------------------------------------------------------------------------
Failure(reason) == [error |-> reason, candidates |-> <<>>]

Built(root, entries) ==
    IF \E i \in DOMAIN entries : Throws(root, entries[i])
    THEN Failure("unexpected")
    ELSE [error |-> "none", candidates |-> buildCandidates(root, entries)]

parseJsonFeedBody(doc) ==
    CASE ~doc.wellFormed -> Failure("invalid-json")
      [] doc.root # "jsonfeed" -> Failure("unrecognized-format")
      [] OTHER -> Built(doc.root, doc.entries)

parseXmlFeedBody(doc) ==
    CASE ~doc.wellFormed -> Failure("invalid-xml")
      [] doc.root \notin {"rss", "feed"} -> Failure("unrecognized-format")
      [] OTHER -> Built(doc.root, doc.entries)

\* parseFeed: the first character that is not blank decides.
parseFeed(doc) == IF doc.brace THEN parseJsonFeedBody(doc) ELSE parseXmlFeedBody(doc)
=============================================================================
