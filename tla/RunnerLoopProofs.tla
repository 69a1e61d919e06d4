--------------------------- MODULE RunnerLoopProofs ---------------------------
(***************************************************************************)
(* The safety properties of RunnerLoop, for any set of issues and any      *)
(* bounds.  Each comes from an inductive part of RunnerLoopInvariants; the *)
(* parts are proved in order, every one on top of those before it: types,  *)
(* the journal and the lifecycle first, then what concerns labels, pull    *)
(* requests and rounds.                                                    *)
(***************************************************************************)
EXTENDS RunnerLoopInvariants, TLAPS
-----------------------------------------------------------------------------
(***************************************************************************)
(* Types, and the issue in hand.                                           *)
(***************************************************************************)

\* The empty record and the unused pull request are a record and a pull request.
LEMMA Defaults ==
    /\ NoRun \in Run
    /\ Unused \in PullRequest
    /\ {"in-progress", "review", "blocked", "ready"} \subseteq LabelNames
    /\ "pending" \in Checks
BY DEF NoRun, Run, Statuses, NoPullRequest, Unused, PullRequest, Checks, LabelNames

\* Before the first start nothing is in hand.
LEMMA TypeInit == Init => TypeInv
<1> SUFFICES ASSUME Init PROVE TypeInv
  OBVIOUS
<1>1. /\ labels \in [Issues -> SUBSET LabelNames]
      /\ pr \in [PullRequests -> PullRequest]
      /\ journal \in [Issues -> Run]
  BY Defaults DEF Init
<1>2. TypeOK
  <2>1. stopping \in BOOLEAN
    BY Zenon DEF Init
  <2>2. pc = "down" /\ failures \in 0 .. MaxFailures
    BY ConstantsAssumption DEF Init
  <2> QED
    BY <1>1, <2>1, <2>2, Defaults DEF Init, TypeOK
<1>3. IssueInHand
  BY DEF Init, Unused, IssueInHand, Reading, Claiming, Building, Ending
<1> QED
  BY <1>2, <1>3 DEF TypeInv

\* The three ways to return from a call leave well-typed local variables.
LEMMA ReturnTypes ==
    ASSUME TypeInv,
           Exit \/ Raise \/ (Idle /\ pc' = "top" /\ UNCHANGED session)
    PROVE  /\ cur' = NoIssue /\ rec' \in Run /\ round' = 0 /\ seen' \in Checks
           /\ pending' = {} /\ gaveUp' = {} /\ pc' \in {"down", "top"}
           /\ command' \in {"none", "once", "watch"} /\ stopping' \in BOOLEAN
           /\ skip' \subseteq Issues /\ taken' \in Nat /\ failures' \in 0 .. MaxFailures
<1>1. Idle /\ pc' \in {"down", "top"}
  BY DEF Exit, Raise
<1>2. stopping' \in BOOLEAN
  BY Zenon DEF Exit, Raise, session, TypeInv, TypeOK
<1>3. CASE Exit
  BY <1>1, <1>2, <1>3, Defaults, ConstantsAssumption DEF Exit, Idle
<1>4. CASE Raise /\ ~Exit
  BY <1>1, <1>2, <1>4, Defaults, ConstantsAssumption
     DEF Raise, Exhausted, Idle, TypeInv, TypeOK
<1>5. CASE Idle /\ pc' = "top" /\ UNCHANGED session
  BY <1>1, <1>2, <1>5, Defaults DEF Idle, session, TypeInv, TypeOK
<1> QED
  BY <1>3, <1>4, <1>5

\* Failing an issue writes a well-typed record.
LEMMA FailTypes ==
    ASSUME TypeInv, NEW r \in Run, Fail(r)
    PROVE  /\ rec' \in Run /\ journal' \in [Issues -> Run]
           /\ pc' = "escalate" /\ round' = round
<1>1. [r EXCEPT !.status = "blocked"] \in Run
  BY DEF Run, Statuses
<1> QED
  BY <1>1 DEF Fail, Save, TypeInv, TypeOK

\* Every step of the process, of GitHub and of the people keeps the types.
LEMMA TypeStep == TypeInv /\ [Next]_vars => TypeInv'
<1> SUFFICES ASSUME TypeInv, [Next]_vars PROVE TypeInv'
  OBVIOUS
<1> USE Defaults, ConstantsAssumption
    DEF TypeInv, TypeOK, IssueInHand, Calls, Reading, Claiming, Building, Ending,
        github, disk, session, work, history
<1>1. ASSUME NEW c \in Commands, Start(c) PROVE TypeInv'
  BY <1>1 DEF Start
<1>2. CASE Top
  <2>1. CASE stopping
    BY <1>2, <2>1, ReturnTypes DEF Top
  <2>2. CASE ~stopping
    BY <1>2, <2>2 DEF Top, InFlight
  <2> QED
    BY <2>1, <2>2
<1>3. ASSUME NEW i \in Issues, Observe(i) PROVE TypeInv'
  <2>1. [journal[i] EXCEPT !.status = "done"] \in Run
    BY DEF Run, Statuses
  <2>2. journal[i].pr # NoPullRequest => pr[journal[i].pr].checks \in Checks
    BY DEF Run, PullRequest
  <2> QED
    BY <1>3, <2>1, <2>2 DEF Observe, NextRecord, Save
<1>4. CASE Steer
  <2>1. /\ cur \in Issues
        /\ journal[cur].pr \in PullRequests
    BY <1>4 DEF Steer, Run
  <2>2. /\ CountRedRound(journal[cur]) \in Run
        /\ [journal[cur] EXCEPT !.status = "blocked"] \in Run
    BY <2>1 DEF CountRedRound, Run, Statuses
  <2>3. /\ pr' \in [PullRequests -> PullRequest]
        /\ \A n \in PullRequests : pr'[n].state = pr[n].state /\ pr'[n].issue = pr[n].issue
    BY <1>4, <2>1 DEF Steer, UpdateBranch, FallThrough, PullRequest, Checks
  <2>4. journal' \in [Issues -> Run]
    BY <1>4, <2>2 DEF Steer, Save
  <2> QED
    BY <1>4, <2>1, <2>3, <2>4 DEF Steer, NextRecord
<1>5. CASE Take
  BY <1>5, ReturnTypes DEF Take, Idle
<1>6. CASE Resume
  BY <1>6 DEF Resume, InFlight
<1>7. CASE ReadPullRequest
  <2>1. pr[journal[cur].pr].checks \in Checks
    BY <1>7 DEF ReadPullRequest, Run, PullRequest
  <2> QED
    BY <1>7, <2>1, ReturnTypes DEF ReadPullRequest
<1>8. CASE Mergeable
  BY <1>8, ReturnTypes DEF Mergeable
<1>9. CASE Reissue
  BY <1>9 DEF Reissue, ResumeRound, Run
<1>10. CASE Select
  BY <1>10, ReturnTypes DEF Select
<1>11. CASE Claim
  BY <1>11 DEF Claim, LabelStep, AddLabel
<1>12. CASE Unready
  BY <1>12 DEF Unready, LabelStep, RemoveLabel
<1>13. CASE Open
  BY <1>13 DEF Open, Save, Run, Statuses
<1>14. CASE Prepare
  BY <1>14, FailTypes DEF Prepare
<1>15. CASE Code
  BY <1>15 DEF Code
<1>16. CASE Coded
  <2>1. [rec EXCEPT !.fixRounds = round] \in Run
    BY DEF Run
  <2> QED
    BY <1>16, <2>1, FailTypes DEF Coded, Save
<1>17. CASE Verify
  BY <1>17, FailTypes DEF Verify, NextRound
<1>18. CASE Review
  BY <1>18, FailTypes DEF Review, NextRound
<1>19. CASE Push
  <2>1. /\ pr' \in [PullRequests -> PullRequest]
        /\ \A n \in PullRequests : pr'[n].state = pr[n].state /\ pr'[n].issue = pr[n].issue
    <3>1. ASSUME NEW conflict \in {"resolved", "remains"}, NEW n \in PullRequests,
                 NEW p, p = [pr[n] EXCEPT !.checks = "pending",
                                !.merge = IF conflict = "resolved" THEN "clean" ELSE @]
          PROVE  p \in PullRequest /\ p.state = pr[n].state /\ p.issue = pr[n].issue
      BY <3>1 DEF PullRequest, Checks
    <3>2. CASE pr' = pr
      BY <3>2
    <3>3. CASE pr' # pr
      <4>1. PICK conflict \in {"resolved", "remains"} :
              pr' = [n \in PullRequests |->
                        IF pr[n].issue = cur /\ pr[n].state = "open"
                        THEN [pr[n] EXCEPT !.checks = "pending",
                                !.merge = IF conflict = "resolved" THEN "clean" ELSE @]
                        ELSE pr[n]]
        BY <1>19, <3>3 DEF Push
      <4>2. ASSUME NEW n \in PullRequests
            PROVE  /\ pr'[n] \in PullRequest
                   /\ pr'[n].state = pr[n].state /\ pr'[n].issue = pr[n].issue
        BY <3>1, <4>1
      <4> QED
        BY <4>1, <4>2
    <3> QED
      BY <3>2, <3>3
  <2> QED
    BY <1>19, <2>1, FailTypes DEF Push
<1>20. CASE Lookup
  BY <1>20 DEF Lookup, NewestOpen, Adopt, Run
<1>21. CASE Create
  BY <1>21 DEF Create, NextNumber, OpenPullRequest, Adopt, Run, PullRequest, Checks
<1>22. CASE Publish
  BY <1>22 DEF Publish, Save, Run, Statuses
<1>23. CASE Unclaim
  BY <1>23 DEF Unclaim, LabelStep, RemoveLabel
<1>24. ASSUME pc \in Ending, NEW b \in BOOLEAN, Return(b), UNCHANGED <<closed, pr, disk, history>>,
              labels' \in [Issues -> SUBSET LabelNames]
       PROVE TypeInv'
  BY <1>24, ReturnTypes DEF Return, Idle
<1>25. CASE HandOver
  BY <1>24, <1>25 DEF HandOver, AddLabel, LabelNames
<1>26. CASE Escalate
  BY <1>26 DEF Escalate, LabelStep, RemoveLabel
<1>27. CASE Escalated
  BY <1>27 DEF Escalated, LabelStep, AddLabel
<1>28. CASE Comment
  BY <1>24, <1>28 DEF Comment, NextRecord
<1>29. CASE Throw
  <2>1. labels' \in [Issues -> SUBSET LabelNames]
    BY <1>29 DEF Throw, LateEffect, AddLabel, RemoveLabel
  <2>2. /\ pr' \in [PullRequests -> PullRequest]
        /\ \A n \in PullRequests : pr'[n].state # "unused" => pr'[n].issue \in Issues
    <3>1. ASSUME NEW n \in NextNumber, OpenPullRequest(n), pc = "create" PROVE <2>2!1 /\ <2>2!2
      BY <3>1 DEF NextNumber, OpenPullRequest, PullRequest, Checks
    <3> QED
      BY <1>29, <3>1 DEF Throw, LateEffect
  <2> QED
    BY <1>29, <2>1, <2>2, ReturnTypes DEF Throw
<1>30. CASE Kill
  BY <1>30, ReturnTypes DEF Kill
<1>31. CASE Tear
  BY <1>31, ReturnTypes DEF Tear
<1>32. CASE Signal
  BY <1>32 DEF Signal
<1>33. ASSUME NEW n \in PullRequests, ChecksReport(n) \/ BaseMoves(n) \/ Close(n)
       PROVE  TypeInv'
  BY <1>33
     DEF ChecksReport, BaseMoves, Close, Finished, UnchangedProcess, PullRequest, Checks
<1>34. ASSUME NEW n \in PullRequests, Merge(n) PROVE TypeInv'
  BY <1>34 DEF Merge, Finished, UnchangedProcess, PullRequest, Checks
<1>35. ASSUME NEW i \in Issues, Requeue(i) PROVE TypeInv'
  BY <1>35 DEF Requeue, UnchangedProcess
<1>36. CASE UNCHANGED vars
  BY <1>36 DEF vars
<1> HIDE DEF TypeInv
<1> QED
  BY <1>1, <1>2, <1>3, <1>4, <1>5, <1>6, <1>7, <1>8, <1>9, <1>10, <1>11, <1>12, <1>13,
     <1>14, <1>15, <1>16, <1>17, <1>18, <1>19, <1>20, <1>21, <1>22, <1>23, <1>25, <1>26,
     <1>27, <1>28, <1>29, <1>30, <1>31, <1>32, <1>33, <1>34, <1>35, <1>36
     DEF Next, Process, GitHub, Advance, RunOnce, WorkIssue, GiveUp

\* Every variable keeps its type.
THEOREM TypeCorrect == Spec => []TypeOK
<1>1. Spec => []TypeInv
  BY TypeInit, TypeStep, PTL DEF Spec
<1> QED
  BY <1>1, PTL DEF TypeInv

-----------------------------------------------------------------------------
(***************************************************************************)
(* One issue in flight, and what the process knows of the journal.         *)
(***************************************************************************)

\* Only what is saved can change what is in flight.
LEMMA InFlightSame == journal' = journal => InFlight' = InFlight
BY DEF InFlight, IsInFlight

\* upsertRun replaces the record of one issue: at most that issue is in flight anew.
LEMMA InFlightSaved ==
    ASSUME TypeInv, NEW i \in Issues, NEW r \in Run, Save(i, r)
    PROVE  /\ journal'[i] = r
           /\ \A j \in Issues \ {i} : journal'[j] = journal[j]
           /\ InFlight' = IF IsInFlight(r) THEN InFlight \cup {i} ELSE InFlight \ {i}
<1>1. /\ journal'[i] = r
      /\ \A j \in Issues \ {i} : journal'[j] = journal[j]
  BY DEF Save, TypeInv, TypeOK
<1> QED
  BY <1>1 DEF InFlight, IsInFlight

\* Failing an issue takes it out of flight.
LEMMA InFlightFailed ==
    ASSUME TypeInv, cur \in Issues, NEW r \in Run, Fail(r)
    PROVE  /\ InFlight' = InFlight \ {cur}
           /\ rec'.status = "blocked" /\ rec' = journal'[cur] /\ pc' = "escalate"
           /\ \A j \in Issues \ {cur} : journal'[j] = journal[j]
<1>1. /\ [r EXCEPT !.status = "blocked"] \in Run
      /\ [r EXCEPT !.status = "blocked"].status = "blocked"
  BY DEF Run, Statuses
<1> QED
  BY <1>1, InFlightSaved DEF Fail, IsInFlight

\* A process that ends or starts over knows nothing.
LEMMA SerialReturn ==
    ASSUME SerialInv, InFlight' \subseteq InFlight, pc' \in {"down", "top"}
    PROVE  SerialInv'
BY DEF SerialInv, OneInFlight, KnowsJournal, PendingInFlight,
       Reading, Claiming, Building, Ending

\* Nor does it lose what it knows when others act.
LEMMA SerialFrame ==
    ASSUME SerialInv, UNCHANGED <<journal, pc, cur, rec, pending>>
    PROVE  SerialInv'
BY InFlightSame DEF SerialInv, OneInFlight, KnowsJournal, PendingInFlight, Working

\* An empty journal has nothing in flight.
LEMMA SerialInit == Init => SerialInv
<1> SUFFICES ASSUME Init PROVE SerialInv
  OBVIOUS
<1>1. InFlight = {}
  BY DEF Init, InFlight, IsInFlight, NoRun
<1> QED
  BY <1>1 DEF Init, SerialInv, OneInFlight, KnowsJournal, PendingInFlight,
              Reading, Claiming, Building, Ending

\* advance: it changes only records in flight, and takes new work only when there
\* are none.
LEMMA SerialAdvance == TypeInv /\ SerialInv /\ Advance => SerialInv'
<1> SUFFICES ASSUME TypeInv, SerialInv, Advance PROVE SerialInv'
  OBVIOUS
<1> USE DEF Reading, Claiming, Building, Ending
<1>1. CASE Top
  BY <1>1, InFlightSame, SerialReturn
     DEF Top, Exit, disk, SerialInv, OneInFlight, KnowsJournal, PendingInFlight
<1>2. ASSUME NEW i \in Issues, Observe(i) PROVE SerialInv'
  <2>1. i \in InFlight /\ pending \subseteq InFlight
    BY <1>2 DEF Observe, SerialInv, PendingInFlight
  <2>2. CASE UNCHANGED disk
    BY <1>2, <2>1, <2>2, InFlightSame
       DEF Observe, disk, NextRecord, SerialInv, OneInFlight, KnowsJournal, PendingInFlight
  <2>3. CASE Save(i, [journal[i] EXCEPT !.status = "done"]) /\ NextRecord(i)
    <3>1. /\ [journal[i] EXCEPT !.status = "done"] \in Run
          /\ [journal[i] EXCEPT !.status = "done"].status = "done"
      BY DEF TypeInv, TypeOK, Run, Statuses
    <3>2. InFlight' = InFlight \ {i}
      BY <2>3, <3>1, InFlightSaved DEF IsInFlight
    <3> QED
      BY <2>1, <2>3, <3>2
         DEF NextRecord, SerialInv, OneInFlight, KnowsJournal, PendingInFlight
  <2> QED
    BY <1>2, <2>2, <2>3 DEF Observe, disk
<1>3. CASE Steer
  <2>1. cur \in InFlight /\ cur \in Issues /\ pending \subseteq InFlight
    BY <1>3 DEF Steer, SerialInv, KnowsJournal, PendingInFlight, TypeInv, IssueInHand
  <2>2. CASE UNCHANGED journal
    BY <1>3, <2>1, <2>2, InFlightSame
       DEF Steer, NextRecord, SerialInv, OneInFlight, KnowsJournal, PendingInFlight
  <2>3. CASE Save(cur, CountRedRound(journal[cur])) /\ NextRecord(cur)
    <3>1. /\ CountRedRound(journal[cur]) \in Run
          /\ CountRedRound(journal[cur]).status = journal[cur].status
      BY <2>1 DEF CountRedRound, TypeInv, TypeOK, Run
    <3>2. InFlight' = InFlight
      BY <2>1, <2>3, <3>1, InFlightSaved DEF InFlight, IsInFlight
    <3> QED
      BY <2>1, <2>3, <3>2
         DEF NextRecord, SerialInv, OneInFlight, KnowsJournal, PendingInFlight
  <2>4. CASE /\ Save(cur, [journal[cur] EXCEPT !.status = "blocked"])
             /\ pc' = "escalate"
             /\ UNCHANGED <<pending, cur, seen, rec>>
    <3>1. /\ [journal[cur] EXCEPT !.status = "blocked"] \in Run
          /\ [journal[cur] EXCEPT !.status = "blocked"].status = "blocked"
      BY <2>1 DEF TypeInv, TypeOK, Run, Statuses
    <3>2. InFlight' = InFlight \ {cur}
      BY <2>1, <2>4, <3>1, InFlightSaved DEF IsInFlight
    <3> QED
      BY <2>1, <2>4, <3>2 DEF SerialInv, OneInFlight, KnowsJournal, PendingInFlight
  <2> QED
    BY <1>3, <2>2, <2>3, <2>4 DEF Steer, Save
<1>4. CASE Take
  BY <1>4, InFlightSame
     DEF Take, Exit, Idle, disk, NothingOutstanding,
         SerialInv, OneInFlight, KnowsJournal, PendingInFlight
<1> QED
  BY <1>1, <1>2, <1>3, <1>4 DEF Advance

\* runOnce: what is resumed is the one issue in flight; selection needs none.
LEMMA SerialRunOnce == TypeInv /\ SerialInv /\ RunOnce => SerialInv'
<1> SUFFICES ASSUME TypeInv, SerialInv, RunOnce PROVE SerialInv'
  OBVIOUS
<1>1. InFlight' = InFlight
  BY InFlightSame
     DEF RunOnce, Resume, ReadPullRequest, Mergeable, Reissue, Select, disk
<1>2. CASE Exit
  BY <1>1, <1>2, SerialReturn DEF Exit
<1>3. CASE ~Exit
  BY <1>1, <1>3
     DEF RunOnce, Resume, ReadPullRequest, Mergeable, Reissue, Select, session, work, disk,
         Reading, Claiming, Building, Ending,
         SerialInv, OneInFlight, KnowsJournal, PendingInFlight
<1> QED
  BY <1>2, <1>3

\* workIssue, up to the publication of its result.
LEMMA SerialWorkIssue == TypeInv /\ SerialInv /\ WorkIssue => SerialInv'
<1> SUFFICES ASSUME TypeInv, SerialInv, WorkIssue PROVE SerialInv'
  OBVIOUS
<1>1. cur \in Issues /\ rec \in Run
  BY DEF TypeInv, TypeOK, IssueInHand, Claiming, Building, Ending, WorkIssue, Claim, Unready,
         LabelStep, Open, Prepare, Code, Coded, Verify, Review, Push, Lookup, Create,
         Publish, Unclaim, HandOver
<1> USE <1>1 DEF Reading, Claiming, Building, Ending
<1>2. CASE Claim \/ Unready
  BY <1>2, InFlightSame
     DEF Claim, Unready, LabelStep, disk, work, Working,
         SerialInv, OneInFlight, KnowsJournal, PendingInFlight
<1>3. CASE Open
  <2>1. /\ [journal[cur] EXCEPT !.status = "in-progress"] \in Run
        /\ [journal[cur] EXCEPT !.status = "in-progress"].status = "in-progress"
    BY DEF TypeInv, TypeOK, Run, Statuses
  <2>2. InFlight' = InFlight \cup {cur} /\ journal'[cur] = rec' /\ rec'.status = "in-progress"
    BY <1>3, <2>1, InFlightSaved DEF Open, IsInFlight
  <2> QED
    BY <1>3, <2>2 DEF Open, SerialInv, OneInFlight, KnowsJournal, PendingInFlight
\* A step of a round leaves the status alone, or fails the issue.
<1>4. ASSUME pc \in Building, NEW r \in Run, Fail(r) PROVE SerialInv'
  BY <1>4, InFlightFailed DEF SerialInv, OneInFlight, KnowsJournal, PendingInFlight,
                              Working, NoRun
<1>5. ASSUME pc \in Building, pc' \in Building, cur' = cur, rec'.status = rec.status,
             journal' = journal \/ Save(cur, rec'), rec' \in Run
      PROVE  SerialInv'
  <2>1. journal'[cur].status = "in-progress" /\ rec'.status = "in-progress"
    BY <1>5, InFlightSaved DEF SerialInv, KnowsJournal
  <2>2. InFlight' = InFlight
    BY <1>5, <2>1, InFlightSame, InFlightSaved
       DEF SerialInv, KnowsJournal, InFlight, IsInFlight
  <2> QED
    BY <1>5, <2>1, <2>2 DEF SerialInv, OneInFlight, KnowsJournal, PendingInFlight
<1>6. CASE Prepare \/ Verify \/ Review \/ Push
  BY <1>4, <1>5, <1>6 DEF Prepare, Verify, Review, Push, NextRound
<1>7. CASE Code
  BY <1>5, <1>7 DEF Code, work
<1>8. CASE Coded
  <2>1. /\ [rec EXCEPT !.fixRounds = round] \in Run
        /\ [rec EXCEPT !.fixRounds = round].status = rec.status
    BY DEF TypeInv, TypeOK, Run
  <2> QED
    BY <1>4, <1>5, <1>8, <2>1 DEF Coded
<1>9. CASE Lookup \/ Create
  <2>1. \A n \in PullRequests : Adopt(n) \in Run /\ Adopt(n).status = rec.status
    BY DEF Adopt, Run
  <2> QED
    BY <1>5, <1>9, <2>1 DEF Lookup, Create, NewestOpen, NextNumber, disk
<1>10. CASE Publish
  <2>1. /\ [rec EXCEPT !.status = "awaiting-review"] \in Run
        /\ [rec EXCEPT !.status = "awaiting-review"].status = "awaiting-review"
    BY DEF Run, Statuses
  <2>2. InFlight' = InFlight \cup {cur} /\ rec'.status = "awaiting-review" 
    BY <1>10, <2>1, InFlightSaved DEF Publish, IsInFlight
  <2>3. cur \in InFlight
    BY <1>10 DEF Publish, SerialInv, KnowsJournal, InFlight, IsInFlight
  <2> QED
    BY <1>10, <2>2, <2>3
       DEF Publish, SerialInv, OneInFlight, KnowsJournal, PendingInFlight, Working, NoRun
<1>11. CASE Unclaim
  BY <1>11, InFlightSame
     DEF Unclaim, LabelStep, disk, work, Working,
         SerialInv, OneInFlight, KnowsJournal, PendingInFlight
<1>12. CASE HandOver
  BY <1>12, InFlightSame, SerialReturn DEF HandOver, Return, Exit, disk
<1> QED
  BY <1>2, <1>3, <1>6, <1>7, <1>8, <1>9, <1>10, <1>11, <1>12 DEF WorkIssue

\* Every step keeps at most one issue in flight.
LEMMA SerialStep == TypeInv /\ SerialInv /\ [Next]_vars => SerialInv'
<1> SUFFICES ASSUME TypeInv, SerialInv, [Next]_vars PROVE SerialInv'
  OBVIOUS
<1>1. CASE GiveUp
  <2>1. InFlight' = InFlight
    BY <1>1, InFlightSame DEF GiveUp, Escalate, Escalated, Comment, LabelStep, disk
  <2>2. CASE Escalate \/ Escalated
    BY <2>1, <2>2
       DEF Escalate, Escalated, LabelStep, work, Working, Reading, Claiming, Building, Ending,
           SerialInv, OneInFlight, KnowsJournal, PendingInFlight
  <2>3. CASE Comment /\ Working
    BY <2>1, <2>3, SerialReturn DEF Comment, Return, Exit
  <2>4. CASE Comment /\ ~Working
    BY <2>1, <2>4
       DEF Comment, NextRecord, Reading, Claiming, Building, Ending,
           SerialInv, OneInFlight, KnowsJournal, PendingInFlight
  <2> QED
    BY <1>1, <2>2, <2>3, <2>4 DEF GiveUp
<1>2. CASE Throw
  BY <1>2, InFlightSame, SerialReturn DEF Throw, Raise, Exit, disk
<1>3. ASSUME NEW c \in Commands, Start(c) PROVE SerialInv'
  BY <1>3, InFlightSame
     DEF Start, disk, Reading, Claiming, Building, Ending,
         SerialInv, OneInFlight, KnowsJournal, PendingInFlight
<1>4. CASE Kill
  BY <1>4, InFlightSame, SerialReturn DEF Kill, Exit, disk
<1>5. CASE Tear
  <2>1. InFlight' = {}
    BY <1>5 DEF Tear, InFlight, IsInFlight, NoRun
  <2> QED
    BY <1>5, <2>1, SerialReturn DEF Tear, Exit
<1>6. CASE Signal \/ GitHub
  BY <1>6, SerialFrame
     DEF Signal, GitHub, ChecksReport, BaseMoves, Merge, Close, Requeue, UnchangedProcess,
         disk, work
<1>7. CASE UNCHANGED vars
  BY <1>7, SerialFrame DEF vars, disk, work
<1> QED
  BY <1>1, <1>2, <1>3, <1>4, <1>5, <1>6, <1>7, SerialAdvance, SerialRunOnce, SerialWorkIssue
     DEF Next, Process

\* The runner works on one issue at a time, across sessions, kills, lost calls and
\* torn journals ("Serial by choice", runUnattended).
THEOREM OneInFlightAlways == Spec => []OneInFlight
<1>1. Spec => [](TypeInv /\ SerialInv)
  BY TypeInit, TypeStep, SerialInit, SerialStep, PTL DEF Spec
<1> QED
  BY <1>1, PTL DEF SerialInv

-----------------------------------------------------------------------------
(***************************************************************************)
(* The journal implements IssueLifecycle.                                  *)
(***************************************************************************)

\* The status of every record is the phase of its issue.
Phase == [i \in Issues |-> journal[i].status]

\* Saving a record (upsertRun) moves one issue to the status of that record.
LEMMA PhaseSaved ==
    ASSUME TypeInv, NEW i \in Issues, NEW r \in Run, Save(i, r)
    PROVE  Phase' = [Phase EXCEPT ![i] = r.status]
BY InFlightSaved DEF Phase

\* What inFlight lists is what the life cycle calls active.
LEMMA ActiveIsInFlight == Lifecycle!Active = InFlight
BY DEF Lifecycle!Active, Lifecycle!ActivePhases, InFlight, IsInFlight

\* A record in flight that is blocked is an issue given up.
LEMMA BlockedIsGivenUp ==
    ASSUME TypeInv, NEW i \in InFlight, NEW r \in Run, r.status = "blocked", Save(i, r)
    PROVE  Lifecycle!Next
<1>1. Lifecycle!GiveUp(i)
  BY PhaseSaved
     DEF InFlight, IsInFlight, Phase, Lifecycle!GiveUp, Lifecycle!Move, Lifecycle!ActivePhases
<1> QED
  BY <1>1 DEF InFlight, Lifecycle!Next

\* Every step of the system is a step of the life cycle, or leaves it alone.
LEMMA LifecycleStep ==
    TypeInv /\ SerialInv /\ [Next]_vars => Lifecycle!Next \/ Phase' = Phase
<1> SUFFICES ASSUME TypeInv, SerialInv, [Next]_vars,
                    journal' # journal
             PROVE  Lifecycle!Next \/ Phase' = Phase
  BY DEF Phase
<1> USE DEF Reading, Claiming, Building, Ending
<1>1. ASSUME NEW i \in Issues, Observe(i) PROVE Lifecycle!Next
  <2>1. i \in InFlight
    BY <1>1 DEF Observe, SerialInv, PendingInFlight
  <2>2. /\ [journal[i] EXCEPT !.status = "done"] \in Run
        /\ [journal[i] EXCEPT !.status = "done"].status = "done"
    BY DEF TypeInv, TypeOK, Run, Statuses
  <2>3. Phase' = [Phase EXCEPT ![i] = "done"]
    BY <1>1, <2>2, PhaseSaved DEF Observe, disk
  <2>4. Lifecycle!Settle(i)
    BY <2>1, <2>3
       DEF InFlight, IsInFlight, Phase, Lifecycle!Settle, Lifecycle!Move, Lifecycle!ActivePhases
  <2> QED
    BY <2>4 DEF Lifecycle!Next
<1>2. CASE Steer
  <2>1. cur \in InFlight /\ cur \in Issues
    BY <1>2 DEF Steer, SerialInv, KnowsJournal, TypeInv, IssueInHand
  <2>2. CASE Save(cur, CountRedRound(journal[cur]))
    <3>1. /\ CountRedRound(journal[cur]) \in Run
          /\ CountRedRound(journal[cur]).status = journal[cur].status
      BY <2>1 DEF CountRedRound, TypeInv, TypeOK, Run
    <3> QED
      BY <2>1, <2>2, <3>1, PhaseSaved DEF Phase
  <2>3. CASE Save(cur, [journal[cur] EXCEPT !.status = "blocked"])
    <3>1. /\ [journal[cur] EXCEPT !.status = "blocked"] \in Run
          /\ [journal[cur] EXCEPT !.status = "blocked"].status = "blocked"
      BY <2>1 DEF TypeInv, TypeOK, Run, Statuses
    <3> QED
      BY <2>1, <2>3, <3>1, BlockedIsGivenUp
  <2> QED
    BY <1>2, <2>2, <2>3 DEF Steer
\* The claim reaches the journal: a new issue, or a published one taken back.
<1>3. CASE Open
  <2>0. PICK i \in Issues : i = cur
    BY <1>3 DEF Open, TypeInv, IssueInHand
  <2>1. /\ [journal[cur] EXCEPT !.status = "in-progress"] \in Run
        /\ [journal[cur] EXCEPT !.status = "in-progress"].status = "in-progress"
    BY <1>3, <2>0 DEF Open, TypeInv, TypeOK, IssueInHand, Run, Statuses
  <2>2. Phase' = [Phase EXCEPT ![cur] = "in-progress"]
    BY <1>3, <2>0, <2>1, PhaseSaved DEF Open
  <2>3. Phase[cur] = journal[cur].status /\ Phase[cur] \in Lifecycle!Phases
    BY <2>0, <2>1 DEF Phase, TypeInv, TypeOK, Run, Statuses, Lifecycle!Phases
  <2>4. CASE cur \notin InFlight
    <3>1. InFlight = {}
      BY <1>3, <2>0, <2>4 DEF Open, SerialInv, KnowsJournal
    <3>2. Lifecycle!Claim(i)
      BY <2>0, <2>1, <2>2, <2>3, <3>1, ActiveIsInFlight DEF Phase, Lifecycle!Claim, Lifecycle!Move
    <3> QED
      BY <2>0, <2>1, <3>2 DEF Lifecycle!Next
  <2>5. CASE Phase[cur] = "awaiting-review"
    <3>1. Lifecycle!Resume(i)
      BY <2>0, <2>1, <2>2, <2>5 DEF Phase, Lifecycle!Resume, Lifecycle!Move
    <3> QED
      BY <2>0, <2>1, <3>1 DEF Lifecycle!Next
  <2>6. CASE Phase[cur] = "in-progress"
    BY <2>0, <2>2, <2>6 DEF Phase
  <2> QED
    BY <2>0, <2>1, <2>3, <2>4, <2>5, <2>6 DEF InFlight, IsInFlight
<1>4. ASSUME pc \in Building, NEW r \in Run, Fail(r) PROVE Lifecycle!Next
  <2>1. cur \in InFlight
    BY <1>4 DEF SerialInv, KnowsJournal, TypeInv, IssueInHand, InFlight, IsInFlight
  <2>2. /\ [r EXCEPT !.status = "blocked"] \in Run
        /\ [r EXCEPT !.status = "blocked"].status = "blocked"
    BY DEF Run, Statuses
  <2> QED
    BY <1>4, <2>1, <2>2, BlockedIsGivenUp DEF Fail
<1>5. CASE Prepare \/ Verify \/ Review \/ Push
  BY <1>4, <1>5 DEF Prepare, Verify, Review, Push, NextRound, TypeInv, TypeOK
<1>6. CASE Coded
  <2>1. /\ [rec EXCEPT !.fixRounds = round] \in Run
        /\ [rec EXCEPT !.fixRounds = round].status = rec.status
        /\ rec.status = journal[cur].status /\ cur \in Issues
    BY <1>6 DEF Coded, TypeInv, TypeOK, IssueInHand, SerialInv, KnowsJournal, Run
  <2>2. CASE Save(cur, [rec EXCEPT !.fixRounds = round])
    BY <2>1, <2>2, PhaseSaved DEF Phase
  <2> QED
    BY <1>4, <1>6, <2>1, <2>2 DEF Coded
<1>7. CASE Publish
  <2>1. PICK i \in Issues : i = cur
    BY <1>7 DEF Publish, TypeInv, IssueInHand
  <2>2. /\ [rec EXCEPT !.status = "awaiting-review"] \in Run
        /\ [rec EXCEPT !.status = "awaiting-review"].status = "awaiting-review"
        /\ journal[cur].status = "in-progress"
    BY <1>7 DEF Publish, TypeInv, TypeOK, SerialInv, KnowsJournal, Run, Statuses
  <2>3. Lifecycle!Publish(i)
    BY <1>7, <2>1, <2>2, PhaseSaved DEF Publish, Phase, Lifecycle!Publish, Lifecycle!Move
  <2> QED
    BY <2>3 DEF Lifecycle!Next
<1>8. CASE Tear
  BY <1>8 DEF Tear, NoRun, Lifecycle!Next, Lifecycle!Forget
<1>9. CASE Top \/ Take \/ RunOnce \/ Throw \/ Kill \/ Signal \/ GitHub \/ GiveUp
  BY <1>9
     DEF Top, Take, RunOnce, Resume, ReadPullRequest, Mergeable, Reissue, Select,
         Throw, Kill, Signal, GitHub, ChecksReport, BaseMoves, Merge, Close, Requeue,
         UnchangedProcess, GiveUp, Escalate, Escalated, Comment, LabelStep, disk
<1>10. CASE Claim \/ Unready \/ Code \/ Lookup \/ Create \/ Unclaim \/ HandOver
  BY <1>10 DEF Claim, Unready, Code, Lookup, Create, Unclaim, HandOver, LabelStep, disk
<1>11. ASSUME NEW c \in Commands, Start(c) PROVE FALSE
  BY <1>11 DEF Start, disk
<1>12. CASE UNCHANGED vars
  BY <1>12 DEF vars, disk
<1> QED
  BY <1>1, <1>2, <1>3, <1>5, <1>6, <1>7, <1>8, <1>9, <1>10, <1>11, <1>12
     DEF Next, Process, Advance, WorkIssue

\* The journal, whatever is done to GitHub in between, goes through the life cycle:
\* a claim only with nothing active, a verdict only on something active.
THEOREM Refinement == Spec => ImplementsLifecycle
<1>1. Init => Lifecycle!Init
  BY DEF Init, NoRun, Lifecycle!Init
<1>2. TypeInv /\ SerialInv /\ [Next]_vars
        => [Lifecycle!Next]_[i \in Issues |-> journal[i].status]
  BY LifecycleStep DEF Phase
<1> QED
  BY <1>1, <1>2, TypeInit, TypeStep, SerialInit, SerialStep, PTL
     DEF Spec, ImplementsLifecycle, Lifecycle!Spec

-----------------------------------------------------------------------------
(***************************************************************************)
(* What a step can do to one record of the journal.                        *)
(***************************************************************************)

\* A record is forgotten with the whole journal, retired or blocked while in
\* flight, has a red round counted, or is written by workIssue on the issue in hand.
LEMMA JournalStep ==
    ASSUME TypeInv, SerialInv, [Next]_vars, NEW i \in Issues
    PROVE  \/ journal'[i] = journal[i]
           \/ journal'[i] = NoRun
           \/ i \in InFlight /\ journal'[i].status \in {"done", "blocked"}
           \/ i \in InFlight /\ journal'[i] = CountRedRound(journal[i])
           \/ i = cur /\ pc = "open" /\ journal'[i] = [journal[i] EXCEPT !.status = "in-progress"]
           \/ i = cur /\ pc = "coding" /\ journal'[i] = [rec EXCEPT !.fixRounds = round]
           \/ i = cur /\ pc = "publish" /\ journal'[i] = [rec EXCEPT !.status = "awaiting-review"]
<1> DEFINE Goal == \/ journal'[i] = journal[i]
                   \/ journal'[i] = NoRun
                   \/ i \in InFlight /\ journal'[i].status \in {"done", "blocked"}
                   \/ i \in InFlight /\ journal'[i] = CountRedRound(journal[i])
                   \/ /\ i = cur /\ pc = "open"
                      /\ journal'[i] = [journal[i] EXCEPT !.status = "in-progress"]
                   \/ /\ i = cur /\ pc = "coding"
                      /\ journal'[i] = [rec EXCEPT !.fixRounds = round]
                   \/ /\ i = cur /\ pc = "publish"
                      /\ journal'[i] = [rec EXCEPT !.status = "awaiting-review"]
<1>1. ASSUME NEW j \in Issues, NEW r, Save(j, r)
      PROVE  journal'[j] = r /\ (i # j => journal'[i] = journal[i])
  BY <1>1 DEF Save, TypeInv, TypeOK
<1>2. \A r \in Run : [r EXCEPT !.status = "blocked"].status = "blocked"
  BY DEF Run
<1>3. ASSUME NEW j \in Issues, Observe(j) PROVE Goal
  <2>1. [journal[j] EXCEPT !.status = "done"].status = "done"
    BY DEF TypeInv, TypeOK, Run
  <2> QED
    BY <1>1, <1>3, <2>1 DEF Observe, disk, SerialInv, PendingInFlight
<1>4. CASE Steer
  <2>1. cur \in InFlight /\ cur \in Issues /\ journal[cur] \in Run
    BY <1>4 DEF Steer, SerialInv, KnowsJournal, TypeInv, TypeOK, IssueInHand
  <2> QED
    BY <1>1, <1>2, <1>4, <2>1 DEF Steer
<1>5. CASE Open
  BY <1>1, <1>5 DEF Open, TypeInv, IssueInHand, Claiming
<1>6. ASSUME pc \in Building, NEW r \in Run, Fail(r) PROVE Goal
  <2>1. cur \in InFlight /\ cur \in Issues
    BY <1>6 DEF SerialInv, KnowsJournal, TypeInv, IssueInHand, Building, InFlight, IsInFlight
  <2> QED
    BY <1>1, <1>2, <1>6, <2>1 DEF Fail
<1>7. CASE Prepare \/ Verify \/ Review \/ Push
  BY <1>6, <1>7 DEF Prepare, Verify, Review, Push, NextRound, Building, TypeInv, TypeOK
<1>8. CASE Coded
  <2>1. [rec EXCEPT !.fixRounds = round] \in Run
    BY DEF TypeInv, TypeOK, Run
  <2>2. cur \in Issues /\ pc \in Building
    BY <1>8 DEF Coded, TypeInv, IssueInHand, Building
  <2> QED
    BY <1>1, <1>6, <1>8, <2>1, <2>2 DEF Coded
<1>9. CASE Publish
  BY <1>1, <1>9 DEF Publish, TypeInv, IssueInHand, Building
<1>10. CASE Tear
  BY <1>10 DEF Tear
<1>11. CASE Top \/ Take \/ RunOnce \/ Throw \/ Kill \/ Signal \/ GitHub \/ GiveUp
  BY <1>11
     DEF Top, Take, RunOnce, Resume, ReadPullRequest, Mergeable, Reissue, Select,
         Throw, Kill, Signal, GitHub, ChecksReport, BaseMoves, Merge, Close, Requeue,
         UnchangedProcess, GiveUp, Escalate, Escalated, Comment, LabelStep, disk
<1>12. CASE Claim \/ Unready \/ Code \/ Lookup \/ Create \/ Unclaim \/ HandOver
  BY <1>12 DEF Claim, Unready, Code, Lookup, Create, Unclaim, HandOver, LabelStep, disk
<1>13. ASSUME NEW c \in Commands, Start(c) PROVE Goal
  BY <1>13 DEF Start, disk
<1>14. CASE UNCHANGED vars
  BY <1>14 DEF vars, disk
<1> QED
  BY <1>3, <1>4, <1>5, <1>7, <1>8, <1>9, <1>10, <1>11, <1>12, <1>13, <1>14
     DEF Next, Process, Advance, WorkIssue

-----------------------------------------------------------------------------
(***************************************************************************)
(* Labels.                                                                 *)
(***************************************************************************)

\* Only a person puts an issue back on offer, and only work on the issue in hand
\* makes a branch.
LEMMA OfferStep ==
    ASSUME TypeInv, SerialInv, [Next]_vars, NEW i \in Issues
    PROVE  /\ "ready" \in labels'[i] => "ready" \in labels[i] \/ i \in requeued'
           /\ i \in requeued => i \in requeued'
           /\ i \in branches' => i \in branches \/ journal[i].status # "none"
<1> USE DEF TypeInv, TypeOK, AddLabel, RemoveLabel
<1>1. CASE Prepare \/ Code
  BY <1>1 DEF Prepare, Code, github, history, SerialInv, KnowsJournal, Building, LabelNames
<1>2. CASE Claim \/ Unready \/ Unclaim
  BY <1>2 DEF Claim, Unready, Unclaim, LabelStep, disk, history
<1>3. CASE HandOver
  BY <1>3 DEF HandOver, disk, history
<1>4. CASE Escalate \/ Escalated
  BY <1>4 DEF Escalate, Escalated, LabelStep, disk, history
<1>5. CASE Comment
  BY <1>5 DEF Comment, github, disk, history
<1>6. CASE Throw
  BY <1>6 DEF Throw, LateEffect, github, disk, history
<1>7. CASE Open \/ Coded \/ Verify \/ Review \/ Push \/ Lookup \/ Create \/ Publish
  BY <1>7 DEF Open, Coded, Verify, Review, Push, Lookup, Create, Publish, github, disk, history
<1>8. CASE Advance \/ RunOnce
  BY <1>8
     DEF Advance, Top, Observe, Steer, Take, RunOnce, Resume, ReadPullRequest, Mergeable,
         Reissue, Select, github, disk, history
<1>9. CASE Kill \/ Tear \/ Signal
  BY <1>9 DEF Kill, Tear, Signal, github, disk, history
<1>10. ASSUME NEW n \in PullRequests, ChecksReport(n) \/ BaseMoves(n) \/ Merge(n) \/ Close(n)
      PROVE  /\ "ready" \in labels'[i] => "ready" \in labels[i]
             /\ requeued' = requeued /\ branches' = branches
  BY <1>10 DEF ChecksReport, BaseMoves, Merge, Close, UnchangedProcess, disk
<1>11. ASSUME NEW j \in Issues, Requeue(j)
      PROVE  /\ "ready" \in labels'[i] => "ready" \in labels[i] \/ i \in requeued'
             /\ requeued \subseteq requeued' /\ branches' = branches
  BY <1>11 DEF Requeue, UnchangedProcess, disk
<1>12. ASSUME NEW c \in Commands, Start(c)
      PROVE  UNCHANGED <<github, disk, history>>
  BY <1>12 DEF Start
<1>13. CASE UNCHANGED vars
  BY <1>13 DEF vars, github, disk, history
<1> QED
  BY <1>1, <1>2, <1>3, <1>4, <1>5, <1>6, <1>7, <1>8, <1>9, <1>10, <1>11, <1>12, <1>13
     DEF Next, Process, WorkIssue, GiveUp, GitHub, github, disk, history

\* At first no issue has a run or a branch, so every one may be offered.
LEMMA LabelInit == Init => LabelInv
BY DEF Init, LabelInv, Claiming, NoRun

\* A claim starts from an issue in flight or from an offered one.
LEMMA LabelStepInv == TypeInv /\ SerialInv /\ LabelInv /\ [Next]_vars => LabelInv'
<1> SUFFICES ASSUME TypeInv, SerialInv, LabelInv, [Next]_vars PROVE LabelInv'
  OBVIOUS
<1> USE DEF Claiming
<1>1. ASSUME NEW i \in Issues, i \notin requeued', i \in branches' \/ journal'[i].status # "none"
      PROVE  "ready" \notin labels'[i]
  <2>1. i \notin requeued /\ ("ready" \in labels'[i] => "ready" \in labels[i])
    BY <1>1, OfferStep
  <2>2. CASE i \in branches \/ journal[i].status # "none"
    BY <2>1, <2>2 DEF LabelInv
  <2>3. CASE i = cur /\ pc = "open"
    BY <2>1, <2>3 DEF LabelInv
  <2>4. CASE journal[i].status = "none" /\ i \notin branches /\ ~(i = cur /\ pc = "open")
    <3>1. journal'[i].status # "none"
      BY <1>1, <2>4, OfferStep
    <3>2. i \notin InFlight /\ NoRun.status = "none"
      BY <2>4 DEF InFlight, IsInFlight, NoRun
    <3>3. i = cur /\ pc \in Building
      BY <2>4, <3>1, <3>2, JournalStep DEF Building
    <3> QED
      BY <2>4, <3>3 DEF SerialInv, KnowsJournal
  <2> QED
    BY <2>2, <2>3, <2>4
\* What the three calls of a claim know, when the process makes the next call.
<1>2. CASE Reissue
  <2>1. journal[cur].status # "blocked" /\ pc' = "claim" /\ UNCHANGED <<cur, journal>>
    BY <1>2 DEF Reissue, disk, SerialInv, KnowsJournal, InFlight, IsInFlight
  <2> QED
    BY <1>1, <2>1 DEF LabelInv
<1>3. CASE Select
  <2>1. journal'[cur'].status = "blocked" /\ pc' \in Claiming => cur' \in requeued'
    BY <1>3 DEF Select, Eligible, Exit, LabelInv, disk
  <2>2. pc' # "open"
    BY <1>3 DEF Select, Exit
  <2> QED
    BY <1>1, <2>1, <2>2 DEF LabelInv
<1>4. CASE Claim \/ Unready
  <2>1. UNCHANGED <<cur, journal, requeued>> /\ pc \in Claiming /\ pc' \in {"unready", "open"}
    BY <1>4 DEF Claim, Unready, LabelStep, disk, work, history
  <2>2. pc' = "open" => "ready" \notin labels'[cur']
    BY <1>4 DEF Claim, Unready, LabelStep, RemoveLabel, work, TypeInv, TypeOK, IssueInHand
  <2> QED
    BY <1>1, <2>1, <2>2 DEF LabelInv
<1>5. CASE UNCHANGED <<pc, cur, journal>>
  <2>1. pc = "open" => cur \in Issues
    BY DEF TypeInv, IssueInHand
  <2>2. pc \in Claiming => cur \in Issues
    BY DEF TypeInv, IssueInHand
  <2> QED
    BY <1>1, <1>5, <2>1, <2>2, OfferStep DEF LabelInv
<1>6. CASE pc' \notin Claiming
  BY <1>1, <1>6 DEF LabelInv
<1>7. \/ Reissue \/ Select \/ Claim \/ Unready
      \/ UNCHANGED <<pc, cur, journal>>
      \/ pc' \notin Claiming
  <2>1. CASE GitHub \/ Signal
    BY <2>1
       DEF GitHub, Signal, ChecksReport, BaseMoves, Merge, Close, Requeue, UnchangedProcess,
           disk, work
  <2>2. CASE Advance \/ GiveUp
    BY <2>2
       DEF Advance, Top, Observe, Steer, Take, NextRecord, Exit, GiveUp, Escalate, Escalated,
           Comment, Return, LabelStep
  <2>3. CASE Resume \/ ReadPullRequest \/ Mergeable
    BY <2>3 DEF Resume, ReadPullRequest, Mergeable, Exit
  <2>4. CASE WorkIssue /\ ~Claim /\ ~Unready
    BY <2>4
       DEF WorkIssue, Open, Prepare, Code, Coded, Verify, Review, Push, Lookup, Create,
           Publish, Unclaim, HandOver, LabelStep, Fail, NextRound, Return, Exit
  <2>5. CASE Throw \/ Kill \/ Tear \/ \E c \in Commands : Start(c)
    BY <2>5 DEF Throw, Raise, Kill, Tear, Start, Exit
  <2>6. CASE UNCHANGED vars
    BY <2>6 DEF vars, disk, work
  <2> QED
    BY <2>1, <2>2, <2>3, <2>4, <2>5, <2>6 DEF Next, Process, RunOnce
<1> QED
  BY <1>2, <1>3, <1>4, <1>5, <1>6, <1>7

\* What every theorem below starts from.
LEMMA LabelsKnown == Spec => [](TypeInv /\ SerialInv /\ LabelInv)
BY TypeInit, TypeStep, SerialInit, SerialStep, LabelInit, LabelStepInv, PTL DEF Spec

\* Until a person re-queues it, an issue that selection would take has no worktree,
\* no branch and no run ("an issue that looks available but has a half-finished
\* branch behind it", workIssue).
THEOREM NeverLooksAvailableAlways == Spec => []NeverLooksAvailable
<1>1. LabelInv => NeverLooksAvailable
  BY DEF LabelInv, NeverLooksAvailable, IsInFlight
<1> QED
  BY <1>1, LabelsKnown, PTL

\* What the runner gave up on is worked on again only after a person re-queued it,
\* whichever of the calls that report it were lost (fail, block).
THEOREM BlockedNeedsAPersonAlways == Spec => BlockedNeedsAPerson
<1> DEFINE A == \A i \in Issues :
                   journal[i].status = "blocked" /\ journal'[i].status = "in-progress"
                      => i \in requeued
<1>1. TypeInv /\ SerialInv /\ LabelInv /\ [Next]_vars => A
  <2> SUFFICES ASSUME TypeInv, SerialInv, LabelInv, [Next]_vars, NEW i \in Issues,
                      journal[i].status = "blocked", journal'[i].status = "in-progress"
               PROVE  i \in requeued
    OBVIOUS
  <2>1. i \notin InFlight /\ NoRun.status = "none"
    BY DEF InFlight, IsInFlight, NoRun
  <2>2. i = cur /\ (pc = "open" \/ pc \in Building)
    BY <2>1, JournalStep DEF Building
  <2> QED
    BY <2>2 DEF LabelInv, Claiming, SerialInv, KnowsJournal
<1> QED
  BY <1>1, LabelsKnown, PTL DEF Spec, BlockedNeedsAPerson

-----------------------------------------------------------------------------
(***************************************************************************)
(* Pull requests.                                                          *)
(***************************************************************************)

\* Nothing opens a pull request but the creation, and nothing re-opens one.
KeepsPullRequests ==
    \A n \in PullRequests :
        /\ pr'[n].issue = pr[n].issue
        /\ pr'[n].state = "open" => pr[n].state = "open"
        /\ pr'[n].state = "unused" <=> pr[n].state = "unused"

\* A step creates the next pull request for the issue in hand, or none.
LEMMA PullRequestStep ==
    ASSUME TypeInv, [Next]_vars
    PROVE  \/ KeepsPullRequests
           \/ /\ pc = "create" /\ pc' # "create" /\ journal' = journal
              /\ \E n \in NextNumber : OpenPullRequest(n)
<1> USE DEF TypeInv, TypeOK, KeepsPullRequests
<1>1. CASE Steer
  <2>1. journal[cur].pr \in PullRequests
    BY <1>1 DEF Steer, IssueInHand, Reading, Run
  <2> QED
    BY <1>1, <2>1 DEF Steer, FallThrough, UpdateBranch, PullRequest
<1>2. CASE Push
  <2>1. CASE pr' # pr
    <3>1. PICK conflict \in {"resolved", "remains"} :
            pr' = [n \in PullRequests |->
                      IF pr[n].issue = cur /\ pr[n].state = "open"
                      THEN [pr[n] EXCEPT !.checks = "pending",
                              !.merge = IF conflict = "resolved" THEN "clean" ELSE @]
                      ELSE pr[n]]
      BY <1>2, <2>1 DEF Push
    <3>2. ASSUME NEW n \in PullRequests, NEW p,
                 p = [pr[n] EXCEPT !.checks = "pending",
                        !.merge = IF conflict = "resolved" THEN "clean" ELSE @]
          PROVE  p.state = pr[n].state /\ p.issue = pr[n].issue
      BY <3>2 DEF PullRequest
    <3>3. ASSUME NEW n \in PullRequests
          PROVE  pr'[n].state = pr[n].state /\ pr'[n].issue = pr[n].issue
      BY <3>1, <3>2
    <3> QED
      BY <3>3
  <2> QED
    BY <2>1
<1>3. CASE Create \/ Throw
  BY <1>3 DEF Create, Throw, Raise, Exit, LateEffect, disk, github
<1>4. ASSUME NEW n \in PullRequests, ChecksReport(n) \/ BaseMoves(n) \/ Merge(n) \/ Close(n)
      PROVE  KeepsPullRequests
  <2>1. CASE ChecksReport(n)
    BY <2>1 DEF ChecksReport, PullRequest
  <2>2. CASE BaseMoves(n)
    BY <2>2 DEF BaseMoves, PullRequest
  <2>3. CASE Merge(n) \/ Close(n)
    BY <2>3 DEF Merge, Close, Finished
  <2> QED
    BY <1>4, <2>1, <2>2, <2>3
<1>5. pr' = pr \/ Steer \/ Push \/ Create \/ Throw
      \/ \E n \in PullRequests : ChecksReport(n) \/ BaseMoves(n) \/ Merge(n) \/ Close(n)
  <2>1. CASE Top \/ Take \/ RunOnce \/ GiveUp \/ \E i \in Issues : Observe(i) \/ Requeue(i)
    BY <2>1
       DEF Top, Take, Observe, Requeue, RunOnce, Resume, ReadPullRequest, Mergeable,
           Reissue, Select, GiveUp, Escalate, Escalated, Comment, LabelStep, github
  <2>2. CASE WorkIssue /\ ~Push /\ ~Create
    BY <2>2
       DEF WorkIssue, Claim, Unready, Open, Prepare, Code, Coded, Verify, Review, Lookup,
           Publish, Unclaim, HandOver, LabelStep, github
  <2>3. CASE Kill \/ Tear \/ Signal \/ \E c \in Commands : Start(c)
    BY <2>3 DEF Kill, Tear, Signal, Start, github
  <2>4. CASE UNCHANGED vars
    BY <2>4 DEF vars, github
  <2> QED
    BY <2>1, <2>2, <2>3, <2>4 DEF Next, Process, Advance, GitHub
<1> QED
  BY <1>1, <1>2, <1>3, <1>4, <1>5

\* At first there is no pull request for a record to follow.
LEMMA PullRequestInit == Init => PullRequestInv
BY DEF Init, Unused, NoRun, PullRequestInv, Numbering, OpenIsNewest, FollowsNewestPullRequest

\* What the creation makes is the newest of its issue, and the only one open.
LEMMA CreatedIsNewest ==
    ASSUME TypeInv, PullRequestInv, pc = "create", NEW n \in NextNumber, OpenPullRequest(n)
    PROVE  /\ Numbering' /\ OpenIsNewest'
           /\ \A m \in PullRequests : pr'[m].issue = cur => m <= n
           /\ \A i \in Issues \ {cur}, m \in PullRequests : Newest(m, i) => Newest(m, i)'
<1>1. /\ cur \in Issues /\ NoIssue \notin Issues /\ n \in PullRequests
      /\ pr[n].state = "unused" /\ pr[n].issue = NoIssue
      /\ \A m \in 1 .. n - 1 : pr[m].state # "unused"
  BY ConstantsAssumption
     DEF TypeInv, IssueInHand, Building, NextNumber, PullRequestInv, Numbering
<1>2. /\ pr'[n].state = "open" /\ pr'[n].issue = cur
      /\ \A m \in PullRequests \ {n} : pr'[m] = pr[m]
  BY <1>1 DEF OpenPullRequest, TypeInv, TypeOK
<1>3. \A m \in PullRequests : m > n => pr[m].state = "unused" /\ pr[m].issue = NoIssue
  BY <1>1 DEF PullRequestInv, Numbering, PullRequests
<1>4. Numbering'
  BY <1>1, <1>2, <1>3 DEF PullRequestInv, Numbering, PullRequests
<1>5. \A m \in PullRequests : pr'[m].issue = cur => m <= n
  BY <1>1, <1>2, <1>3 DEF PullRequests
<1>6. \A m \in PullRequests \ {n} : pr[m].state = "open" => pr[m].issue # cur
  BY DEF PullRequestInv, OpenIsNewest, NewestOpen, Newest
<1>7. OpenIsNewest'
  BY <1>1, <1>2, <1>5, <1>6 DEF PullRequestInv, OpenIsNewest, Newest
<1>8. \A i \in Issues \ {cur}, m \in PullRequests : Newest(m, i) => Newest(m, i)'
  BY <1>1, <1>2 DEF Newest
<1> QED
  BY <1>4, <1>5, <1>7, <1>8

\* A record comes to wait for review only with the pull request workIssue published.
LEMMA AwaitingStep ==
    ASSUME TypeInv, SerialInv, [Next]_vars, NEW i \in Issues,
           journal'[i].status = "awaiting-review"
    PROVE  \/ journal[i].status = "awaiting-review" /\ journal'[i].pr = journal[i].pr
           \/ i = cur /\ pc = "publish" /\ journal'[i].pr = rec.pr
<1>1. /\ NoRun.status = "none"
      /\ [journal[i] EXCEPT !.status = "in-progress"].status = "in-progress"
      /\ [rec EXCEPT !.status = "awaiting-review"].pr = rec.pr
      /\ [rec EXCEPT !.fixRounds = round].status = rec.status
      /\ CountRedRound(journal[i]).status = journal[i].status
      /\ CountRedRound(journal[i]).pr = journal[i].pr
  BY DEF NoRun, CountRedRound, TypeInv, TypeOK, Run
<1>2. pc = "coding" => rec.status = "in-progress"
  BY DEF SerialInv, KnowsJournal, Building
<1> QED
  BY <1>1, <1>2, JournalStep

\* How the process comes to the two calls that rely on the lookup.
LEMMA PublishStep ==
    ASSUME [Next]_vars, pc' \in {"create", "publish"}
    PROVE  Lookup \/ Create \/ UNCHANGED <<pc, cur, rec>>
<1>1. CASE GitHub \/ Signal
  BY <1>1
     DEF GitHub, Signal, ChecksReport, BaseMoves, Merge, Close, Requeue, UnchangedProcess, work
<1>2. CASE Advance \/ RunOnce \/ GiveUp
  BY <1>2
     DEF Advance, Top, Observe, Steer, Take, NextRecord, Exit, GiveUp, Escalate, Escalated,
         Comment, Return, LabelStep, RunOnce, Resume, ReadPullRequest, Mergeable, Reissue, Select
<1>3. CASE WorkIssue /\ ~Lookup /\ ~Create
  BY <1>3
     DEF WorkIssue, Claim, Unready, Open, Prepare, Code, Coded, Verify, Review, Push,
         Publish, Unclaim, HandOver, LabelStep, Fail, NextRound, Return, Exit
<1>4. CASE Throw \/ Kill \/ Tear \/ \E c \in Commands : Start(c)
  BY <1>4 DEF Throw, Raise, Kill, Tear, Start, Exit
<1>5. CASE UNCHANGED vars
  BY <1>5 DEF vars, work
<1> QED
  BY <1>1, <1>2, <1>3, <1>4, <1>5 DEF Next, Process

\* Every step keeps the numbering, the one open pull request of an issue, and what
\* the records follow.
LEMMA PullRequestStepInv ==
    TypeInv /\ SerialInv /\ PullRequestInv /\ [Next]_vars => PullRequestInv'
<1> SUFFICES ASSUME TypeInv, SerialInv, PullRequestInv, [Next]_vars PROVE PullRequestInv'
  OBVIOUS
<1>1. CASE KeepsPullRequests
  <2>1. Numbering' /\ OpenIsNewest'
    BY <1>1 DEF KeepsPullRequests, PullRequestInv, Numbering, OpenIsNewest, Newest
  <2>2. ASSUME NEW i \in Issues, NEW n \in PullRequests, Newest(n, i) PROVE Newest(n, i)'
    BY <1>1, <2>2 DEF KeepsPullRequests, Newest
  <2>3. FollowsNewestPullRequest'
    <3> SUFFICES ASSUME NEW i \in Issues, journal'[i].status = "awaiting-review"
                 PROVE  journal'[i].pr # NoPullRequest /\ Newest(journal[i].pr, i)'
      BY DEF FollowsNewestPullRequest
    <3>1. /\ journal[i].pr # NoPullRequest => journal[i].pr \in PullRequests
          /\ rec.pr # NoPullRequest => rec.pr \in PullRequests
      BY DEF TypeInv, TypeOK, Run
    <3>2. CASE journal[i].status = "awaiting-review" /\ journal'[i].pr = journal[i].pr
      <4>1. journal[i].pr \in PullRequests /\ Newest(journal[i].pr, i)
        BY <3>1, <3>2 DEF PullRequestInv, FollowsNewestPullRequest
      <4> QED
        BY <2>2, <3>2, <4>1 DEF PullRequests, NoPullRequest, Newest
    <3>3. CASE i = cur /\ pc = "publish" /\ journal'[i].pr = rec.pr
      <4>1. rec.pr \in PullRequests /\ Newest(rec.pr, i)
        BY <3>1, <3>3 DEF PullRequestInv
      <4> QED
        BY <2>2, <3>3, <4>1 DEF PullRequests, NoPullRequest, Newest
    <3> QED
      BY <3>2, <3>3, AwaitingStep
  <2>4. ASSUME pc' = "create" PROVE NewestOpen(cur)' = {}
    <3>1. CASE Lookup
      BY <2>4, <3>1 DEF Lookup, github, NewestOpen, Newest
    <3>2. CASE UNCHANGED <<pc, cur, rec>>
      BY <1>1, <2>4, <3>2 DEF KeepsPullRequests, PullRequestInv, NewestOpen, Newest
    <3> QED
      BY <2>4, <3>1, <3>2, PublishStep DEF Create
  <2>5. ASSUME pc' = "publish" PROVE rec'.pr # NoPullRequest /\ Newest(rec.pr, cur)'
    <3>1. CASE Lookup
      <4>1. PICK n \in NewestOpen(cur) : rec' = Adopt(n) /\ cur' = cur
        BY <2>4, <2>5, <3>1 DEF Lookup
      <4>2. n \in PullRequests /\ Newest(n, cur) /\ rec'.pr = n /\ cur \in Issues
        BY <3>1, <4>1 DEF Lookup, NewestOpen, Adopt, TypeInv, TypeOK, IssueInHand, Building, Run
      <4> QED
        BY <2>2, <4>1, <4>2 DEF PullRequests, NoPullRequest, Newest
    <3>2. CASE UNCHANGED <<pc, cur, rec>>
      <4>1. /\ rec.pr \in PullRequests /\ Newest(rec.pr, cur)
            /\ rec'.pr = rec.pr /\ cur' = cur /\ cur \in Issues
        BY <2>5, <3>2
           DEF PullRequestInv, TypeInv, TypeOK, IssueInHand, Building, Run
      <4> QED
        BY <2>2, <4>1 DEF PullRequests, NoPullRequest, Newest
    <3>3. ~Create
      BY <1>1 DEF Create, NextNumber, OpenPullRequest, KeepsPullRequests, TypeInv, TypeOK
    <3> QED
      BY <2>5, <3>1, <3>2, <3>3, PublishStep
  <2> QED
    BY <2>1, <2>3, <2>4, <2>5 DEF PullRequestInv
<1>2. ASSUME pc = "create", pc' # "create", journal' = journal,
             NEW n \in NextNumber, OpenPullRequest(n)
      PROVE  PullRequestInv'
  <2>1. journal[cur].status = "in-progress" /\ cur \in Issues
    BY <1>2 DEF SerialInv, KnowsJournal, Building, TypeInv, IssueInHand
  <2>2. FollowsNewestPullRequest'
    <3> SUFFICES ASSUME NEW i \in Issues, journal[i].status = "awaiting-review"
                 PROVE  journal[i].pr # NoPullRequest /\ Newest(journal[i].pr, i)'
      BY <1>2 DEF FollowsNewestPullRequest
    <3>1. journal[i].pr \in PullRequests /\ Newest(journal[i].pr, i) /\ i # cur
      BY <2>1 DEF PullRequestInv, FollowsNewestPullRequest, TypeInv, TypeOK, Run
    <3> QED
      BY <1>2, <3>1, CreatedIsNewest DEF PullRequests, NoPullRequest, Newest
  <2>3. ASSUME pc' = "publish" PROVE rec'.pr # NoPullRequest /\ Newest(rec.pr, cur)'
    <3>1. PICK m \in NextNumber : OpenPullRequest(m) /\ rec' = Adopt(m) /\ cur' = cur
      BY <1>2, <2>3, PublishStep DEF Create, Lookup
    <3>2. m \in PullRequests /\ rec'.pr = m
      BY <3>1 DEF NextNumber, Adopt, TypeInv, TypeOK, Run
    <3>3. pr'[m].issue = cur
      BY <3>1, <3>2 DEF OpenPullRequest, TypeInv, TypeOK
    <3> QED
      BY <1>2, <3>1, <3>2, <3>3, CreatedIsNewest DEF PullRequests, NoPullRequest, Newest
  <2> QED
    BY <1>2, <2>2, <2>3, CreatedIsNewest DEF PullRequestInv
<1> QED
  BY <1>1, <1>2, PullRequestStep

\* What the two theorems about pull requests start from: what workIssue's lookup by
\* branch finds is all there is to find.
LEMMA PullRequestsKnown == Spec => [](TypeInv /\ SerialInv /\ PullRequestInv)
BY TypeInit, TypeStep, SerialInit, SerialStep, PullRequestInit, PullRequestStepInv, PTL DEF Spec

\* An issue never has two open pull requests, however often a creation or the news
\* of one was lost (workIssue looks for one by branch before it creates one).
THEOREM OneOpenPullRequestAlways == Spec => []OneOpenPullRequest
<1>1. PullRequestInv => OneOpenPullRequest
  BY DEF PullRequestInv, OpenIsNewest, OneOpenPullRequest, Newest, PullRequests
<1> QED
  BY <1>1, PullRequestsKnown, PTL

\* A record that waits for review follows the newest pull request of its issue
\* (what workIssue publishes is what advance reads).
THEOREM FollowsNewestPullRequestAlways == Spec => []FollowsNewestPullRequest
BY PullRequestsKnown, PTL DEF PullRequestInv

-----------------------------------------------------------------------------
(***************************************************************************)
(* Rounds.                                                                 *)
(***************************************************************************)

\* At first no agent round has been run.
LEMMA RoundInit == Init => RoundInv
BY ConstantsAssumption
   DEF Init, RoundInv, RoundsAccounted, InFlight, IsInFlight, NoRun, Claiming, Building

\* A kill during a round loses the record of that round, and no other round.
LEMMA KillStep ==
    ASSUME TypeInv, RoundInv, pc' = "down", invoked' = invoked,
           \A i \in Issues : journal'[i] = journal[i] \/ journal'[i] = NoRun,
           unrecorded' = IF pc = "coding" THEN [unrecorded EXCEPT ![cur] = @ + 1]
                                          ELSE unrecorded
    PROVE  RoundInv'
<1>1. \A i \in Issues : /\ invoked[i] \in Nat /\ unrecorded[i] \in Nat
                        /\ journal[i].fixRounds \in Nat
  BY DEF TypeInv, TypeOK, Run
<1>2. \A i \in Issues :
         unrecorded'[i] = IF pc = "coding" /\ cur = i THEN unrecorded[i] + 1 ELSE unrecorded[i]
  BY DEF TypeInv, TypeOK
<1>3. \A i \in InFlight' : i \in InFlight /\ journal'[i] = journal[i]
  BY DEF InFlight, IsInFlight, NoRun
<1>4. RoundsAccounted'
  BY <1>1, <1>2, ConstantsAssumption DEF RoundInv, RoundsAccounted
<1>5. \A i \in InFlight' : invoked'[i] <= journal'[i].fixRounds + Lag(i)'
  BY <1>1, <1>2, <1>3 DEF RoundInv, Lag, InFlight
<1> QED
  BY <1>4, <1>5 DEF RoundInv, Claiming, Building

\* A step that runs no round and loses none, and after which the process is between
\* rounds: nothing to account for.
LEMMA QuietStep ==
    ASSUME TypeInv, RoundInv, UNCHANGED <<invoked, unrecorded>>,
           pc = "coding" => cur \notin InFlight',
           pc' \notin Claiming \cup Building,
           \A i \in InFlight' : i \in InFlight /\ journal'[i].fixRounds = journal[i].fixRounds
    PROVE  RoundInv'
BY DEF RoundInv, RoundsAccounted, Lag, Building

\* The rounds of workIssue, from the claim to the push.
LEMMA RoundWorkIssue == TypeInv /\ SerialInv /\ RoundInv /\ WorkIssue => RoundInv'
<1> SUFFICES ASSUME TypeInv, SerialInv, RoundInv, WorkIssue PROVE RoundInv'
  OBVIOUS
<1>1. /\ \A i \in Issues : /\ invoked[i] \in Nat /\ unrecorded[i] \in Nat
                           /\ journal[i].fixRounds \in Nat
      /\ round \in Nat /\ rec.fixRounds \in Nat /\ rec \in Run
      /\ CodingFixRounds \in Nat
  BY ConstantsAssumption DEF TypeInv, TypeOK, Run
<1>2. cur \in Issues
  BY DEF TypeInv, IssueInHand, Claiming, Building, Ending, WorkIssue, Claim, Unready, LabelStep,
         Open, Prepare, Code, Coded, Verify, Review, Push, Lookup, Create, Publish, Unclaim,
         HandOver
<1>3. pc \in Building => InFlight = {cur}
  BY <1>2 DEF SerialInv, OneInFlight, KnowsJournal, InFlight, IsInFlight
<1> USE <1>1, <1>2 DEF Claiming, Building
<1>4. CASE Claim \/ Unready
  BY <1>4, InFlightSame
     DEF Claim, Unready, LabelStep, disk, work, history, RoundInv, RoundsAccounted, Lag
<1>5. CASE Open
  <2>1. /\ [journal[cur] EXCEPT !.status = "in-progress"] \in Run
        /\ [journal[cur] EXCEPT !.status = "in-progress"].fixRounds = journal[cur].fixRounds
    BY DEF TypeInv, TypeOK, Run, Statuses
  <2>2. /\ rec'.fixRounds = journal[cur].fixRounds /\ journal'[cur].fixRounds = rec'.fixRounds
        /\ \A i \in Issues : journal'[i].fixRounds = journal[i].fixRounds
        /\ InFlight' \subseteq InFlight \cup {cur}
    BY <1>5, <2>1, InFlightSaved DEF Open
  <2>3. \A i \in InFlight : i = cur
    BY <1>5 DEF Open, SerialInv, KnowsJournal
  <2> QED
    BY <1>5, <2>2, <2>3 DEF Open, history, RoundInv, RoundsAccounted, Lag
<1>6. ASSUME pc \in Building, NEW r \in Run, Fail(r), UNCHANGED history PROVE RoundInv'
  <2>1. InFlight' = {} /\ pc' = "escalate"
    BY <1>3, <1>6, InFlightFailed
  <2> QED
    BY <1>6, <2>1, QuietStep DEF history
\* A step between two rounds, or into the next one.
<1>7. ASSUME pc \in Building \ {"coding"}, UNCHANGED <<cur, journal, history>>,
             rec'.fixRounds = rec.fixRounds,
             \/ pc' \in {"push", "lookup", "create", "publish"}
             \/ /\ pc \in {"verify", "review"} /\ round' \in {round, round + 1}
                /\ round' < CodingFixRounds
                /\ pc' = IF round' = round THEN "review" ELSE "code"
             \/ pc = "prepare" /\ pc' = "code" /\ round' = round /\ round' < CodingFixRounds
      PROVE  RoundInv'
  BY <1>7, InFlightSame DEF history, RoundInv, RoundsAccounted, Lag
<1>8. CASE Prepare
  BY <1>6, <1>7, <1>8 DEF Prepare
<1>9. CASE Code
  <2>1. \A i \in Issues : invoked'[i] = IF i = cur THEN invoked[i] + 1 ELSE invoked[i]
    BY <1>9 DEF Code, TypeInv, TypeOK
  <2> QED
    BY <1>3, <1>9, <2>1, InFlightSame DEF Code, work, RoundInv, RoundsAccounted, Lag
<1>10. CASE Coded
  <2>1. /\ [rec EXCEPT !.fixRounds = round] \in Run
        /\ [rec EXCEPT !.fixRounds = round].fixRounds = round
        /\ [rec EXCEPT !.fixRounds = round].status = rec.status
    BY DEF TypeInv, TypeOK, Run
  <2>2. CASE /\ rec' = [rec EXCEPT !.fixRounds = round] /\ Save(cur, rec')
             /\ pc' = "verify" /\ round' = round
    <3>1. InFlight' = {cur} /\ journal'[cur] = rec'
      BY <1>3, <1>10, <2>1, <2>2, InFlightSaved
         DEF Coded, SerialInv, KnowsJournal, IsInFlight
    <3>2. /\ pc = "coding" /\ cur' = cur /\ UNCHANGED <<invoked, unrecorded>>
          /\ journal'[cur].fixRounds = round /\ rec'.fixRounds = round
      BY <1>10, <2>1, <2>2, <3>1 DEF Coded, history
    <3>3. /\ invoked[cur] <= round + 1 + unrecorded[cur]
          /\ round < CodingFixRounds /\ RoundsAccounted
      BY <3>2 DEF RoundInv
    <3>4. pc' = "verify" /\ round' = round
      BY <2>2
    <3>5. invoked'[cur] <= journal'[cur].fixRounds + Lag(cur)'
      BY <3>2, <3>3, <3>4 DEF Lag
    <3>6. RoundsAccounted'
      BY <3>2, <3>3 DEF RoundsAccounted
    <3> QED
      BY <3>1, <3>2, <3>3, <3>4, <3>5, <3>6 DEF RoundInv
  <2> QED
    BY <1>6, <1>10, <2>1, <2>2 DEF Coded
<1>11. CASE Verify \/ Review
  BY <1>6, <1>7, <1>11 DEF Verify, Review, NextRound, RoundInv
<1>12. CASE Push
  BY <1>6, <1>7, <1>12 DEF Push
<1>13. CASE Lookup \/ Create
  <2>1. \A n \in PullRequests : Adopt(n).fixRounds = rec.fixRounds
    BY DEF Adopt, Run
  <2> QED
    BY <1>7, <1>13, <2>1 DEF Lookup, Create, NewestOpen, NextNumber, disk
<1>14. CASE Publish
  <2>1. /\ [rec EXCEPT !.status = "awaiting-review"] \in Run
        /\ [rec EXCEPT !.status = "awaiting-review"].fixRounds = rec.fixRounds
    BY DEF Run, Statuses
  <2>2. InFlight' \subseteq {cur} /\ journal'[cur].fixRounds = journal[cur].fixRounds
    BY <1>3, <1>14, <2>1, InFlightSaved DEF Publish, RoundInv
  <2> QED
    BY <1>3, <1>14, <2>2, QuietStep DEF Publish, history
<1>15. CASE Unclaim \/ HandOver
  BY <1>15, InFlightSame, QuietStep
     DEF Unclaim, HandOver, LabelStep, Return, Exit, disk, history, Ending
<1> QED
  BY <1>4, <1>5, <1>8, <1>9, <1>10, <1>11, <1>12, <1>13, <1>14, <1>15 DEF WorkIssue

\* Every step keeps account of the rounds.
LEMMA RoundStepInv == TypeInv /\ SerialInv /\ RoundInv /\ [Next]_vars => RoundInv'
<1> SUFFICES ASSUME TypeInv, SerialInv, RoundInv, [Next]_vars PROVE RoundInv'
  OBVIOUS
<1> USE DEF Reading, Claiming, Building, Ending
<1>1. CASE UNCHANGED <<journal, pc, cur, rec, round, invoked, unrecorded>>
  BY <1>1, InFlightSame DEF RoundInv, RoundsAccounted, Lag
<1>2. CASE GitHub \/ Signal \/ UNCHANGED vars
  BY <1>1, <1>2
     DEF GitHub, Signal, ChecksReport, BaseMoves, Merge, Close, Requeue, UnchangedProcess,
         vars, disk, work, history
\* Retiring, blocking and counting a red round leave the coding rounds of a record.
<1>3. CASE Advance \/ GiveUp
  <2>1. \A j \in Issues : CountRedRound(journal[j]).fixRounds = journal[j].fixRounds
    BY DEF CountRedRound, TypeInv, TypeOK, Run
  <2>2. /\ UNCHANGED <<invoked, unrecorded>>
        /\ pc' \notin Claiming \cup Building
        /\ pc \notin Claiming \cup Building
    BY <1>3
       DEF Advance, Top, Observe, Steer, Take, NextRecord, Exit, GiveUp, Escalate, Escalated,
           Comment, Return, LabelStep, history
  <2>3. \A i \in InFlight' : i \in InFlight /\ journal'[i].fixRounds = journal[i].fixRounds
    <3> SUFFICES ASSUME NEW i \in InFlight'
                 PROVE  i \in InFlight /\ journal'[i].fixRounds = journal[i].fixRounds
      OBVIOUS
    <3>1. i \in Issues /\ journal'[i].status \notin {"done", "blocked"} /\ journal'[i] # NoRun
      BY DEF InFlight, IsInFlight, NoRun
    <3>2. journal'[i] = journal[i] => i \in InFlight
      BY DEF InFlight, IsInFlight
    <3> QED
      BY <2>1, <2>2, <3>1, <3>2, JournalStep
  <2> QED
    BY <2>2, <2>3, QuietStep
<1>4. CASE Resume \/ ReadPullRequest \/ Mergeable \/ Throw \/ \E c \in Commands : Start(c)
  BY <1>4, InFlightSame, QuietStep
     DEF Resume, ReadPullRequest, Mergeable, Throw, Raise, Exit, Calls, Start, disk, history
<1>5. CASE Reissue
  <2>1. /\ cur \in InFlight /\ cur \in Issues /\ InFlight' = InFlight
        /\ round' = journal[cur].fixRounds + 1
        /\ journal[cur].fixRounds \in Nat /\ invoked[cur] \in Nat /\ unrecorded[cur] \in Nat
    BY <1>5, InFlightSame
       DEF Reissue, ResumeRound, disk, SerialInv, KnowsJournal, TypeInv, TypeOK, IssueInHand, Run
  <2> QED
    BY <1>5, <2>1 DEF Reissue, disk, history, RoundInv, RoundsAccounted, Lag
<1>6. CASE Select
  <2>1. CASE pc' = "down"
    BY <1>6, <2>1, InFlightSame, QuietStep DEF Select, Exit, disk, history
  <2>2. CASE pc' # "down"
    <3>1. /\ InFlight' = {} /\ journal' = journal /\ pc' = "claim" /\ round' = 0
          /\ cur' \in Issues
          /\ invoked' = [invoked EXCEPT ![cur'] = 0]
          /\ unrecorded' = [unrecorded EXCEPT ![cur'] = 0]
      BY <1>6, <2>2, InFlightSame DEF Select, Exit, disk, SerialInv, KnowsJournal
    <3>2. \A i \in Issues : /\ invoked'[i] = IF i = cur' THEN 0 ELSE invoked[i]
                            /\ unrecorded'[i] = IF i = cur' THEN 0 ELSE unrecorded[i]
                            /\ journal[i].fixRounds \in Nat
      BY <3>1 DEF TypeInv, TypeOK, Run
    <3> QED
      BY <3>1, <3>2, ConstantsAssumption DEF RoundInv, RoundsAccounted
  <2> QED
    BY <2>1, <2>2
<1>7. CASE Kill \/ Tear
  BY <1>7, KillStep DEF Kill, Tear, Exit, disk, TypeInv, TypeOK
<1> QED
  BY <1>2, <1>3, <1>4, <1>5, <1>6, <1>7, RoundWorkIssue DEF Next, Process, RunOnce

\* A selected issue costs at most CodingFixRounds agent rounds, however often it is
\* resumed, plus those the process did not live to record (ResumeRound, Coded).
THEOREM RoundsAccountedAlways == Spec => []RoundsAccounted
<1>1. Spec => [](TypeInv /\ SerialInv /\ RoundInv)
  BY TypeInit, TypeStep, SerialInit, SerialStep, RoundInit, RoundStepInv, PTL DEF Spec
<1> QED
  BY <1>1, PTL DEF RoundInv
=============================================================================
