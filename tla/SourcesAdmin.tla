---------------------------- MODULE SourcesAdmin ----------------------------
(***************************************************************************)
(* The admin's page of sources (apps/admin, routes/sources.tsx) over the   *)
(* api of Sources: the form that adds a source, the row of one source with *)
(* its form, and the list both show, which the query cache refetches.      *)
(* Three mutations may be pending at once, one of each kind; other admins  *)
(* are the other requests.  Answers are lost: the page then takes for      *)
(* failed what the api may have done, or is about to do.                   *)
(*                                                                         *)
(* The site url behaves as the name does and is left out, and so are the   *)
(* pages of the list: there is one.                                        *)
(***************************************************************************)
EXTENDS Sources

CONSTANTS
    Edited,     \* the source whose row is looked at
    Typed       \* bound: what is typed into the forms, pairs of a name and a feed url

Slots == {"create", "update", "deactivate"}   \* useMutation, three times

ASSUME SourcesAdminAssumption ==
    /\ Slots \subseteq Requests
    /\ Edited \in SourceIds
    /\ Typed \subseteq (Names \cup {"none"}) \X (FeedUrls \cup {"none"})

VARIABLES
    list,       \* the query of the list: its data, and the refetch under way
    pending,    \* mutations the page waits for
    newForm,    \* CreateSourceForm
    rowForm,    \* SourceRow of Edited
    \* history
    owed        \* owed[s]: writes to s that were done when an own change to s was confirmed

adminVars == <<list, pending, newForm, rowForm, owed>>

-----------------------------------------------------------------------------
Unset == "none"

NoErrors == [field |-> FALSE, form |-> FALSE]

\* What the list says of a source, and how many writes the answer has seen.
Snapshot == [s \in SourceIds |->
    [exists |-> sources[s].exists, name |-> sources[s].name, feedUrl |-> sources[s].feedUrl,
     isActive |-> sources[s].isActive, writes |-> latest[s].writes]]

EmptyForm == [name |-> Unset, feedUrl |-> Unset, isEditing |-> FALSE, errors |-> NoErrors]

\* A row takes its fields from the source it is mounted with, and from no later one.
FieldsOf(source) == [EmptyForm EXCEPT !.name = source.name, !.feedUrl = source.feedUrl]

AdminInit ==
    /\ SourcesInit
    /\ sources[Edited].exists
    /\ list = [data |-> Snapshot, pc |-> "idle", answer |-> Snapshot]
    /\ pending = {}
    /\ newForm = EmptyForm
    /\ rowForm = FieldsOf(sources[Edited])
    /\ owed = [s \in SourceIds |-> 0]

-----------------------------------------------------------------------------
\* The query of the list (external).  A refetch reads the table at one moment, shows it at
\* a later one, or fails; an invalidation drops the one under way and starts another.

formVars == <<pending, newForm, rowForm, owed>>

\* mutant: a refetch that is under way is good enough
InvalidateIfIdle == list' = IF list.pc \in {"sent", "read"} THEN list ELSE [list EXCEPT !.pc = "sent"]

Invalidate == list' = [list EXCEPT !.pc = "sent", !.answer = list.data]

Refetch ==
    /\ list.pc \in {"idle", "failed"}
    /\ list' = [list EXCEPT !.pc = "sent"]
    /\ UNCHANGED <<sourcesVars, formVars>>

\* list, of the api.
ListRead ==
    /\ list.pc = "sent"
    /\ list' = [list EXCEPT !.pc = "read", !.answer = Snapshot]
    /\ UNCHANGED <<sourcesVars, formVars>>

ListShown ==
    /\ list.pc = "read"
    /\ list' = [list EXCEPT !.pc = "idle", !.data = list.answer]
    /\ UNCHANGED <<sourcesVars, formVars>>

ListFails ==
    /\ list.pc \in {"sent", "read"}
    /\ list' = [list EXCEPT !.pc = "failed", !.answer = list.data]
    /\ UNCHANGED <<sourcesVars, formVars>>

-----------------------------------------------------------------------------
\* handleSubmit and handleSave.  Fields that the schema refuses stay on the page; the
\* others are sent, all of them, whichever the admin has changed.

Valid(form) == form.name # Unset /\ form.feedUrl # Unset

Refuse(form) == [form EXCEPT !.errors = [field |-> TRUE, form |-> FALSE]]
Sent(form) == [form EXCEPT !.errors = NoErrors]

handleSubmit ==
    /\ "create" \notin pending
    /\ IF Valid(newForm)
       THEN /\ Receive("create", "create", "none", newForm.name, <<newForm.feedUrl>>)
            /\ newForm' = Sent(newForm)
            /\ pending' = pending \cup {"create"}
       ELSE /\ newForm' = Refuse(newForm)
            /\ UNCHANGED <<sourcesVars, pending>>
    /\ UNCHANGED <<list, rowForm, owed>>

handleSave ==
    /\ rowForm.isEditing
    /\ "update" \notin pending
    /\ IF Valid(rowForm)
       THEN /\ Receive("update", "update", Edited, rowForm.name, <<rowForm.feedUrl>>)
            /\ rowForm' = Sent(rowForm)
            /\ pending' = pending \cup {"update"}
       ELSE /\ rowForm' = Refuse(rowForm)
            /\ UNCHANGED <<sourcesVars, pending>>
    /\ UNCHANGED <<list, newForm, owed>>

\* The button of a row that is not being edited, for a source the list shows as active.
handleDeactivate ==
    /\ ~rowForm.isEditing
    /\ list.data[Edited].isActive
    /\ "deactivate" \notin pending
    /\ Receive("deactivate", "deactivate", Edited, "none", <<>>)
    /\ pending' = pending \cup {"deactivate"}
    /\ UNCHANGED <<list, newForm, rowForm, owed>>

\* The fields are open while a mutation is pending, too.
TypeNew(name, feedUrl) ==
    /\ newForm' = [newForm EXCEPT !.name = name, !.feedUrl = feedUrl]
    /\ UNCHANGED <<sourcesVars, list, pending, rowForm, owed>>

TypeRow(name, feedUrl) ==
    /\ rowForm.isEditing
    /\ rowForm' = [rowForm EXCEPT !.name = name, !.feedUrl = feedUrl]
    /\ UNCHANGED <<sourcesVars, list, pending, newForm, owed>>

Edit ==
    /\ ~rowForm.isEditing
    /\ rowForm' = [rowForm EXCEPT !.isEditing = TRUE]
    /\ UNCHANGED <<sourcesVars, list, pending, newForm, owed>>

\* Back to what the list shows at this moment.
handleCancel ==
    /\ rowForm.isEditing
    /\ rowForm' = FieldsOf(list.data[Edited])
    /\ UNCHANGED <<sourcesVars, list, pending, newForm, owed>>

-----------------------------------------------------------------------------
\* What becomes of a form.
Conflicted(form) == [form EXCEPT !.errors = [field |-> TRUE, form |-> FALSE]]
NotSaved(form) == [form EXCEPT !.errors = [field |-> FALSE, form |-> TRUE]]

OnError(slot, result) ==
    LET after(form) == IF result = "CONFLICT" THEN Conflicted(form) ELSE NotSaved(form)
    IN  /\ newForm' = IF slot = "create" THEN after(newForm) ELSE newForm
        /\ rowForm' = CASE slot = "update" -> after(rowForm)
                        [] slot = "deactivate" -> [rowForm EXCEPT !.errors.form = TRUE]
                        [] OTHER -> rowForm
        /\ UNCHANGED <<list, owed>>

OnSuccess(slot) ==
    /\ newForm' = IF slot = "create" THEN EmptyForm ELSE newForm
    /\ rowForm' = CASE slot = "update" ->
                           [rowForm EXCEPT !.isEditing = FALSE, !.errors = NoErrors]
                    [] slot = "deactivate" -> [rowForm EXCEPT !.errors.form = FALSE]
                    [] OTHER -> rowForm
    /\ Invalidate
    /\ owed' = [s \in SourceIds |->
           IF slot = "create" \/ s = Edited THEN latest[s].writes ELSE owed[s]]

\* The answer reaches the page.
Settled(slot) ==
    /\ slot \in pending
    /\ request[slot].pc = "answered"
    /\ pending' = pending \ {slot}
    /\ IF request[slot].result = "ok" THEN OnSuccess(slot) ELSE OnError(slot, request[slot].result)
    /\ UNCHANGED sourcesVars

\* The connection breaks while the api is at work, or after.
Disconnected(slot) ==
    /\ slot \in pending
    /\ pending' = pending \ {slot}
    /\ OnError(slot, "network")
    /\ UNCHANGED sourcesVars

\* The api at work for the page, and for other admins.
ApiStep(r) ==
    \/ Check(r) \/ Write(r) \/ WriteRefused(r) \/ WriteNothing(r)
    \/ RequestFails(r) \/ WriteUnconfirmed(r)

Elsewhere(r) ==
    /\ ApiStep(r) \/ (r \notin Slots /\ ReceiveUpdate(r))
    /\ UNCHANGED adminVars

AdminNext ==
    \/ Refetch \/ ListRead \/ ListShown \/ ListFails
    \/ handleSubmit \/ handleSave \/ handleDeactivate \/ Edit \/ handleCancel
    \/ \E t \in Typed : TypeNew(t[1], t[2]) \/ TypeRow(t[1], t[2])
    \/ \E slot \in Slots : Settled(slot) \/ Disconnected(slot)
    \/ \E r \in Requests : Elsewhere(r)

AdminSpec == AdminInit /\ [][AdminNext]_<<sourcesVars, adminVars>>

-----------------------------------------------------------------------------
\* An own change that was confirmed is shown as soon as no refetch is under way or has
\* failed, however the refetches it cut short, the changes of others and the answers of the
\* three mutations interleave: every onSuccess invalidates the list.
OwnChangesAreShown ==
    list.pc = "idle" => \A s \in SourceIds : list.data[s].writes >= owed[s]
=============================================================================
