----------------------------- MODULE AdminConsole -----------------------------
(***************************************************************************)
(* The administration pages under /dashboard/users: users-table.tsx,       *)
(* roles-manager.tsx and permissions-manager.tsx with permission-sheet.tsx,*)
(* and the DeleteDialog all three use.                                     *)
(*                                                                         *)
(* A page shows the rows its server component last rendered.  A sheet      *)
(* edits or creates one item, a dialog deletes one; both send a server     *)
(* action (lib/services/server/*.ts).  The client runs its server actions  *)
(* one at a time; one that succeeds has the page rendered again, and its   *)
(* answer carries the new rows.  The sheet and the dialog can be closed,   *)
(* and others opened, before the answer comes.                             *)
(*                                                                         *)
(* A fetch of the rows that fails makes an error page of users and roles   *)
(* (module Dashboard), but fetchPermissions catches it: that page stays,   *)
(* with no rows and the error above them.                                  *)
(***************************************************************************)
EXTENDS Naturals, Sequences, FiniteSets

CONSTANTS
  Lists,      \* the pages: users, roles and permissions
  Items,      \* users, roles or permissions
  Values,     \* what a form can hold of one
  MaxOthers,  \* bound: changes other administrators make while a page is open
  Absent,     \* not (or no longer) in the list
  None

ASSUME ConsoleAssumption ==
  /\ Lists \subseteq {"users", "roles", "permissions"}
  /\ Absent \notin Values /\ None \notin Items /\ MaxOthers \in Nat

VARIABLES
  list,       \* which of the pages
  db,         \* the items at the backend
  rows,       \* the items as the page shows them
  fetchError, \* shown: the permissions could not be fetched
  form,       \* the sheet
  saving,     \* `saving` of the page or of its sheet
  dialog,     \* deletingUser, deletingRole, deletingPerm
  deleting,   \* `deleting` of the dialog
  deleteError,
  queue,      \* the client's server actions
  others,     \* changes other administrators made since the page was opened
  unseen,     \* history: items changed by another since the rows were read
  lost        \* history: a save was rejected (the network failed) since the page was mounted

avars == <<list, db, rows, fetchError, form, saving, dialog, deleting, deleteError, queue,
           others, unseen, lost>>
listing == <<rows, fetchError>>
closing == <<deleting, deleteError>>

NoForm == [open |-> FALSE, item |-> None, value |-> Absent, error |-> FALSE, clean |-> TRUE]
NoDialog == [item |-> None, clean |-> TRUE]

\* clean (history): nothing was being saved, or deleted, when it opened.
Sheet(i, v) == [open |-> TRUE, item |-> i, value |-> v, error |-> FALSE, clean |-> ~saving]

\* own (history): the sheet the call was sent from has not been closed.
CallOf(what, i, v) ==
  [what |-> what, item |-> i, value |-> v, phase |-> "queued", own |-> what = "save",
   snap |-> None, since |-> {}]

Calls(what) == {k \in DOMAIN queue : queue[k].what = what}
Disown(q) == [k \in DOMAIN q |-> [q[k] EXCEPT !.own = FALSE]]
NothingOpen == ~form.open /\ dialog.item = None

Contents == [Items -> Values \cup {Absent}]
NoRows == [i \in Items |-> Absent]
Forms == [open : BOOLEAN, item : Items \cup {None}, value : Values \cup {Absent},
          error : BOOLEAN, clean : BOOLEAN]
CallRecords ==
  [what : {"save", "delete"}, item : Items \cup {None}, value : Values \cup {Absent},
   phase : {"queued", "refused", "handled", "rendered"}, own : BOOLEAN,
   snap : Contents \cup {None}, since : SUBSET Items]

\* The page and its server actions; an answer that renders the page brings it
\* along, or None when its fetch failed.
ATypeOK ==
  /\ list \in Lists /\ db \in Contents /\ rows \in Contents
  /\ form \in Forms /\ dialog \in [item : Items \cup {None}, clean : BOOLEAN]
  /\ {fetchError, saving, deleting, deleteError, lost} \subseteq BOOLEAN
  /\ others \in 0..MaxOthers /\ unseen \subseteq Items
  /\ queue \in Seq(CallRecords)

AInit ==
  /\ list \in Lists /\ db \in Contents
  /\ fetchError \in BOOLEAN /\ (fetchError => list = "permissions")
  /\ rows = IF fetchError THEN NoRows ELSE db
  /\ form = NoForm /\ saving = FALSE
  /\ dialog = NoDialog /\ deleting = FALSE /\ deleteError = FALSE
  /\ queue = <<>> /\ others = 0 /\ unseen = {} /\ lost = FALSE

-----------------------------------------------------------------------------
\* The sheet.
\* Mutant: opening a sheet resets `saving`.
OpenEditAfresh ==
  /\ NothingOpen
  /\ \E i \in Items : rows[i] # Absent /\ form' = [Sheet(i, rows[i]) EXCEPT !.clean = TRUE]
  /\ saving' = FALSE
  /\ UNCHANGED <<list, db, listing, dialog, closing, queue, others, unseen, lost>>

OpenEdit ==
  /\ NothingOpen
  /\ \E i \in Items : rows[i] # Absent /\ form' = Sheet(i, rows[i])
  /\ UNCHANGED <<list, db, listing, saving, dialog, closing, queue, others, unseen, lost>>

OpenCreate ==
  /\ NothingOpen /\ list # "users"
  /\ form' = Sheet(None, Absent)
  /\ UNCHANGED <<list, db, listing, saving, dialog, closing, queue, others, unseen, lost>>

\* The fields of the permission sheet are disabled while it saves.
SetField ==
  /\ form.open /\ (list = "permissions" => ~saving)
  /\ \E v \in Values : form' = [form EXCEPT !.value = v]
  /\ UNCHANGED <<list, db, listing, saving, dialog, closing, queue, others, unseen, lost>>

HandleSave ==
  /\ form.open /\ form.value # Absent /\ ~saving
  /\ saving' = TRUE
  /\ form' = [form EXCEPT !.error = FALSE]
  /\ queue' = Append(queue, CallOf("save", form.item, form.value))
  /\ UNCHANGED <<list, db, listing, dialog, closing, others, unseen, lost>>

\* Escape and the overlay close the sheet whether or not it is saving.
CloseSheet ==
  /\ form.open
  /\ form' = NoForm
  /\ queue' = Disown(queue)
  /\ UNCHANGED <<list, db, listing, saving, dialog, closing, others, unseen, lost>>
-----------------------------------------------------------------------------
\* The dialog.
OpenDelete ==
  /\ NothingOpen
  /\ \E i \in Items : rows[i] # Absent /\ dialog' = [item |-> i, clean |-> ~deleting]
  /\ UNCHANGED <<list, db, listing, form, saving, closing, queue, others, unseen, lost>>

\* The action button runs handleDelete and closes the dialog at once.
HandleDelete ==
  /\ dialog.item # None /\ ~deleting
  /\ deleting' = TRUE /\ deleteError' = FALSE
  /\ queue' = Append(queue, CallOf("delete", dialog.item, Absent))
  /\ dialog' = NoDialog
  /\ UNCHANGED <<list, db, listing, form, saving, others, unseen, lost>>

CloseDialog ==
  /\ dialog.item # None
  /\ dialog' = NoDialog /\ deleteError' = FALSE
  /\ UNCHANGED <<list, db, listing, form, saving, deleting, queue, others, unseen, lost>>
-----------------------------------------------------------------------------
\* The server action at the head of the queue.
AtHead(phase) == queue # <<>> /\ queue[1].phase = phase

\* The items a call may be about: a creation takes one that is not there.
Targets(call) ==
  IF call.item = None THEN {i \in Items : db[i] = Absent}
  ELSE {i \in Items : i = call.item /\ db[i] # Absent}

Handle ==
  /\ AtHead("queued")
  /\ \E i \in Targets(queue[1]) :
       /\ db' = [db EXCEPT ![i] = queue[1].value]
       /\ queue' = [queue EXCEPT ![1].phase = "handled", ![1].item = i]
  /\ UNCHANGED <<list, listing, form, saving, dialog, closing, others, unseen, lost>>

\* The backend refuses: the item is gone, the name is taken, the role is in
\* use, the user is the caller or a super admin, the permission is missing.
Refuse ==
  /\ AtHead("queued")
  /\ queue' = [queue EXCEPT ![1].phase = "refused"]
  /\ UNCHANGED <<list, db, listing, form, saving, dialog, closing, others, unseen, lost>>

\* Mutant: the action does not revalidate its path.
RenderNothing ==
  /\ AtHead("handled")
  /\ queue' = [queue EXCEPT ![1].phase = "rendered", ![1].snap = rows]
  /\ UNCHANGED <<list, db, listing, form, saving, dialog, closing, others, unseen, lost>>

\* revalidatePath has the page rendered anew before the answer is sent.
Render ==
  /\ AtHead("handled")
  /\ queue' = [queue EXCEPT ![1].phase = "rendered", ![1].snap = db]
  /\ UNCHANGED <<list, db, listing, form, saving, dialog, closing, others, unseen, lost>>

\* The permissions cannot be fetched: the page is rendered without them.
RenderEmpty ==
  /\ AtHead("handled") /\ list = "permissions"
  /\ queue' = [queue EXCEPT ![1].phase = "rendered", ![1].snap = None]
  /\ UNCHANGED <<list, db, listing, form, saving, dialog, closing, others, unseen, lost>>

Refreshed ==
  IF queue[1].phase = "rendered"
  THEN /\ fetchError' = (queue[1].snap = None)
       /\ rows' = IF queue[1].snap = None THEN NoRows ELSE queue[1].snap
       /\ unseen' = queue[1].since
  ELSE UNCHANGED <<listing, unseen>>

\* Mutant: the return on an error comes before setSaving(false).
SaveAnsweredOnSuccess ==
  /\ (AtHead("refused") \/ AtHead("rendered")) /\ queue[1].what = "save"
  /\ queue' = Tail(queue) /\ Refreshed
  /\ saving' = (queue[1].phase = "refused")
  /\ form' = IF queue[1].phase = "rendered" \/ ~form.open THEN NoForm
             ELSE [form EXCEPT !.error = TRUE]
  /\ UNCHANGED <<list, db, dialog, closing, others, lost>>

\* The rest of handleSave: it closes, or shows its error in, the sheet that is open now.
SaveAnswered ==
  /\ (AtHead("refused") \/ AtHead("rendered")) /\ queue[1].what = "save"
  /\ queue' = Tail(queue) /\ Refreshed
  /\ saving' = FALSE
  /\ form' = IF queue[1].phase = "rendered" \/ ~form.open THEN NoForm
             ELSE [form EXCEPT !.error = TRUE]
  /\ UNCHANGED <<list, db, dialog, closing, others, lost>>

\* The rest of handleDelete, likewise.
DeleteAnswered ==
  /\ (AtHead("refused") \/ AtHead("rendered")) /\ queue[1].what = "delete"
  /\ queue' = Tail(queue) /\ Refreshed
  /\ deleting' = FALSE
  /\ deleteError' = (deleteError \/ queue[1].phase = "refused")
  /\ dialog' = IF queue[1].phase = "rendered" THEN NoDialog ELSE dialog
  /\ UNCHANGED <<list, db, form, saving, others, lost>>

\* The call of the action rejects: nothing of the handler after it runs.
Reject ==
  /\ queue # <<>>
  /\ queue' = Tail(queue)
  /\ unseen' = unseen \cup (IF queue[1].phase \in {"handled", "rendered"}
                            THEN {queue[1].item} ELSE {})
  /\ lost' = TRUE
  /\ UNCHANGED <<list, db, listing, form, saving, dialog, closing, others>>
-----------------------------------------------------------------------------
OtherAdmin ==
  /\ others < MaxOthers /\ others' = others + 1
  /\ \E i \in Items : \E v \in (Values \cup {Absent}) \ {db[i]} :
       /\ db' = [db EXCEPT ![i] = v]
       /\ unseen' = unseen \cup {i}
       /\ queue' = IF AtHead("rendered") THEN [queue EXCEPT ![1].since = @ \cup {i}] ELSE queue
  /\ UNCHANGED <<list, listing, form, saving, dialog, closing, lost>>

\* Another of the pages is opened, or this one again; while nobody looks at it
\* a list may change in any way.  Only the permissions are mounted without rows.
Mount(pages, contents, error) ==
  /\ list' \in pages /\ db' \in contents
  /\ fetchError' = error /\ rows' = IF error THEN NoRows ELSE db'
  /\ form' = NoForm /\ saving' = FALSE
  /\ dialog' = NoDialog /\ deleting' = FALSE /\ deleteError' = FALSE
  /\ queue' = <<>> /\ others' = 0 /\ unseen' = {} /\ lost' = FALSE

Operate == \/ OpenEdit \/ OpenCreate \/ SetField \/ HandleSave \/ CloseSheet
           \/ OpenDelete \/ HandleDelete \/ CloseDialog
Deliver == SaveAnswered \/ DeleteAnswered
-----------------------------------------------------------------------------
(***************************************************************************)
(* Properties.                                                             *)
(***************************************************************************)
\* A sheet that opened while nothing was being saved is closed, or shown an
\* error, by its own save alone: an answer that comes late, to a sheet closed
\* since, can reach only a sheet opened under its spinner.
AnswersOwn ==
  /\ form.open /\ form.clean => \A k \in Calls("save") : queue[k].own
  /\ dialog.item # None /\ dialog.clean => Calls("delete") = {}

\* What the page shows of an item is what the backend has, unless another
\* administrator changed it since or the answer is on its way: a write
\* confirmed to the user is on the list with it.  A page of permissions that
\* could not be fetched says so, and shows nothing for them.
ListIsTrue ==
  \A i \in Items : rows[i] # db[i] =>
    \/ fetchError /\ rows[i] = Absent
    \/ i \in unseen
    \/ queue # <<>> /\ queue[1].phase \in {"handled", "rendered"} /\ queue[1].item = i

\* A page never has two saves, or two deletions, under way: no role is created
\* twice by a second click.
OneOfEach == Cardinality(Calls("save")) <= 1 /\ Cardinality(Calls("delete")) <= 1

\* Calls and the forms they belong to do not get mixed up.
CallsApart == AnswersOwn /\ OneOfEach

\* Saving ends, whatever the server answers, unless the call itself failed
\* (handleSave has no try: then it lasts until the page is left).
SavingEnds == saving ~> (~saving \/ lost)
=============================================================================
