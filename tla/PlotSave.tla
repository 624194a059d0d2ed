------------------------------- MODULE PlotSave -------------------------------
(***************************************************************************)
(* How a drawing reaches the server: the 2 s autosave timer, the Save      *)
(* button, the create-or-update choice of performSave, the load of the     *)
(* sheet the URL names, and the sheets the backend keeps.  Requests are in *)
(* flight independently of each other, with no bound on how long: the      *)
(* timer fires, the user saves and the page is reloaded before an answer,  *)
(* the server takes requests in any order, and each answer runs the rest   *)
(* of the async function that sent it.                                     *)
(*                                                                         *)
(* A drawing is the set of the edits that went into it, so that a sheet    *)
(* that loses an edit, or gains one of another drawing, shows.             *)
(*                                                                         *)
(* Nothing in performSave or loadScene waits for an earlier request, so    *)
(* overlapping ones do go wrong, in three ways.  History variables and     *)
(* fields record exactly those, for the properties to name:                *)
(*   spare   a creation sent while the page's load, or another creation    *)
(*           of it, was under way, or one that the page took for failed:   *)
(*           the page creates, or loads, its sheet besides;                *)
(*   stale   a load that read the sheet with a save of it still under way, *)
(*           a creation whose drawing a load has taken off the editor, an  *)
(*           update that one sent no earlier has overtaken;                *)
(*   astray  a page that such a load or creation told its sheet.           *)
(***************************************************************************)
EXTENDS Integers, FiniteSets

CONSTANTS
  Ids,         \* sheet ids the database hands out
  NoId,        \* null
  FirstId,     \* the sheet that exists before the editor opens
  MaxEdits,    \* bound: edits made
  MaxUpsets,   \* bound: reloads, losses and deletions
  Slots,       \* bound: requests in flight at once
  Faults       \* TRUE: requests and answers may be lost, sheets deleted elsewhere

ASSUME IdsAssumption    == NoId \notin Ids /\ FirstId \in Ids
ASSUME BoundsAssumption ==
  /\ MaxEdits \in Nat /\ MaxUpsets \in Nat /\ IsFiniteSet(Slots) /\ IsFiniteSet(Ids)
  /\ Cardinality(Ids) > Cardinality(Slots) * (MaxUpsets + 1)
ASSUME FaultsAssumption == Faults \in BOOLEAN

VARIABLES
  drawing,     \* the edits the editor shows; edit 0 stands for FirstId's content
  edits,       \* number of edits made so far
  sheetId,     \* sheetIdRef
  url,         \* the sheet named in the address bar
  timer,       \* saveTimerRef is armed
  isSaving,
  requests,    \* what is in flight in each slot
  stored,      \* stored[id]: the edits the database has under id
  created,     \* ids handed out
  live,        \* those not deleted
  spare,       \* those made by spare creations (history)
  astray,      \* the page's sheet is not the one its drawing belongs to (history)
  upsets

client == <<drawing, edits, sheetId, url, timer, isSaving>>
server == <<stored, created, live, spare>>
vars   == <<client, requests, server, astray, upsets>>

Drawings == SUBSET (0..MaxEdits)

Idle == [kind |-> "idle"]

\* mine: the page that sent it still awaits it.  at: the edits made when it was
\* sent.  at, spare and stale are history.
Request == [kind : {"get", "create", "update"}, id : Ids \cup {NoId}, drawing : Drawings,
            state : {"sent", "handled", "failed"}, mine : BOOLEAN,
            at : 0..MaxEdits, spare : BOOLEAN, stale : BOOLEAN]

NewRequest(kind, id, d, extra, stale) ==
  [kind |-> kind, id |-> id, drawing |-> d, state |-> "sent", mine |-> TRUE,
   at |-> edits, spare |-> extra, stale |-> stale]

InFlight == {s \in Slots : requests[s] # Idle}

\* The creation r has made its sheet; the page is still to hear of it.
Made(r) == r.kind = "create" /\ r.state = "handled" /\ r.mine

\* The update r of the sheet id is still to be handled.
Sent(r, id) == r.kind = "update" /\ r.state = "sent" /\ r.id = id

\* The page awaits its sheet: from the load, or from a creation.
AwaitsSheet == \E s \in InFlight : requests[s].mine /\ requests[s].kind # "update"

-----------------------------------------------------------------------------
Init ==
  /\ drawing = {} /\ edits = 0
  /\ sheetId = NoId /\ url \in {NoId, FirstId}
  /\ timer = FALSE /\ isSaving = FALSE
  /\ stored = [id \in Ids |-> IF id = FirstId THEN {0} ELSE {}]
  /\ created = {FirstId} /\ live = {FirstId} /\ spare = {} /\ astray = FALSE /\ upsets = 0
  /\ requests \in [Slots -> {Idle, NewRequest("get", FirstId, {}, FALSE, FALSE)}]
  /\ Cardinality(InFlight) = IF url = NoId THEN 0 ELSE 1

\* record: the edit arms the timer anew.
Edit ==
  /\ edits < MaxEdits
  /\ edits' = edits + 1
  /\ drawing' = drawing \cup {edits'}
  /\ timer' = TRUE
  /\ UNCHANGED <<sheetId, url, isSaving, requests, server, astray, upsets>>

\* Undo, redo, clear, a panel's text, the sheet's name, size and grid change
\* what a save would send and arm no timer.
EditQuietly ==
  /\ edits < MaxEdits
  /\ edits' = edits + 1
  /\ drawing' = drawing \cup {edits'}
  /\ UNCHANGED <<sheetId, url, timer, isSaving, requests, server, astray, upsets>>

\* performSave up to its await
PerformSave(s) ==
  /\ requests[s] = Idle
  /\ requests' = [requests EXCEPT ![s] =
       IF sheetId = NoId THEN NewRequest("create", NoId, drawing, AwaitsSheet, FALSE)
       ELSE NewRequest("update", sheetId, drawing, FALSE, astray)]
  /\ isSaving' = TRUE

\* Mutant: a timer that finds a save under way gives up.
TimerFiresIfNotSaving(s) ==
  /\ timer
  /\ timer' = FALSE
  /\ IF isSaving THEN UNCHANGED <<isSaving, requests>> ELSE PerformSave(s)
  /\ UNCHANGED <<drawing, edits, sheetId, url, server, astray, upsets>>

TimerFires(s) ==
  /\ timer
  /\ PerformSave(s)
  /\ timer' = FALSE
  /\ UNCHANGED <<drawing, edits, sheetId, url, server, astray, upsets>>

\* doSave; the button is disabled while isSaving.
ClickSave(s) ==
  /\ ~isSaving
  /\ PerformSave(s)
  /\ timer' = FALSE
  /\ UNCHANGED <<drawing, edits, sheetId, url, server, astray, upsets>>

\* The sheet switcher and its "+ New Sheet" only push a URL, as the Back button
\* pops one: the page stays mounted and its effects do not run again.
SwitchSheet(id) ==
  /\ id \in created \cup {NoId}
  /\ url' = id
  /\ UNCHANGED <<drawing, edits, sheetId, timer, isSaving, requests, server, astray, upsets>>

\* The page is loaded anew from its URL.  Requests already sent still reach the
\* server; nobody awaits their answers.
Reload(s) ==
  /\ requests[s] = Idle
  /\ upsets < MaxUpsets /\ upsets' = upsets + 1
  /\ drawing' = {} /\ sheetId' = NoId
  /\ timer' = FALSE /\ isSaving' = FALSE /\ astray' = FALSE
  /\ requests' = [t \in Slots |->
       IF t = s /\ url # NoId THEN NewRequest("get", url, {}, FALSE, FALSE)
       ELSE IF t \in InFlight THEN [requests[t] EXCEPT !.mine = FALSE]
       ELSE Idle]
  /\ UNCHANGED <<edits, url, server>>

\* Backend: SheetService

\* A uuid never handed out before.
NewId == CHOOSE id \in Ids : id \notin created

HandleGet(s) ==
  LET r == requests[s] IN
  /\ r.kind = "get"
  /\ requests' = [requests EXCEPT ![s] =
       IF r.id \in live
       THEN [r EXCEPT !.drawing = stored[r.id], !.state = "handled",
                      !.stale = \E t \in Slots : Sent(requests[t], r.id)]
       ELSE [r EXCEPT !.state = "failed"]]
  /\ UNCHANGED server

HandleCreate(s) ==
  LET r == requests[s]  id == NewId IN
  /\ r.kind = "create" /\ created # Ids
  /\ stored' = [stored EXCEPT ![id] = r.drawing]
  /\ created' = created \cup {id} /\ live' = live \cup {id}
  /\ requests' = [requests EXCEPT ![s] = [r EXCEPT !.id = id, !.state = "handled"]]
  /\ spare' = IF r.spare THEN spare \cup {id} ELSE spare

HandleUpdate(s) ==
  LET r == requests[s] IN
  /\ r.kind = "update"
  /\ IF r.id \in live
     THEN /\ stored' = [stored EXCEPT ![r.id] = r.drawing]
          /\ requests' = [t \in Slots |->
               IF t = s THEN [r EXCEPT !.state = "handled"]
               ELSE IF Sent(requests[t], r.id) /\ requests[t].at <= r.at
               THEN [requests[t] EXCEPT !.stale = TRUE] ELSE requests[t]]
     ELSE /\ requests' = [requests EXCEPT ![s].state = "failed"]
          /\ UNCHANGED stored
  /\ UNCHANGED <<created, live, spare>>

Handle(s) ==
  /\ requests[s] # Idle /\ requests[s].state = "sent"
  /\ HandleGet(s) \/ HandleCreate(s) \/ HandleUpdate(s)
  /\ UNCHANGED <<client, astray, upsets>>

\* The request or its answer is lost: fetch rejects either way.
Lose(s) ==
  /\ Faults /\ upsets < MaxUpsets /\ upsets' = upsets + 1
  /\ requests[s] # Idle /\ requests[s].state # "failed"
  /\ requests' = [requests EXCEPT ![s].state = "failed"]
  /\ spare' = IF Made(requests[s]) THEN spare \cup {requests[s].id} ELSE spare
  /\ UNCHANGED <<client, astray, stored, created, live>>

\* The connection breaks with the request on its way: fetch rejects, and the
\* server handles it later.
GiveUp(s) ==
  /\ Faults /\ upsets < MaxUpsets /\ upsets' = upsets + 1
  /\ requests[s] # Idle /\ requests[s].state = "sent" /\ requests[s].mine
  /\ requests' = [requests EXCEPT ![s].mine = FALSE, ![s].spare = TRUE]
  /\ isSaving' = IF requests[s].kind # "get" THEN FALSE ELSE isSaving
  /\ UNCHANGED <<drawing, edits, sheetId, url, timer, server, astray>>

\* Deleted from the dashboard, in another tab.
Delete(id) ==
  /\ Faults /\ upsets < MaxUpsets /\ upsets' = upsets + 1
  /\ id \in live
  /\ live' = live \ {id}
  /\ UNCHANGED <<client, requests, astray, stored, created, spare>>

\* A request is done with; a load that goes through takes the drawing away from
\* under the creations sent before.
Done(s) ==
  LET r == requests[s]
      loaded == r.mine /\ r.state = "handled" /\ r.kind = "get"
  IN /\ requests' = [t \in Slots |->
          IF t = s THEN Idle
          ELSE IF loaded /\ requests[t].kind = "create"
          THEN [requests[t] EXCEPT !.stale = TRUE] ELSE requests[t]]
     /\ astray' = (astray \/ (r.mine /\ r.state = "handled" /\ r.kind # "update" /\ r.stale))

\* Mutant: a sheet that was created does not become the editor's sheet.
AnswerNotAttaching(s) ==
  LET r == requests[s] IN
  /\ r # Idle /\ r.state # "sent"
  /\ Done(s)
  /\ isSaving' = IF r.mine /\ r.kind # "get" THEN FALSE ELSE isSaving
  /\ IF r.mine /\ r.state = "handled" /\ r.kind = "get"
     THEN sheetId' = r.id /\ drawing' = r.drawing
     ELSE UNCHANGED <<sheetId, drawing>>
  /\ UNCHANGED <<edits, url, timer, server, upsets>>

\* Mutant: a load takes the sheet's id before, or without, its content.
AnswerIdOnly(s) ==
  LET r == requests[s] IN
  /\ r # Idle /\ r.state # "sent"
  /\ Done(s)
  /\ isSaving' = IF r.mine /\ r.kind # "get" THEN FALSE ELSE isSaving
  /\ IF r.mine /\ r.state = "handled" /\ r.kind # "update"
     THEN sheetId' = r.id /\ url' = r.id
     ELSE UNCHANGED <<sheetId, url>>
  /\ UNCHANGED <<drawing, edits, timer, server, upsets>>

\* Mutant: isSaving is cleared by success only, not in a finally.
AnswerNotFinally(s) ==
  LET r == requests[s] IN
  /\ r # Idle /\ r.state # "sent"
  /\ Done(s)
  /\ isSaving' = IF r.mine /\ r.kind # "get" /\ r.state = "handled" THEN FALSE ELSE isSaving
  /\ IF r.mine /\ r.state = "handled" /\ r.kind # "update"
     THEN /\ sheetId' = r.id
          /\ url' = IF r.kind = "create" THEN r.id ELSE url
          /\ drawing' = IF r.kind = "get" THEN r.drawing ELSE drawing
     ELSE UNCHANGED <<sheetId, url, drawing>>
  /\ UNCHANGED <<edits, timer, server, upsets>>

\* The continuation after the await: performSave's if the request was a save,
\* loadScene's if it was a get.
Answer(s) ==
  LET r == requests[s] IN
  /\ r # Idle /\ r.state # "sent"
  /\ Done(s)
  /\ isSaving' = IF r.mine /\ r.kind # "get" THEN FALSE ELSE isSaving
  /\ IF r.mine /\ r.state = "handled" /\ r.kind # "update"
     THEN /\ sheetId' = r.id
          /\ url' = IF r.kind = "create" THEN r.id ELSE url
          /\ drawing' = IF r.kind = "get" THEN r.drawing ELSE drawing
     ELSE UNCHANGED <<sheetId, url, drawing>>
  /\ UNCHANGED <<edits, timer, server, upsets>>

Next ==
  \/ Edit \/ EditQuietly
  \/ \E s \in Slots : TimerFires(s) \/ ClickSave(s) \/ Reload(s)
  \/ \E s \in Slots : Handle(s) \/ Lose(s) \/ GiveUp(s) \/ Answer(s)
  \/ \E id \in Ids \cup {NoId} : SwitchSheet(id)
  \/ \E id \in Ids : Delete(id)

Spec == Init /\ [][Next]_vars

\* The browser runs timers and continuations, the server answers.
Fairness ==
  /\ WF_vars(\E s \in Slots : TimerFires(s))
  /\ \A s \in Slots : WF_vars(Handle(s)) /\ WF_vars(Answer(s))

FairSpec == Spec /\ Fairness

-----------------------------------------------------------------------------
(* TypeOK: the editor, the requests and the sheets.                         *)
TypeOK ==
  /\ drawing \in Drawings /\ edits \in 0..MaxEdits
  /\ sheetId \in Ids \cup {NoId} /\ url \in Ids \cup {NoId}
  /\ timer \in BOOLEAN /\ isSaving \in BOOLEAN
  /\ requests \in [Slots -> Request \cup {Idle}]
  /\ stored \in [Ids -> Drawings] /\ created \subseteq Ids /\ live \subseteq created
  /\ spare \subseteq created /\ astray \in BOOLEAN /\ upsets \in 0..MaxUpsets

\* No sheet loses an edit, but to an update that is stale or astray.
KeepsEdits ==
  \A id \in live : \/ stored[id] \subseteq stored'[id]
                   \/ \E s \in Slots : /\ Sent(requests[s], id) /\ requests[s].stale
                                       /\ requests'[s].state = "handled"

(* NoLostEdit: an update of performSave takes no edit out of a sheet that   *)
(* an earlier save had put there, however requests overlap, fail and are    *)
(* answered, unless one sent no earlier has overtaken it, or the page that  *)
(* sent it was astray.  A creation, a load or a failure takes none out.     *)
NoLostEdit == [][KeepsEdits]_vars

(* OneSheetPerDrawing: performSave creates a sheet for a drawing once,      *)
(* whichever requests overlap, fail or come late and whenever the page is   *)
(* reloaded, but for the creations sent while it awaited its sheet, or      *)
(* answered by a failure.                                                   *)
OneSheetPerDrawing ==
  \A id1, id2 \in live \ spare : stored[id1] \cap stored[id2] # {} => id1 = id2

(* AttachedToItsSheet: the editor is attached to the sheet whose edits it   *)
(* shows: what it would save includes what that sheet has, at every moment  *)
(* of overlapping loads, saves and reloads, unless the page is astray.      *)
AttachedToItsSheet ==
  sheetId # NoId /\ ~astray => sheetId \in created /\ stored[sheetId] \subseteq drawing

(* EditsReachServer: an edit that armed the timer is in a stored sheet      *)
(* sooner or later, unless a load or a reload took it off the drawing.      *)
EditsReachServer ==
  \A n \in 1..MaxEdits :
    (timer /\ n \in drawing) ~> (n \notin drawing \/ \E id \in live : n \in stored[id])

(* SavingEnds: the Save button comes back; isSaving does not stay up.       *)
SavingEnds == isSaving ~> ~isSaving
=============================================================================
