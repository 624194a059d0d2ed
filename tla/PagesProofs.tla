----------------------------- MODULE PagesProofs -----------------------------
(***************************************************************************)
(* Theorems about the pages: the editor with its panel, for any objects,   *)
(* sheets, presets and drafts, the reset of a password, for any number of  *)
(* links, tabs and requests, and the chat's input, for any number of       *)
(* files, texts and submissions.                                           *)
(*                                                                         *)
(* The panel takes the drawing's steps and adds its own, so what           *)
(* PlotSceneProofs proves of the drawing holds on the page (EditorDraws),  *)
(* and the panel's invariants may rest on the drawing's types.             *)
(*                                                                         *)
(* In the chat the end of a submission clears away everything there is.    *)
(* That nothing is lost by it takes ClearsItsOwn: while it is under way    *)
(* there is nothing but what it took along and what came meanwhile.  That  *)
(* nothing goes out twice takes TakeTurns: what a submission has           *)
(* delivered, one that began after its end cannot have taken along.        *)
(***************************************************************************)
EXTENDS Pages, PlotSceneProofs, FiniteSetTheorems

-----------------------------------------------------------------------------
\* The editor

\* What the panel's invariants need beyond the properties.
PanelType ==
  /\ {stepLoaded, preview} \subseteq BOOLEAN
  /\ draft.w \in Int \cup {NotANumber} /\ draft.d \in Int \cup {NotANumber}

Panel ==
  /\ PanelType /\ SheetIsDrawn /\ StepIsDrawn /\ GhostFits
  /\ RotationFollows /\ PreviewAwaitsClick

\* A step of the page is a step of the drawing, or leaves it alone.
LEMMA DrawingStep ==
  ASSUME [PagesNext]_<<page, vvars, pvars, rvars>>
  PROVE  [Next]_vars
<1>1. CASE page = "plot" /\ VNext
  <2>1. ASSUME ToggleRotation \/ ToggleCfg \/ ApplySheet \/ \E mode \in {"2d", "3d"} : ViewMode(mode)
        PROVE  UNCHANGED vars
    BY <2>1 DEF ToggleRotation, ToggleCfg, ApplySheet, ViewMode, PanelChange
  <2>2. ASSUME NEW side, NEW n, Resize(side, n) \/ GridStep(n) \/ TypeDraft(side, n) \/ ApplyPreset(n)
        PROVE  UNCHANGED vars
    BY <2>2 DEF Resize, GridStep, TypeDraft, ApplyPreset, PanelChange
  <2>3. ASSUME Move
        PROVE  UNCHANGED vars
    BY <2>3 DEF Move
  <2>4. ASSUME VDropShape \/ VCancel \/ VUndo \/ VRedo \/ VRecord \/ VClear \/ VIdle
        PROVE  Next
    BY <2>4 DEF VDropShape, VCancel, VUndo, VRedo, VRecord, VClear, VIdle, Next
  <2>5. ASSUME NEW t \in Tools, VTool(t)
        PROVE  Next
    BY <2>5 DEF VTool, Next
  <2>6. ASSUME NEW o \in Objects, VFinishShape(o)
        PROVE  Next
    BY <2>6 DEF VFinishShape, Next
  <2>7. ASSUME NEW hit \in Objects \cup {NoObj}, NEW shift \in BOOLEAN, VSelect(hit, shift)
        PROVE  Next
    BY <2>7 DEF VSelect, Next
  <2>8. ASSUME NEW arrays \in Sheets, NEW data \in Stored, VLoad(arrays, data)
        PROVE  Next
    BY <2>8 DEF VLoad, Next
  <2> QED BY <1>1, <2>1, <2>2, <2>3, <2>4, <2>5, <2>6, <2>7, <2>8 DEF VNext
<1>2. CASE UNCHANGED vvars
  BY <1>2 DEF vvars
<1> QED BY <1>1, <1>2 DEF PagesNext

\* PlotScene's specification holds of the drawing on the page: its objects,
\* history and overlays behave as they do there, whatever the panel does.
THEOREM EditorDraws == PagesSpec => Spec
<1>1. PagesInit => Init
  BY DEF PagesInit, VInit
<1>2. [PagesNext]_<<page, vvars, pvars, rvars>> => [Next]_vars
  BY DrawingStep
<1> QED BY <1>1, <1>2, PTL DEF PagesSpec, Spec

\* The range of a side, whatever was typed.
LEMMA SidesInRange ==
  ASSUME NEW n \in Int \cup {NotANumber}
  PROVE  ParsedSide(n) \in Sides
BY ViewAssumption DEF ParsedSide, Sides

\* Two sides make a size, and numbers for the input fields.
LEMMA SizesAre ==
  ASSUME NEW w \in Sides, NEW d \in Sides
  PROVE  /\ [w |-> w, d |-> d] \in Sizes
         /\ w \in Int \cup {NotANumber} /\ d \in Int \cup {NotANumber}
BY DEF Sizes, Sides

\* The panel starts out right.
LEMMA PanelInit == PagesInit => Panel
<1> SUFFICES ASSUME PagesInit PROVE Panel
  OBVIOUS
<1>1. 20 \in Sides /\ 10 \in Steps
  BY DEF Sides, Steps
<1>2. SheetIsDrawn /\ StepIsDrawn /\ PanelType
  BY <1>1, SizesAre DEF PagesInit, VInit, SheetIsDrawn, StepIsDrawn, PanelType
<1>3. GhostFits /\ RotationFollows /\ PreviewAwaitsClick
  BY DEF PagesInit, VInit, Init, GhostFits, RotationFollows, PreviewAwaitsClick, Locked
<1> QED BY <1>2, <1>3 DEF Panel

\* Every step of the panel keeps its invariants.
LEMMA PanelSteps ==
  ASSUME Panel, VNext
  PROVE  Panel'
<1> USE DEF Panel, PanelType, SheetIsDrawn, StepIsDrawn, GhostFits, RotationFollows, PreviewAwaitsClick
<1>1. ASSUME ToggleRotation PROVE Panel'
  BY <1>1 DEF ToggleRotation, PanelChange, Locked, grid, cubes, vars, ui
<1>2. ASSUME ToggleCfg PROVE Panel'
  BY <1>2 DEF ToggleCfg, PanelChange, Locked, grid, cubes, camera, vars, ui
<1>3. ASSUME ApplySheet PROVE Panel'
  <2>1. ParsedSide(draft.w) \in Sides /\ ParsedSide(draft.d) \in Sides
    BY SidesInRange
  <2> QED BY <1>3, <2>1, SizesAre DEF ApplySheet, BuildGrid, PanelChange, Locked, cubes, camera, vars, ui
<1>4. ASSUME NEW mode \in {"2d", "3d"}, ViewMode(mode) PROVE Panel'
  BY <1>4 DEF ViewMode, PanelChange, Locked, grid, cubes, vars, ui
<1>5. ASSUME NEW side \in {"w", "h", "d"}, NEW n \in Extents, Resize(side, n) PROVE Panel'
  BY <1>5 DEF Resize, PanelChange, Locked, grid, camera, vars, ui
<1>6. ASSUME NEW dir \in {1, -1}, GridStep(dir) PROVE Panel'
  <2> DEFINE next == IF gridStep + dir < 1 THEN 1 ELSE IF gridStep + dir > 100 THEN 100
                     ELSE gridStep + dir
  <2>1. next \in Steps
    BY DEF Steps
  <2>2. CASE next = gridStep
    BY <1>6, <2>1, <2>2 DEF GridStep, PanelChange, Locked, cubes, camera, vars, ui
  <2>3. CASE next # gridStep
    <3>1. sheet.w \in Sides /\ sheet.d \in Sides
      BY DEF Sizes
    <3>2. gridStep' = next /\ BuildGrid(sheet.w, sheet.d)
      BY <1>6, <2>3 DEF GridStep
    <3>3. SheetIsDrawn' /\ StepIsDrawn' /\ PanelType'
      BY <1>6, <2>1, <3>1, <3>2, SizesAre DEF BuildGrid, GridStep
    <3> QED BY <1>6, <3>3 DEF GridStep, PanelChange, Locked, cubes, camera, vars, ui
  <2> QED BY <2>2, <2>3
<1>7. ASSUME NEW side \in {"w", "d"}, NEW n \in Drafts, TypeDraft(side, n) PROVE Panel'
  BY <1>7, ViewAssumption DEF TypeDraft, PanelChange, Locked, cubes, camera, vars, ui
<1>8. ASSUME NEW size \in Presets, ApplyPreset(size) PROVE Panel'
  <2>1. size.w \in Sides /\ size.d \in Sides
    BY ViewAssumption DEF Sizes
  <2> QED BY <1>8, <2>1, SizesAre DEF ApplyPreset, BuildGrid, PanelChange, Locked, cubes, camera, vars, ui
<1>9. ASSUME Move PROVE Panel'
  BY <1>9 DEF Move, Locked, grid, cubes, camera, vars, ui
<1>10. ASSUME NEW t \in Tools, VTool(t) PROVE Panel'
  BY <1>10 DEF VTool, DoTool, Locked, grid, cubes
<1>11. ASSUME VDropShape PROVE Panel'
  BY <1>11 DEF VDropShape, Escape, SecondClickTooSmall, Locked, grid, cubes, camera
<1>12. ASSUME NEW o \in Objects, VFinishShape(o) PROVE Panel'
  BY <1>12 DEF VFinishShape, SecondClick, Locked, grid, cubes, camera
<1>13. ASSUME VCancel PROVE Panel'
  BY <1>13 DEF VCancel, CancelText, CancelDiv, Locked, grid, cubes, camera
<1>14. ASSUME VUndo \/ VRedo PROVE Panel'
  BY <1>14 DEF VUndo, VRedo, Undo, Redo, Locked, grid, cubes, camera, ui
<1>15. ASSUME NEW hit \in Objects \cup {NoObj}, NEW shift \in BOOLEAN, VSelect(hit, shift) PROVE Panel'
  BY <1>15 DEF VSelect, SelectClick, Locked, grid, cubes, camera, ui
<1>16. ASSUME VRecord PROVE Panel'
  <2>1. UNCHANGED <<tool, anchor>>
    BY <1>16 DEF VRecord, DoFill, PencilUp, PlaceBlock, EraseAt, CommitText, PencilUpErasing, ui
  <2> QED BY <1>16, <2>1 DEF VRecord, Locked, grid, cubes, camera
<1>17. ASSUME VClear PROVE Panel'
  BY <1>17 DEF VClear, DoClear, Locked, grid, cubes, camera, ui
<1>18. ASSUME NEW arrays \in Sheets, NEW data \in Stored, VLoad(arrays, data) PROVE Panel'
  <2>1. data.w \in Sides /\ data.d \in Sides /\ data.step \in Steps
    BY ViewAssumption
  <2>2. SheetIsDrawn' /\ StepIsDrawn' /\ PanelType'
    BY <1>18, <2>1, SizesAre DEF VLoad
  <2> QED BY <1>18, <2>2 DEF VLoad, LoadScene, Locked, cubes, camera, ui
<1>19. ASSUME VIdle PROVE Panel'
  BY <1>19 DEF VIdle, FirstClick, TextClick, PencilLeave, CommitDiv, LoadFails, PencilDown, Locked, view,
     grid, cubes, camera, ui
<1> QED BY <1>1, <1>2, <1>3, <1>4, <1>5, <1>6, <1>7, <1>8, <1>9, <1>10, <1>11, <1>12, <1>13, <1>14,
           <1>15, <1>16, <1>17, <1>18, <1>19 DEF VNext

\* Every step of the pages keeps it so.
LEMMA PanelKept == PagesSpec => []Panel
<1>1. Panel /\ [PagesNext]_<<page, vvars, pvars, rvars>> => Panel'
  <2>1. CASE VNext
    BY <2>1, PanelSteps
  <2>2. CASE UNCHANGED vvars
    BY <2>2 DEF vvars, vars, ui, view, grid, camera, cubes, Panel, PanelType, SheetIsDrawn, StepIsDrawn,
       GhostFits, RotationFollows, PreviewAwaitsClick, Locked
  <2> QED BY <2>1, <2>2 DEF PagesNext
<1> QED BY <1>1, PanelInit, PTL DEF PagesSpec

\* The camera's lock follows the user's, the tool and the view, whichever handler
\* ran last (doTool, doToggleRotation, doViewMode).
THEOREM CameraFollows == PagesSpec => []RotationFollows
BY PanelKept, PTL DEF Panel

\* The sheet drawn, the one named and the one saved are one, and in the range
\* that the dialog promises.
THEOREM SheetStaysDrawn == PagesSpec => []SheetIsDrawn
BY PanelKept, PTL DEF Panel

\* The grid is drawn with its step, but for a load that brought another one.
THEOREM StepStaysDrawn == PagesSpec => []StepIsDrawn
BY PanelKept, PTL DEF Panel

\* The ghost has the size of the block to be placed.
THEOREM GhostAlwaysFits == PagesSpec => []GhostFits
BY PanelKept, PTL DEF Panel

\* No preview stays on display without a first click.
THEOREM PreviewsEnd == PagesSpec => []PreviewAwaitsClick
BY PanelKept, PTL DEF Panel

-----------------------------------------------------------------------------
\* The panel's copies of the counts

\* What is recorded can be undone.
LEMMA RecordedIsThere ==
  ASSUME TypeOK, NEW cmds \in Seq(Commands), RecordAll(cmds)
  PROVE  redoStack' = <<>> /\ undoStack' \in Seq(Commands)
BY ConcatProperties DEF RecordAll, TypeOK

\* What doUndo and doRedo make of the two flags.
LEMMA FlagsSet ==
  ASSUME NEW u, NEW r, NEW n, NEW x, NEW y
  PROVE  [[undo |-> u, redo |-> r, sel |-> n] EXCEPT !.undo = x, !.redo = y]
           = [undo |-> x, redo |-> y, sel |-> n]
<1> DEFINE b == [undo |-> u, redo |-> r, sel |-> n]
           c == [b EXCEPT !.undo = x]
<1>1. c = [undo |-> x, redo |-> r, sel |-> n]
  OBVIOUS
<1>2. [[undo |-> x, redo |-> r, sel |-> n] EXCEPT !.redo = y] = [undo |-> x, redo |-> y, sel |-> n]
  OBVIOUS
<1>3. [c EXCEPT !.redo = y] = [undo |-> x, redo |-> y, sel |-> n]
  BY <1>1, <1>2, Zenon
<1> QED BY <1>3, Zenon

\* Every step of the editor tells the buttons what there is to undo, redo and delete.
LEMMA ButtonSteps ==
  ASSUME TypeOK, ButtonsTell, VNext
  PROVE  ButtonsTell'
<1> DEFINE Flags(u, r, n) == [undo |-> u, redo |-> r, sel |-> n]
<1>0. buttons = Flags(undoStack # <<>>, redoStack # <<>>, Cardinality(selected))
  BY DEF ButtonsTell
<1>1. ASSUME UNCHANGED <<undoStack, redoStack, selected, buttons>> PROVE ButtonsTell'
  BY <1>0, <1>1 DEF ButtonsTell
<1>2. ASSUME SyncUI PROVE ButtonsTell'
  BY <1>2 DEF SyncUI, ButtonsTell
<1>3. ASSUME CountSelection, UNCHANGED <<undoStack, redoStack>> PROVE ButtonsTell'
  BY <1>0, <1>3 DEF CountSelection, ButtonsTell
<1>4. ASSUME VUndo PROVE ButtonsTell'
  <2>1. redoStack' # <<>> /\ selected' = selected
    BY <1>4, FrontLast, AppendProperties DEF VUndo, Undo, TypeOK
  <2>2. buttons' = [Flags(undoStack # <<>>, redoStack # <<>>, Cardinality(selected))
                      EXCEPT !.undo = (undoStack' # <<>>), !.redo = TRUE]
    BY <1>0, <1>4, Zenon DEF VUndo
  <2>3. buttons' = Flags(undoStack' # <<>>, TRUE, Cardinality(selected))
    BY <2>2, FlagsSet, Zenon
  <2> QED BY <2>1, <2>3 DEF ButtonsTell
<1>5. ASSUME VRedo PROVE ButtonsTell'
  <2>1. undoStack' # <<>> /\ selected' = selected
    BY <1>5, FrontLast, AppendProperties DEF VRedo, Redo, TypeOK
  <2>2. buttons' = [Flags(undoStack # <<>>, redoStack # <<>>, Cardinality(selected))
                      EXCEPT !.undo = TRUE, !.redo = (redoStack' # <<>>)]
    BY <1>0, <1>5, Zenon DEF VRedo
  <2>3. buttons' = Flags(TRUE, redoStack' # <<>>, Cardinality(selected))
    BY <2>2, FlagsSet, Zenon
  <2> QED BY <2>1, <2>3 DEF ButtonsTell
<1>6. ASSUME Reset(EmptySheet) \/ (\E arrays \in Sheets : Reset(arrays)),
             buttons' = Flags(FALSE, FALSE, 0)
      PROVE  ButtonsTell'
  <2>1. undoStack' = <<>> /\ redoStack' = <<>> /\ selected' = {}
    BY <1>6 DEF Reset
  <2>2. Cardinality(selected') = 0
    BY <2>1, FS_EmptySet
  <2> QED BY <1>6, <2>1, <2>2 DEF ButtonsTell
<1>7. ASSUME NEW side, NEW n,
             \/ ToggleRotation \/ ToggleCfg \/ ApplySheet \/ ViewMode(n) \/ Resize(side, n)
             \/ GridStep(n) \/ TypeDraft(side, n) \/ ApplyPreset(n)
      PROVE  ButtonsTell'
  BY <1>1, <1>7 DEF ToggleRotation, ToggleCfg, ApplySheet, ViewMode, Resize, GridStep, TypeDraft,
     ApplyPreset, PanelChange, vars, history
<1>8. ASSUME Move \/ VDropShape \/ VCancel \/ VIdle PROVE ButtonsTell'
  BY <1>1, <1>8 DEF Move, VDropShape, VCancel, VIdle, view, vars, history, Escape, SecondClickTooSmall,
     CancelText, CancelDiv, FirstClick, TextClick, PencilLeave, CommitDiv, LoadFails, PencilDown
<1>9. ASSUME NEW t, NEW shift, VTool(t) \/ VSelect(t, shift) PROVE ButtonsTell'
  BY <1>3, <1>9 DEF VTool, VSelect, DoTool, SelectClick, history
<1>10. ASSUME NEW o, VFinishShape(o) \/ VRecord PROVE ButtonsTell'
  BY <1>2, <1>10 DEF VFinishShape, VRecord
<1>11. ASSUME VClear \/ \E arrays \in Sheets, data \in Stored : VLoad(arrays, data) PROVE ButtonsTell'
  BY <1>6, <1>11 DEF VClear, VLoad, DoClear, LoadScene
<1> QED BY <1>4, <1>5, <1>7, <1>8, <1>9, <1>10, <1>11 DEF VNext

\* After any step the panel's undo, redo and fill buttons tell what the stacks
\* and the selection hold.
THEOREM ButtonsAlwaysTell == PagesSpec => []ButtonsTell
<1>1. PagesInit => TypeOK /\ ButtonsTell
  <2> SUFFICES ASSUME PagesInit PROVE TypeOK /\ ButtonsTell
    OBVIOUS
  <2>1. TypeOK
    BY EmptySeq DEF PagesInit, VInit, Init, TypeOK, EmptySheet, AllTools
  <2>2. Cardinality(selected) = 0
    BY FS_EmptySet DEF PagesInit, VInit, Init
  <2> QED BY <2>1, <2>2 DEF PagesInit, VInit, Init, ButtonsTell
<1>2. TypeOK /\ ButtonsTell /\ [PagesNext]_<<page, vvars, pvars, rvars>> => (TypeOK /\ ButtonsTell)'
  <2> SUFFICES ASSUME TypeOK, ButtonsTell, [PagesNext]_<<page, vvars, pvars, rvars>>
               PROVE  (TypeOK /\ ButtonsTell)'
    OBVIOUS
  <2>1. TypeOK'
    BY DrawingStep, TypeStep
  <2>2. CASE VNext
    BY <2>1, <2>2, ButtonSteps
  <2>3. CASE UNCHANGED vvars
    BY <2>1, <2>3 DEF vvars, vars, history, view, ButtonsTell
  <2> QED BY <2>2, <2>3 DEF PagesNext
<1> QED BY <1>1, <1>2, PTL DEF PagesSpec

\* What panel and canvas show is what the editor holds and a save stores.
THEOREM ViewAlwaysTells == PagesSpec => []ViewTells
BY SheetStaysDrawn, StepStaysDrawn, ButtonsAlwaysTell, GhostAlwaysFits, PreviewsEnd, PTL
   DEF ViewTells

-----------------------------------------------------------------------------
\* The reset of a password

SentRequest ==
  [form : Forms, link : Links \cup {NoLink},
   step : {"none", "sent", "read", "answered", "done", "refused", "undone"},
   heard : BOOLEAN, told : BOOLEAN, after : SUBSET Requests, over : SUBSET Requests]

ResetTypes ==
  /\ ask \in [Links -> {"none", "added", "answered", "done", "failed", "undone"}]
  /\ token \in [Links -> {"none", "unused", "used"}]
  /\ mailbox \subseteq Links /\ asked \in Links \cup {NoLink}
  /\ link \in [Forms -> Links \cup {NoLink}] /\ link[Profile] = NoLink
  /\ request \in [Requests -> SentRequest]
  /\ password \in Requests \cup {0}

\* Requests of tabs, and not those of the profile page, have a link once sent.
LinksOfTabs ==
  \A r \in Requests : request[r].form = Profile => request[r].link = NoLink

\* The row of a link tells whether a reset through it was committed, and it is
\* there once the request for it was.
RowsTell ==
  \A l \in Links :
    /\ token[l] = "none" <=> ask[l] # "done"
    /\ token[l] = "used" <=> \E r \in Done : request[r].link = l

\* A request that has read its token has seen no reset through it committed.
ReadUnspent ==
  \A r \in Requests :
    request[r].step \in {"read", "answered", "done", "undone"} =>
      /\ request[r].over \subseteq Done
      /\ request[r].link # NoLink =>
           /\ ask[request[r].link] = "done"
           /\ \A q \in request[r].over : request[q].link # request[r].link

\* A success is told of what was written.
ToldWritten == \A r \in Told : request[r].step \in {"answered", "done", "undone"}

\* What was told before a password was submitted had been written before; when
\* that password is written it no longer waits for its commit, and is not the
\* one that stands once that is done.
InTurn ==
  \A r, q \in Requests :
    r \in request[q].after =>
      /\ r # q /\ request[r].step \in {"answered", "done", "undone"}
      /\ request[q].step \in {"answered", "done"} => request[r].step # "answered"
      /\ request[q].step = "done" => password # r

ResetInv == ResetTypes /\ LinksOfTabs /\ RowsTell /\ ReadUnspent /\ ToldWritten /\ InTurn

\* No link is sent and no form open at first.
LEMMA ResetInit == PagesInit => ResetInv
<1> SUFFICES ASSUME PagesInit PROVE ResetInv
  OBVIOUS
<1>1. Done = {}
  BY DEF PagesInit, RInit, Done, Unsent, Request
<1>2. ResetTypes
  BY ResetAssumption DEF PagesInit, RInit, ResetTypes, SentRequest, Unsent, Request, Forms
<1> QED BY <1>1, <1>2 DEF PagesInit, RInit, ResetInv, LinksOfTabs, RowsTell, ReadUnspent, ToldWritten,
     InTurn, Told, Unsent, Request

\* Steps that leave requests and their links as they are.
LEMMA AskingSteps ==
  ASSUME ResetInv,
         \/ \E l \in Links \cup {NoLink} : Ask(l)
         \/ \E l \in Links : SendMail(l) \/ CommitToken(l) \/ Expire(l)
         \/ AskAnswered \/ AskAgain
  PROVE  ResetInv'
<1> USE DEF ResetInv, ResetTypes, LinksOfTabs, RowsTell, ReadUnspent, ToldWritten, InTurn, resetting, Done, Told
<1>1. ASSUME NEW l \in Links \cup {NoLink}, Ask(l) PROVE ResetInv'
  BY <1>1, ResetAssumption DEF Ask, CanAsk, SentRequest
<1>2. ASSUME NEW l \in Links, SendMail(l) PROVE ResetInv'
  BY <1>2 DEF SendMail
<1>3. ASSUME NEW l \in Links, CommitToken(l) PROVE ResetInv'
  BY <1>3 DEF CommitToken, SentRequest
<1>4. ASSUME NEW l \in Links, Expire(l) PROVE ResetInv'
  BY <1>4 DEF Expire
<1>5. ASSUME AskAnswered \/ AskAgain PROVE ResetInv'
  BY <1>5 DEF AskAnswered, AskAgain
<1> QED BY <1>1, <1>2, <1>3, <1>4, <1>5

\* What the steps make of a request.
LEMMA RequestSteps ==
  ASSUME NEW x \in SentRequest
  PROVE  /\ [x EXCEPT !.heard = TRUE] \in SentRequest
         /\ \A ok \in BOOLEAN : [x EXCEPT !.heard = TRUE, !.told = ok] \in SentRequest
         /\ \A step \in {"answered", "done", "refused", "undone"} :
              [x EXCEPT !.step = step] \in SentRequest
         /\ \A over \in SUBSET Requests : [x EXCEPT !.step = "read", !.over = over] \in SentRequest
<1> USE DEF SentRequest
<1>1. [x EXCEPT !.heard = TRUE] \in SentRequest
  OBVIOUS
<1>2. ASSUME NEW ok \in BOOLEAN PROVE [x EXCEPT !.heard = TRUE, !.told = ok] \in SentRequest
  OBVIOUS
<1>3. ASSUME NEW step \in {"answered", "done", "refused", "undone"}
      PROVE  [x EXCEPT !.step = step] \in SentRequest
  OBVIOUS
<1>4. ASSUME NEW over \in SUBSET Requests
      PROVE  [x EXCEPT !.step = "read", !.over = over] \in SentRequest
  OBVIOUS
<1> QED BY <1>1, <1>2, <1>3, <1>4

\* What a form hears changes nothing else.
LEMMA HeardOnly ==
  ASSUME ResetInv, ResetTypes', UNCHANGED <<asking, password>>,
         \A q \in Requests :
           /\ request'[q].form = request[q].form /\ request'[q].link = request[q].link
           /\ request'[q].step = request[q].step /\ request'[q].over = request[q].over
           /\ request'[q].after = request[q].after
           /\ request'[q].told => request[q].told \/ request[q].step \in {"answered", "done", "undone"}
  PROVE  ResetInv'
<1>1. Done' = Done /\ Done \subseteq Requests
  BY DEF Done
<1>2. \A q \in Requests : request[q].over \subseteq Requests
  BY DEF ResetInv, ResetTypes, SentRequest
<1>3. LinksOfTabs' /\ ToldWritten' /\ InTurn'
  BY <1>1 DEF ResetInv, LinksOfTabs, ToldWritten, InTurn, Told, asking
<1>4. RowsTell' /\ ReadUnspent'
  BY <1>1, <1>2 DEF ResetInv, RowsTell, ReadUnspent, asking
<1> QED BY <1>3, <1>4 DEF ResetInv

\* The steps of the forms.
LEMMA FormSteps ==
  ASSUME ResetInv,
         \/ \E f \in Forms : (\E l \in Links \cup {NoLink} : Open(f, l)) \/ Abandon(f)
         \/ \E f \in Forms, r \in Requests : HandleSubmit(f, r)
         \/ \E r \in Requests : Hear(r)
  PROVE  ResetInv'
<1>1. ASSUME NEW f \in Forms, NEW l \in Links \cup {NoLink}, Open(f, l) PROVE ResetInv'
  BY <1>1 DEF Open, ResetInv, ResetTypes, LinksOfTabs, RowsTell, ReadUnspent, ToldWritten, InTurn, Told, asking, Done
<1>2. ASSUME NEW f \in Forms, Abandon(f) PROVE ResetInv'
  <2>1. \A q \in Requests :
          request'[q] = IF request[q].form = f THEN [request[q] EXCEPT !.heard = TRUE] ELSE request[q]
    BY <1>2 DEF Abandon
  <2>2. request' \in [Requests -> SentRequest]
    BY <1>2, RequestSteps DEF Abandon, ResetInv, ResetTypes
  <2>3. ResetTypes'
    BY <1>2, <2>2 DEF Abandon, ResetInv, ResetTypes, asking
  <2>4. \A q \in Requests :
           /\ request'[q].form = request[q].form /\ request'[q].link = request[q].link
           /\ request'[q].step = request[q].step /\ request'[q].over = request[q].over
           /\ request'[q].after = request[q].after /\ request'[q].told = request[q].told
    <3> SUFFICES ASSUME NEW q \in Requests
                 PROVE  \A x \in {"form", "link", "step", "over", "after", "told"} : request'[q][x] = request[q][x]
      OBVIOUS
    <3>1. request[q] \in SentRequest
      BY DEF ResetInv, ResetTypes
    <3>2. CASE request[q].form = f
      BY <2>1, <3>1, <3>2 DEF SentRequest
    <3>3. CASE request[q].form # f
      BY <2>1, <3>3
    <3> QED BY <3>2, <3>3
  <2> QED BY <1>2, <2>3, <2>4, HeardOnly DEF Abandon
<1>3. ASSUME NEW f \in Forms, NEW r \in Requests, HandleSubmit(f, r) PROVE ResetInv'
  <2> DEFINE x == [Request(f, link[f], "sent") EXCEPT !.after = Told]
  <2>1. /\ x \in SentRequest /\ x.form = f /\ x.link = link[f] /\ x.step = "sent" /\ ~x.told
        /\ x.after = Told /\ x.over = {}
    BY DEF Request, SentRequest, Told, ResetInv, ResetTypes
  <2>2. request' = [request EXCEPT ![r] = x] /\ request[r].step = "none"
    BY <1>3 DEF HandleSubmit
  <2> HIDE DEF x
  <2>3. /\ request \in [Requests -> SentRequest] /\ request' \in [Requests -> SentRequest]
        /\ request'[r] = x /\ \A q \in Requests \ {r} : request'[q] = request[q]
    BY <2>1, <2>2 DEF ResetInv, ResetTypes
  <2>4. Done' = Done /\ r \notin Done /\ \A q \in Requests : request[q].over \subseteq Requests
    BY <2>1, <2>2, <2>3 DEF Done, SentRequest
  <2>5. UNCHANGED <<asking, link, password>>
    BY <1>3 DEF HandleSubmit
  <2>6. ResetTypes' /\ LinksOfTabs' /\ RowsTell' /\ ReadUnspent'
    BY <2>1, <2>2, <2>3, <2>4, <2>5 DEF ResetInv, ResetTypes, LinksOfTabs, RowsTell, ReadUnspent, asking
  <2>7. ToldWritten' /\ InTurn'
    BY <2>1, <2>2, <2>3, <2>5 DEF ResetInv, ToldWritten, InTurn, Told
  <2> QED BY <2>6, <2>7 DEF ResetInv
<1>4. ASSUME NEW r \in Requests, Hear(r) PROVE ResetInv'
  <2>1. PICK ok \in BOOLEAN :
          /\ ok => request[r].step \in {"answered", "done", "undone"}
          /\ request' = [request EXCEPT ![r].heard = TRUE, ![r].told = ok]
    BY <1>4 DEF Hear
  <2>2. request' \in [Requests -> SentRequest]
    BY <2>1, RequestSteps DEF ResetInv, ResetTypes
  <2>3. ResetTypes'
    BY <1>4, <2>2 DEF Hear, ResetInv, ResetTypes, asking
  <2>4. \A q \in Requests :
           /\ request'[q].form = request[q].form /\ request'[q].link = request[q].link
           /\ request'[q].step = request[q].step /\ request'[q].over = request[q].over
           /\ request'[q].after = request[q].after
           /\ request'[q].told => request[q].told \/ request[q].step \in {"answered", "done", "undone"}
    BY <2>1 DEF ResetInv, ResetTypes, SentRequest
  <2> QED BY <1>4, <2>3, <2>4, HeardOnly DEF Hear
<1> QED BY <1>1, <1>2, <1>3, <1>4

\* The steps of the backend's transactions.
LEMMA TransactionSteps ==
  ASSUME ResetInv, NEW r \in Requests, Begin(r) \/ Update(r) \/ Commit(r) \/ Abort(r)
  PROVE  ResetInv'
<1>t. /\ request \in [Requests -> SentRequest] /\ Done \subseteq Requests
      /\ \A q \in Requests : request[q].over \subseteq Requests
  BY DEF ResetInv, ResetTypes, SentRequest, Done
<1>1. CASE Begin(r) /\ request' = [request EXCEPT ![r].step = "read", ![r].over = Done]
  <2>1. request' \in [Requests -> SentRequest]
    BY <1>1, <1>t, RequestSteps
  <2>2. /\ request'[r].over = Done /\ request'[r].step = "read" /\ request[r].step = "sent"
        /\ request'[r].told = request[r].told /\ request'[r].after = request[r].after
        /\ \A q \in Requests : request'[q].link = request[q].link /\ request'[q].form = request[q].form
        /\ \A q \in Requests \ {r} : request'[q] = request[q]
    BY <1>1, <1>t DEF Begin, SentRequest
  <2>3. Done' = Done
    BY <2>2 DEF Done
  <2>4. request[r].link # NoLink =>
          /\ request[r].link \in Links /\ ask[request[r].link] = "done"
          /\ \A q \in Done : request[q].link # request[r].link
    BY <1>1, <1>t DEF Begin, Good, ResetInv, LinksOfTabs, RowsTell, SentRequest
  <2>5. ResetTypes' /\ LinksOfTabs' /\ RowsTell' /\ ToldWritten' /\ InTurn'
    BY <1>1, <2>1, <2>2, <2>3, <1>t DEF Begin, ResetInv, ResetTypes, LinksOfTabs, RowsTell, ToldWritten, InTurn, Told,
       asking
  <2>6. ReadUnspent'
    BY <1>1, <1>t, <2>2, <2>3, <2>4 DEF Begin, ResetInv, ReadUnspent, asking
  <2> QED BY <2>5, <2>6 DEF ResetInv
<1>2. CASE \/ Begin(r) /\ request' = [request EXCEPT ![r].step = "refused"]
           \/ Update(r) \/ Abort(r)
  <2>1. PICK step \in {"answered", "refused", "undone"} :
          /\ request' = [request EXCEPT ![r].step = step]
          /\ step \in {"answered", "undone"} => request[r].step \in {"read", "answered"}
          /\ request[r].step = "sent" \/ request[r].step = "read" \/ step = "undone"
          /\ request[r].step \in {"sent", "read", "answered"}
          /\ step = "answered" => \A q \in Requests : request[q].step # "answered"
    BY <1>2 DEF Begin, Update, Abort
  <2>2. request' \in [Requests -> SentRequest]
    BY <2>1, <1>t, RequestSteps
  <2>3. /\ request'[r].step = step /\ request'[r].told = request[r].told /\ request'[r].after = request[r].after
        /\ \A q \in Requests : /\ request'[q].link = request[q].link /\ request'[q].form = request[q].form
                               /\ request'[q].over = request[q].over
        /\ \A q \in Requests \ {r} : request'[q] = request[q]
    BY <2>1, <1>t DEF SentRequest
  <2>4. Done' = Done
    BY <2>1, <2>3 DEF Done
  <2>5. UNCHANGED <<asking, link, password>>
    BY <1>2 DEF Begin, Update, Abort
  <2>6. ResetTypes' /\ LinksOfTabs' /\ RowsTell' /\ ToldWritten' /\ InTurn'
    BY <2>1, <2>2, <2>3, <2>4, <2>5, <1>t DEF ResetInv, ResetTypes, LinksOfTabs, RowsTell, ToldWritten, InTurn, Told,
       asking
  <2>7. ReadUnspent'
    BY <1>t, <2>1, <2>3, <2>4, <2>5 DEF ResetInv, ReadUnspent, asking
  <2> QED BY <2>6, <2>7 DEF ResetInv
<1>3. CASE Commit(r)
  <2>1. request' \in [Requests -> SentRequest]
    BY <1>3, <1>t, RequestSteps DEF Commit
  <2>2. /\ request'[r].step = "done" /\ request'[r].told = request[r].told /\ request'[r].after = request[r].after
        /\ \A q \in Requests : /\ request'[q].link = request[q].link /\ request'[q].form = request[q].form
                               /\ request'[q].over = request[q].over
        /\ \A q \in Requests \ {r} : request'[q] = request[q]
    BY <1>3, <1>t DEF Commit, SentRequest
  <2>3. Done' = Done \cup {r}
    BY <2>2 DEF Done
  <2>4. \A l \in Links : token'[l] = IF l = request[r].link THEN "used" ELSE token[l]
    BY <1>3 DEF Commit
  <2>5. ResetTypes' /\ LinksOfTabs'
    BY <1>3, <2>1, <2>2 DEF Commit, ResetInv, ResetTypes, LinksOfTabs
  <2>6. RowsTell'
    <3>1. request[r].link \in Links => ask[request[r].link] = "done"
      BY <1>3, ResetAssumption DEF Commit, ResetInv, ReadUnspent
    <3> QED BY <1>3, <1>t, <2>2, <2>3, <2>4, <3>1 DEF Commit, ResetInv, RowsTell
  <2>7. ReadUnspent'
    BY <1>3, <1>t, <2>2, <2>3 DEF Commit, ResetInv, ReadUnspent
  <2>8. ToldWritten' /\ InTurn'
    BY <1>3, <2>2 DEF Commit, ResetInv, ToldWritten, InTurn, Told
  <2> QED BY <2>5, <2>6, <2>7, <2>8 DEF ResetInv
<1> QED BY <1>1, <1>2, <1>3 DEF Begin

\* Every step of the pages keeps the links and forms right.
LEMMA ResetKept == PagesSpec => []ResetInv
<1>1. ResetInv /\ [PagesNext]_<<page, vvars, pvars, rvars>> => ResetInv'
  <2>1. CASE RNext
    BY <2>1, AskingSteps, FormSteps, TransactionSteps DEF RNext
  <2>2. CASE UNCHANGED rvars
    BY <2>2 DEF rvars, ResetInv, ResetTypes, LinksOfTabs, RowsTell, ReadUnspent, ToldWritten, InTurn, Told, Done
  <2> QED BY <2>1, <2>2 DEF PagesNext
<1> QED BY <1>1, ResetInit, PTL DEF PagesSpec

\* Of two committed resets through one link, neither read the token after the
\* other's commit, however many links, tabs and requests there are.
THEOREM LinksAreSpentOnce == PagesSpec => []LinkSpentOnce
<1>1. ResetInv => LinkSpentOnce
  BY DEF ResetInv, ReadUnspent, LinkSpentOnce, Done
<1> QED BY <1>1, ResetKept, PTL

\* A committed link stays good until it expires or a reset through it is committed.
THEOREM LinksStand == PagesSpec => []LinkStands
<1>1. ResetInv => LinkStands
  BY DEF ResetInv, ResetTypes, RowsTell, LinkStands
<1> QED BY <1>1, ResetKept, PTL

\* A link is good for one reset, and stays good until then.
THEOREM LinksAlwaysGood == PagesSpec => []LinksAreGood
BY LinksAreSpentOnce, LinksStand, PTL DEF LinksAreGood

\* A password submitted after another was reported is never overwritten by that
\* one, for any number of forms, links and requests.
THEOREM LaterAlwaysStands == PagesSpec => []LaterStands
<1>1. ResetInv => LaterStands
  BY DEF ResetInv, ResetTypes, SentRequest, InTurn, LaterStands, Done
<1> QED BY <1>1, ResetKept, PTL
-----------------------------------------------------------------------------
\* The chat's input

Stages == {"new", "converting", "awaiting", "done", "failed"}

Finished == {s \in Submissions : stage[s] \in {"done", "failed"}}

PromptTypes ==
  /\ provider \in BOOLEAN /\ left \in BOOLEAN /\ outdated \in BOOLEAN
  /\ files \subseteq Files /\ url \in [Files -> {"none", "live", "revoked"}]
  /\ seen \in Nat /\ typed \in 0..seen
  /\ capture \in Nat \cup {NoCapture}
  /\ stage \in [Submissions -> Stages]
  /\ taken \in [Submissions -> [files : SUBSET Files, text : 0..seen]]
  /\ delivered \in [Submissions -> SUBSET Files] /\ removed \subseteq Files
  /\ midway \in [files : SUBSET Files, texts : SUBSET Nat]
  /\ overlap \in [Submissions -> SUBSET Submissions]
  /\ late \subseteq Files /\ replaced \subseteq Nat

\* Files are numbered as they come.
Numbered == \E n \in 0..MaxAdded : \A f \in Files : url[f] # "none" <=> f <= n

\* What a submission has taken along was attached; it hands over all of it or
\* nothing, and then none of that can be read any more.
TakenWhole ==
  \A s \in Submissions :
    /\ \A f \in taken[s].files : url[f] # "none"
    /\ delivered[s] # {} => stage[s] = "done" /\ delivered[s] = taken[s].files
    /\ \A f \in delivered[s] : url[f] # "live"

\* Everything that the end of a submission would clear away was taken along or
\* came meanwhile.
ClearsItsOwn ==
  \A s \in UnderWay :
    /\ files \subseteq taken[s].files \cup midway.files
    /\ provider => typed \in {NoText, taken[s].text} \cup midway.texts

\* Of two submissions that do not overlap one ended, and what it delivered the
\* other never had.
TakeTurns ==
  \A s, r \in Submissions :
    s # r /\ stage[s] # "new" /\ stage[r] # "new" /\ s \notin overlap[r] /\ r \notin overlap[s]
      => \/ s \in Finished /\ delivered[s] \cap taken[r].files = {}
         \/ r \in Finished /\ delivered[r] \cap taken[s].files = {}

\* What comes after the page was left is on no list and in no submission.
LateApart ==
  /\ late # {} => left
  /\ \A f \in files : url[f] # "none"
  /\ \A s \in Submissions : taken[s].files \cap late = {}

\* Where a text is.  A provider keeps it until a submission with it succeeds.
TextsKept ==
  \A t \in 1..seen :
    \/ left \/ t \in {typed} \cup replaced
    \/ provider /\ t \in midway.texts
    \/ \E s \in Submissions : taken[s].text = t /\ stage[s] # "new" /\ (provider => stage[s] = "done")

PromptInv ==
  /\ PromptTypes /\ Numbered /\ LiveIffListed /\ TakenWhole /\ ClearsItsOwn /\ TakeTurns
  /\ LateApart /\ NoFileLost /\ TextsKept /\ FilesLimited

\* The empty input starts out in order.
LEMMA PromptInit == PagesInit => PromptInv
<1> SUFFICES ASSUME PInit PROVE PromptInv
  BY DEF PagesInit
<1>1. PromptTypes
  <2>1. seen = 0 /\ typed \in 0..seen /\ [files |-> {}, text |-> NoText] \in [files : SUBSET Files, text : 0..seen]
    BY DEF PInit, NoText
  <2>2. /\ taken \in [Submissions -> [files : SUBSET Files, text : 0..seen]]
        /\ midway \in [files : SUBSET Files, texts : SUBSET Nat]
    BY <2>1 DEF PInit
  <2>3. /\ files \subseteq Files /\ url \in [Files -> {"none", "live", "revoked"}]
        /\ capture \in Nat \cup {NoCapture}
        /\ stage \in [Submissions -> Stages]
        /\ delivered \in [Submissions -> SUBSET Files] /\ removed \subseteq Files
        /\ overlap \in [Submissions -> SUBSET Submissions]
        /\ late \subseteq Files /\ replaced \subseteq Nat
    BY DEF PInit, Stages
  <2>4. provider \in BOOLEAN /\ left \in BOOLEAN /\ outdated \in BOOLEAN
    BY DEF PInit
  <2> QED BY <2>1, <2>2, <2>3, <2>4 DEF PromptTypes
<1>2. Numbered
  <2>1. 0 \in 0..MaxAdded /\ \A f \in Files : url[f] # "none" <=> f <= 0
    BY PromptAssumption DEF PInit, Files
  <2> QED BY <2>1 DEF Numbered
<1>3. FilesLimited
  BY FS_EmptySet, PromptAssumption DEF PInit, FilesLimited
<1>4. LiveIffListed /\ TakenWhole /\ ClearsItsOwn /\ TakeTurns /\ LateApart /\ NoFileLost /\ TextsKept
  BY DEF PInit, LiveIffListed, TakenWhole, ClearsItsOwn, TakeTurns, LateApart, NoFileLost, TextsKept, UnderWay
<1> QED BY <1>1, <1>2, <1>3, <1>4 DEF PromptInv

\* Attached is how many files were attached.
LEMMA AttachedIs ==
  ASSUME Numbered
  PROVE  Attached \in 0..MaxAdded /\ \A f \in Files : url[f] # "none" <=> f <= Attached
BY DEF Attached, Numbered

\* The list is finite.
LEMMA FilesFinite ==
  ASSUME PromptTypes
  PROVE  IsFiniteSet(files) /\ Cardinality(files) \in Nat
<1>1. IsFiniteSet(Files)
  BY FS_Interval, PromptAssumption DEF Files
<1> QED BY <1>1, FS_Subset, FS_CardinalityType DEF PromptTypes

\* So many files more make the list that much longer at most.
LEMMA LongerBy ==
  ASSUME NEW S, IsFiniteSet(S), NEW a \in Nat, NEW k \in Nat
  PROVE  Cardinality(S \cup (a + 1 .. a + k)) <= Cardinality(S) + k
<1> DEFINE I == a + 1 .. a + k
<1>1. IsFiniteSet(I) /\ Cardinality(I) = k
  <2>1. IsFiniteSet(I) /\ Cardinality(I) = IF a + 1 > a + k THEN 0 ELSE (a + k) - (a + 1) + 1
    BY FS_Interval
  <2> HIDE DEF I
  <2> QED BY <2>1
<1> HIDE DEF I
<1>2. Cardinality(S \cup I) = Cardinality(S) + Cardinality(I) - Cardinality(S \cap I)
  BY <1>1, FS_Union
<1>3. Cardinality(S \cap I) \in Nat /\ Cardinality(S) \in Nat
  <2>1. IsFiniteSet(S \cap I)
    BY FS_Subset
  <2> QED BY <2>1, FS_CardinalityType
<1>4. Cardinality(S \cup I) <= Cardinality(S) + k
  BY <1>1, <1>2, <1>3
<1> QED BY <1>4 DEF I

\* Files are attached and nothing else changes but the screenshot under way.
LEMMA AttachKeeps ==
  ASSUME PromptInv, ~left, NEW n \in Nat, NEW count \in Nat, Attached + n <= MaxAdded,
         Attach(n, count),
         \/ count = Cardinality(files) /\ outdated' = outdated
         \/ /\ provider \/ count = Cardinality(files)
            /\ outdated' = (outdated \/ count < Cardinality(files)),
         capture' \in Nat \cup {NoCapture},
         UNCHANGED <<provider, typed, stage, taken, left, removed, delivered, overlap, late,
                     seen, replaced>>
  PROVE  PromptInv'
<1> DEFINE a == Attached
           room == IF count > MaxFiles THEN 0 ELSE MaxFiles - count
           k == IF n > room THEN room ELSE n
           new == a + 1 .. a + k
<1>1. a \in 0..MaxAdded /\ \A f \in Files : url[f] # "none" <=> f <= a
  BY AttachedIs DEF PromptInv
<1>2. k \in Nat /\ k <= n /\ k <= room /\ room \in Nat /\ a \in Nat /\ a + k \in 0..MaxAdded
  BY <1>1, PromptAssumption
<1>3. /\ files' = files \cup new
      /\ url' = [f \in Files |-> IF f \in new THEN "live" ELSE url[f]]
      /\ midway' = IF UnderWay = {} THEN midway ELSE [midway EXCEPT !.files = @ \cup new]
  BY DEF Attach
<1>4. UnderWay' = UnderWay /\ Finished' = Finished
  BY DEF UnderWay, Finished
<1>5. new \subseteq Files /\ \A f \in new : url[f] = "none"
  BY <1>1, <1>2, PromptAssumption DEF Files
<1>6. FilesLimited'
  <2>1. Cardinality(files') <= Cardinality(files) + k /\ Cardinality(files) \in Nat
    BY <1>2, <1>3, LongerBy, FilesFinite DEF PromptInv
  <2>2. Cardinality(files') \in Nat
    <3>1. IsFiniteSet(Files)
      BY FS_Interval, PromptAssumption DEF Files
    <3>2. files' \subseteq Files
      BY <1>3, <1>5 DEF PromptInv, PromptTypes
    <3> QED BY <3>1, <3>2, FS_Subset, FS_CardinalityType
  <2> DEFINE c == Cardinality(files)
             d == Cardinality(files')
  <2> HIDE DEF c, d, k
  <2>3. CASE count > MaxFiles
    <3>1. k = 0
      BY <1>2, <2>3
    <3>2. d <= c
      BY <2>1, <2>2, <3>1 DEF c, d
    <3> QED BY <2>1, <2>2, <3>2, PromptAssumption DEF c, d, PromptInv, FilesLimited, PromptTypes
  <2>4. CASE count <= MaxFiles
    <3>1. k <= MaxFiles - count
      BY <1>2, <2>4, PromptAssumption
    <3>2. count >= c => d <= MaxFiles
      BY <1>2, <2>1, <2>2, <3>1, PromptAssumption DEF c, d
    <3>3. count < c => provider' /\ outdated'
      <4>1. count < c => count # c
        BY <2>1 DEF c
      <4> DEFINE short == count < c
      <4>2. short => count # c
        BY <4>1
      <4>3. outdated' = (outdated \/ short) \/ count = c
        BY DEF c
      <4>4. provider' \/ count = c
        BY DEF c
      <4> HIDE DEF short
      <4>5. short => provider' /\ outdated'
        BY <4>2, <4>3, <4>4, Zenon
      <4> QED BY <4>5 DEF short
    <3>4. count < c \/ count >= c
      BY <2>1 DEF c
    <3> QED BY <3>2, <3>3, <3>4 DEF d, FilesLimited
  <2> QED BY <2>3, <2>4, PromptAssumption
<1> HIDE DEF a, k, new
<1>7. PromptTypes'
  <2>1. midway' \in [files : SUBSET Files, texts : SUBSET Nat]
    BY <1>3, <1>5 DEF PromptInv, PromptTypes
  <2> QED BY <1>3, <1>5, <2>1 DEF PromptInv, PromptTypes
<1>8. Numbered'
  <2>1. \A f \in Files : url'[f] # "none" <=> f <= a + k
    BY <1>1, <1>2, <1>3, PromptAssumption DEF new, Files
  <2> QED BY <1>2, <2>1 DEF Numbered
<1>9. LiveIffListed' /\ LateApart'
  BY <1>3, <1>5 DEF PromptInv, PromptTypes, LiveIffListed, LateApart
<1>10. TakenWhole'
  BY <1>3, <1>5 DEF PromptInv, TakenWhole, PromptTypes
<1>11. ClearsItsOwn'
  <2>1. UnderWay # {} => midway'.files = midway.files \cup new /\ midway'.texts = midway.texts
    BY <1>3 DEF PromptInv, PromptTypes
  <2> QED BY <1>3, <1>4, <2>1 DEF PromptInv, ClearsItsOwn
<1>12. TakeTurns'
  BY <1>4 DEF PromptInv, TakeTurns
<1>13. midway.files \subseteq midway'.files /\ midway'.texts = midway.texts
  BY <1>3 DEF PromptInv, PromptTypes
<1>14. NoFileLost'
  BY <1>3, <1>13 DEF PromptInv, NoFileLost
<1>15. TextsKept'
  BY <1>4, <1>13 DEF PromptInv, TextsKept
<1> QED BY <1>6, <1>7, <1>8, <1>9, <1>10, <1>11, <1>12, <1>14, <1>15 DEF PromptInv

\* Files dropped, pasted, picked or captured get on the list.
LEMMA AttachingSteps ==
  ASSUME PromptInv, ~left, (\E n \in 1..2 : Offer(n)) \/ Captured
  PROVE  PromptInv'
<1>1. Cardinality(files) \in Nat /\ Attached \in 0..MaxAdded
  BY FilesFinite, AttachedIs DEF PromptInv
<1>2. ASSUME NEW n \in 1..2, Offer(n) PROVE PromptInv'
  <2>1. capture' \in Nat \cup {NoCapture}
    BY <1>2 DEF Offer, PromptInv, PromptTypes
  <2> QED BY <1>1, <1>2, <2>1, AttachKeeps DEF Offer
<1>3. CASE Captured
  <2> DEFINE count == Counted
  <2>1. /\ capture # NoCapture /\ Attached < MaxAdded
        /\ Attach(1, count)
        /\ outdated' = (outdated \/ count < Cardinality(files))
        /\ capture' = NoCapture
        /\ UNCHANGED <<provider, typed, stage, taken, left, removed, delivered, overlap, late,
                       seen, replaced>>
    BY <1>3 DEF Captured
  <2>2. count \in Nat /\ Attached + 1 <= MaxAdded
    BY <1>1, <2>1, PromptAssumption DEF PromptInv, PromptTypes, Counted
  <2>3. provider \/ count = Cardinality(files)
    BY DEF Counted
  <2> HIDE DEF count
  <2> QED BY <2>1, <2>2, <2>3, AttachKeeps
<1> QED BY <1>2, <1>3

\* A screenshot is asked for or refused.
LEMMA CaptureSteps ==
  ASSUME PromptInv, StartCapture \/ CaptureRefused
  PROVE  PromptInv'
<1>1. capture' \in Nat \cup {NoCapture}
  BY FilesFinite DEF StartCapture, CaptureRefused, PromptInv
<1>2. UNCHANGED <<provider, files, url, typed, stage, taken, left, ghosts>>
  BY DEF StartCapture, CaptureRefused
<1>3. UnderWay' = UnderWay /\ Finished' = Finished
  BY <1>2 DEF UnderWay, Finished
<1>4. PromptTypes'
  BY <1>1, <1>2 DEF ghosts, PromptInv, PromptTypes
<1>5. /\ Numbered' /\ LiveIffListed' /\ TakenWhole' /\ ClearsItsOwn' /\ TakeTurns'
      /\ LateApart' /\ NoFileLost' /\ TextsKept' /\ FilesLimited'
  BY <1>2, <1>3 DEF ghosts, PromptInv, Numbered, LiveIffListed, TakenWhole, ClearsItsOwn, TakeTurns,
    LateApart, NoFileLost, TextsKept, FilesLimited
<1> QED BY <1>4, <1>5 DEF PromptInv

\* The user takes a file off the list.
LEMMA DiscardSteps ==
  ASSUME PromptInv, NEW f \in Files, Discard(f)
  PROVE  PromptInv'
<1>1. /\ files' = files \ {f} /\ url' = [url EXCEPT ![f] = "revoked"]
      /\ removed' = removed \cup {f} /\ f \in files /\ url[f] = "live" /\ late = {}
      /\ UNCHANGED <<provider, typed, capture, stage, taken, left,
                     delivered, midway, overlap, late, seen, replaced, outdated>>
  BY DEF Discard, RemoveFile, PromptInv, LiveIffListed, LateApart
<1>2. UnderWay' = UnderWay /\ Finished' = Finished
  BY <1>1 DEF UnderWay, Finished
<1>3. PromptTypes'
  BY <1>1 DEF PromptInv, PromptTypes
<1>4. \A g \in Files : url'[g] # "none" <=> url[g] # "none"
  BY <1>1 DEF PromptInv, PromptTypes
<1>5. Numbered'
  BY <1>4 DEF PromptInv, Numbered
<1>6. LiveIffListed' /\ LateApart'
  BY <1>1, <1>4 DEF PromptInv, PromptTypes, LiveIffListed, LateApart
<1>7. TakenWhole'
  BY <1>1 DEF PromptInv, PromptTypes, TakenWhole
<1>8. ClearsItsOwn' /\ TakeTurns'
  BY <1>1, <1>2 DEF PromptInv, ClearsItsOwn, TakeTurns
<1>9. NoFileLost' /\ TextsKept'
  BY <1>1, <1>2 DEF PromptInv, PromptTypes, NoFileLost, TextsKept
<1>10. Cardinality(files') <= Cardinality(files) /\ Cardinality(files) \in Nat /\ Cardinality(files') \in Nat
  <2>1. IsFiniteSet(files) /\ Cardinality(files) \in Nat
    BY FilesFinite DEF PromptInv
  <2>2. IsFiniteSet(files \ {f}) /\ Cardinality(files \ {f}) = Cardinality(files) - 1
    BY <1>1, <2>1, FS_RemoveElement
  <2>3. Cardinality(files \ {f}) \in Nat
    BY <2>2, FS_CardinalityType
  <2> QED BY <1>1, <2>1, <2>2, <2>3
<1>11. FilesLimited'
  BY <1>1, <1>10, PromptAssumption DEF PromptInv, FilesLimited
<1> QED BY <1>3, <1>5, <1>6, <1>7, <1>8, <1>9, <1>11 DEF PromptInv

\* The user types another text.
LEMMA TypingStep ==
  ASSUME PromptInv, Type
  PROVE  PromptInv'
<1>1. /\ seen' = seen + 1 /\ typed' = seen + 1 /\ seen \in Nat
      /\ replaced' = replaced \cup ({typed} \ {NoText})
      /\ midway' = IF UnderWay = {} THEN midway ELSE [midway EXCEPT !.texts = @ \cup {seen + 1}]
      /\ UNCHANGED <<provider, files, url, capture, stage, taken, left,
                     removed, delivered, overlap, late, outdated>>
  BY DEF Type, PromptInv, PromptTypes
<1>2. UnderWay' = UnderWay /\ Finished' = Finished
  BY <1>1 DEF UnderWay, Finished
<1>3. /\ midway'.files = midway.files /\ midway.texts \subseteq midway'.texts
      /\ UnderWay # {} => typed' \in midway'.texts
      /\ midway' \in [files : SUBSET Files, texts : SUBSET Nat]
  BY <1>1 DEF PromptInv, PromptTypes
<1>4. 0..seen \subseteq 0..seen' /\ seen' \in Nat /\ typed' \in 0..seen' /\ 0..seen \subseteq Nat
  BY <1>1
<1>5. taken' \in [Submissions -> [files : SUBSET Files, text : 0..seen']]
  <2> DEFINE before == 0..seen
             after  == 0..seen'
  <2>1. before \subseteq after /\ taken' = taken
    BY <1>1, <1>4
  <2>2. taken \in [Submissions -> [files : SUBSET Files, text : before]]
    BY DEF PromptInv, PromptTypes
  <2> HIDE DEF before, after
  <2>3. taken' \in [Submissions -> [files : SUBSET Files, text : after]]
    BY <2>1, <2>2
  <2> QED BY <2>3 DEF after
<1>6. PromptTypes'
  BY <1>1, <1>3, <1>4, <1>5 DEF PromptInv, PromptTypes
<1>7. ClearsItsOwn'
  BY <1>1, <1>2, <1>3 DEF PromptInv, ClearsItsOwn
<1>8. TextsKept'
  <2> SUFFICES ASSUME NEW t \in 1..seen'
               PROVE  \/ left \/ t \in {typed'} \cup replaced'
                      \/ provider /\ t \in midway'.texts
                      \/ \E s \in Submissions : taken[s].text = t /\ stage[s] # "new" /\ (provider => stage[s] = "done")
    BY <1>1 DEF TextsKept
  <2>1. CASE t = typed'
    BY <2>1
  <2>2. CASE t # typed'
    <3>1. t \in 1..seen /\ t # NoText
      BY <1>1, <2>2 DEF NoText
    <3> QED BY <1>1, <1>3, <3>1 DEF PromptInv, TextsKept
  <2> QED BY <2>1, <2>2
<1>9. Numbered' /\ LiveIffListed' /\ TakenWhole' /\ TakeTurns' /\ LateApart' /\ NoFileLost' /\ FilesLimited'
  BY <1>1, <1>2, <1>3 DEF PromptInv, Numbered, LiveIffListed, TakenWhole, TakeTurns, LateApart, NoFileLost,
    FilesLimited
<1> QED BY <1>6, <1>7, <1>8, <1>9 DEF PromptInv

\* A submission takes along what there is.
LEMMA SubmitStep ==
  ASSUME PromptInv, NEW s \in Submissions, Submit(s)
  PROVE  PromptInv'
<1>1. /\ stage[s] = "new"
      /\ stage' = [stage EXCEPT ![s] = "converting"]
      /\ taken' = [taken EXCEPT ![s] = [files |-> files, text |-> typed]]
      /\ typed' = IF provider THEN typed ELSE NoText
      /\ overlap' = [overlap EXCEPT ![s] = UnderWay]
      /\ UNCHANGED <<provider, files, url, capture, left,
                     removed, delivered, midway, late, seen, replaced, outdated>>
      /\ ~left /\ late = {}
  BY DEF Submit, PromptInv, LateApart
<1>2. /\ UnderWay' = UnderWay \cup {s} /\ Finished' = Finished /\ s \notin UnderWay
      /\ \A r \in Submissions : r \in UnderWay \/ r \in Finished \/ stage[r] = "new"
  BY <1>1 DEF UnderWay, Finished, PromptInv, PromptTypes, Stages
<1>3. /\ taken'[s].files = files /\ taken'[s].text = typed
      /\ \A r \in Submissions \ {s} : taken'[r] = taken[r] /\ overlap'[r] = overlap[r] /\ stage'[r] = stage[r]
      /\ overlap'[s] = UnderWay /\ stage'[s] = "converting"
  BY <1>1 DEF PromptInv, PromptTypes
<1>4. PromptTypes'
  <2>1. 0 \in 0..seen /\ UnderWay \subseteq Submissions
    BY DEF PromptInv, PromptTypes, UnderWay
  <2>2. taken' \in [Submissions -> [files : SUBSET Files, text : 0..seen]]
    BY <1>1 DEF PromptInv, PromptTypes
  <2>3. stage' \in [Submissions -> Stages] /\ overlap' \in [Submissions -> SUBSET Submissions]
    BY <1>1, <2>1 DEF PromptInv, PromptTypes, Stages
  <2>4. typed' \in 0..seen
    BY <1>1, <2>1 DEF PromptInv, PromptTypes, NoText
  <2> QED BY <1>1, <2>2, <2>3, <2>4 DEF PromptInv, PromptTypes
<1>5. \A f \in files : url[f] = "live"
  BY <1>1 DEF PromptInv, PromptTypes, LiveIffListed
<1>6. TakenWhole'
  BY <1>1, <1>3, <1>5 DEF PromptInv, TakenWhole
<1>7. ClearsItsOwn'
  BY <1>1, <1>2, <1>3 DEF PromptInv, ClearsItsOwn, UnderWay
<1>8. TakeTurns'
  <2>1. ASSUME NEW r \in Finished PROVE delivered[r] \cap files = {}
    BY <1>5, <2>1 DEF PromptInv, TakenWhole, Finished
  <2> SUFFICES ASSUME NEW q \in Submissions, NEW r \in Submissions, q # r, stage'[q] # "new", stage'[r] # "new",
                      q \notin overlap'[r], r \notin overlap'[q]
               PROVE  \/ q \in Finished /\ delivered[q] \cap taken'[r].files = {}
                      \/ r \in Finished /\ delivered[r] \cap taken'[q].files = {}
    BY <1>1, <1>2 DEF TakeTurns
  <2>2. CASE q = s
    BY <1>2, <1>3, <2>1, <2>2
  <2>3. CASE r = s
    BY <1>2, <1>3, <2>1, <2>3
  <2>4. CASE q # s /\ r # s
    BY <1>3, <2>4 DEF PromptInv, TakeTurns
  <2> QED BY <2>2, <2>3, <2>4
<1>9. TextsKept'
  <2> SUFFICES ASSUME NEW t \in 1..seen
               PROVE  \/ t \in {typed'} \cup replaced
                      \/ provider /\ t \in midway.texts
                      \/ \E r \in Submissions : taken'[r].text = t /\ stage'[r] # "new" /\ (provider => stage'[r] = "done")
    BY <1>1 DEF TextsKept
  <2>1. CASE t = typed
    BY <1>1, <1>3, <2>1
  <2>2. CASE \E r \in Submissions : taken[r].text = t /\ stage[r] # "new" /\ (provider => stage[r] = "done")
    <3>1. PICK r \in Submissions : taken[r].text = t /\ stage[r] # "new" /\ (provider => stage[r] = "done")
      BY <2>2
    <3>2. r # s
      BY <1>1, <3>1
    <3> QED BY <1>3, <3>1, <3>2
  <2> QED BY <1>1, <2>1, <2>2 DEF PromptInv, TextsKept
<1>10. Numbered' /\ LiveIffListed' /\ LateApart' /\ NoFileLost' /\ FilesLimited'
  <2>1. LateApart'
    BY <1>1 DEF PromptInv, LateApart
  <2> QED BY <1>1, <2>1 DEF PromptInv, Numbered, LiveIffListed, NoFileLost, FilesLimited
<1> QED BY <1>4, <1>6, <1>7, <1>8, <1>9, <1>10 DEF PromptInv

\* A submission succeeds: what it took along is delivered, and everything there
\* is is cleared away.
LEMMA SucceedKeeps ==
  ASSUME PromptInv, ~left, NEW s \in UnderWay, Succeed(s),
         UNCHANGED <<provider, capture, taken, left, removed, midway, overlap, late, seen, replaced, outdated>>
  PROVE  PromptInv'
<1>1. /\ stage' = [stage EXCEPT ![s] = "done"]
      /\ delivered' = [delivered EXCEPT ![s] = taken[s].files]
      /\ files' = {}
      /\ url' = [f \in Files |-> IF f \in files THEN "revoked" ELSE url[f]]
      /\ typed' = IF provider THEN NoText ELSE typed
      /\ late = {}
  BY DEF Succeed, ClearAll, PromptInv, LateApart
<1>2. /\ s \in Submissions /\ s \notin Finished
      /\ UnderWay' = UnderWay \ {s} /\ Finished' = Finished \cup {s}
      /\ \A r \in UnderWay' : stage'[r] = stage[r]
      /\ \A r \in Submissions : stage'[r] # "new" <=> stage[r] # "new"
  BY <1>1 DEF UnderWay, Finished, PromptInv, PromptTypes
<1>3. /\ delivered'[s] = taken[s].files /\ stage'[s] = "done" /\ delivered[s] = {}
      /\ \A r \in Submissions \ {s} : delivered'[r] = delivered[r] /\ stage'[r] = stage[r]
      /\ \A r \in Submissions : delivered[r] \subseteq delivered'[r]
  BY <1>1, <1>2 DEF PromptInv, PromptTypes, TakenWhole, Finished
<1>4. \A f \in Files : /\ url'[f] # "live"
                       /\ url'[f] # "none" <=> url[f] # "none"
                       /\ url'[f] = "revoked" => f \in files \/ url[f] = "revoked"
  BY <1>1 DEF PromptInv, PromptTypes, LiveIffListed
<1>5. PromptTypes'
  <2>1. url' \in [Files -> {"none", "live", "revoked"}]
    BY <1>1 DEF PromptInv, PromptTypes
  <2>2. stage' \in [Submissions -> Stages]
    BY <1>1 DEF PromptInv, PromptTypes, Stages
  <2>3. delivered' \in [Submissions -> SUBSET Files]
    BY <1>1, <1>2 DEF PromptInv, PromptTypes
  <2>4. typed' \in 0..seen
    BY <1>1 DEF PromptInv, PromptTypes, NoText
  <2>5. files' \subseteq Files
    BY <1>1
  <2> QED BY <2>1, <2>2, <2>3, <2>4, <2>5 DEF PromptInv, PromptTypes
<1>6. Numbered'
  BY <1>4 DEF PromptInv, Numbered
<1>7. LiveIffListed' /\ LateApart'
  BY <1>1, <1>4 DEF LiveIffListed, LateApart
<1>8. TakenWhole'
  <2> SUFFICES ASSUME NEW r \in Submissions
               PROVE  /\ \A f \in taken[r].files : url'[f] # "none"
                      /\ delivered'[r] # {} => stage'[r] = "done" /\ delivered'[r] = taken[r].files
                      /\ \A f \in delivered'[r] : url'[f] # "live"
    BY DEF TakenWhole
  <2>1. taken[r].files \subseteq Files /\ delivered'[r] \subseteq Files
    BY <1>5 DEF PromptInv, PromptTypes
  <2>2. \A f \in taken[r].files : url'[f] # "none"
    BY <1>4, <2>1 DEF PromptInv, TakenWhole
  <2>3. delivered'[r] # {} => stage'[r] = "done" /\ delivered'[r] = taken[r].files
    BY <1>3 DEF PromptInv, TakenWhole
  <2> QED BY <1>4, <2>1, <2>2, <2>3
<1>9. ClearsItsOwn'
  BY <1>1, <1>2 DEF PromptInv, ClearsItsOwn
<1>10. TakeTurns'
  <2> SUFFICES ASSUME NEW q \in Submissions, NEW r \in Submissions, q # r, stage[q] # "new", stage[r] # "new",
                      q \notin overlap[r], r \notin overlap[q]
               PROVE  \/ q \in Finished' /\ delivered'[q] \cap taken[r].files = {}
                      \/ r \in Finished' /\ delivered'[r] \cap taken[q].files = {}
    BY <1>2 DEF TakeTurns
  <2>1. \/ q \in Finished /\ delivered[q] \cap taken[r].files = {}
        \/ r \in Finished /\ delivered[r] \cap taken[q].files = {}
    BY DEF PromptInv, TakeTurns
  <2> QED BY <1>2, <1>3, <2>1
<1>11. NoFileLost'
  <2> SUFFICES ASSUME NEW f \in Files, url'[f] = "revoked"
               PROVE  f \in removed \cup (UNION {delivered'[r] : r \in Submissions}) \cup midway.files
    BY DEF NoFileLost
  <2>1. CASE f \in files
    <3>1. f \in taken[s].files \cup midway.files
      BY <2>1 DEF PromptInv, ClearsItsOwn
    <3>2. f \in taken[s].files => \E r \in Submissions : f \in delivered'[r]
      BY <1>2, <1>3
    <3> QED BY <3>1, <3>2
  <2>2. CASE url[f] = "revoked"
    BY <1>3, <2>2 DEF PromptInv, NoFileLost
  <2> QED BY <1>4, <2>1, <2>2
<1>12. TextsKept'
  <2> SUFFICES ASSUME NEW t \in 1..seen
               PROVE  \/ t \in {typed'} \cup replaced
                      \/ provider /\ t \in midway.texts
                      \/ \E r \in Submissions : taken[r].text = t /\ stage'[r] # "new" /\ (provider => stage'[r] = "done")
    BY DEF TextsKept
  <2>1. t # NoText
    BY DEF NoText
  <2>2. CASE t = typed
    <3>1. provider => t = taken[s].text \/ t \in midway.texts
      <4>1. provider => typed \in {NoText, taken[s].text} \cup midway.texts
        BY DEF PromptInv, ClearsItsOwn
      <4>2. typed \in {NoText, taken[s].text} \cup midway.texts => t = taken[s].text \/ t \in midway.texts
        BY <2>1, <2>2
      <4> QED BY <4>1, <4>2, Zenon
    <3>2. ~provider => typed' = typed
      BY <1>1
    <3> QED BY <1>2, <1>3, <2>2, <3>1, <3>2
  <2>3. CASE \E r \in Submissions : taken[r].text = t /\ stage[r] # "new" /\ (provider => stage[r] = "done")
    <3>1. PICK r \in Submissions : taken[r].text = t /\ stage[r] # "new" /\ (provider => stage[r] = "done")
      BY <2>3
    <3>2. stage'[r] # "new" /\ (provider => stage'[r] = "done")
      BY <1>2, <1>3, <3>1
    <3> QED BY <3>1, <3>2
  <2> QED BY <2>2, <2>3 DEF PromptInv, TextsKept
<1>13. FilesLimited'
  BY <1>1, FS_EmptySet, PromptAssumption DEF FilesLimited
<1> QED BY <1>5, <1>6, <1>7, <1>8, <1>9, <1>10, <1>11, <1>12, <1>13 DEF PromptInv

\* So it is after the page was left, when nothing is cleared away.
LEMMA SucceedLeft ==
  ASSUME PromptInv, left, NEW s \in UnderWay, Succeed(s),
         UNCHANGED <<provider, capture, taken, left, removed, midway, overlap, late, seen, replaced, outdated>>
  PROVE  PromptInv'
<1>1. /\ stage' = [stage EXCEPT ![s] = "done"]
      /\ delivered' = [delivered EXCEPT ![s] = taken[s].files]
      /\ UNCHANGED <<files, url, typed>>
  BY DEF Succeed, ClearAll
<1>2. /\ s \in Submissions /\ s \notin Finished
      /\ UnderWay' = UnderWay \ {s} /\ Finished' = Finished \cup {s}
      /\ \A r \in UnderWay' : stage'[r] = stage[r]
      /\ \A r \in Submissions : stage'[r] # "new" <=> stage[r] # "new"
  BY <1>1 DEF UnderWay, Finished, PromptInv, PromptTypes
<1>3. /\ delivered'[s] = taken[s].files /\ stage'[s] = "done"
      /\ \A r \in Submissions \ {s} : delivered'[r] = delivered[r] /\ stage'[r] = stage[r]
  BY <1>1, <1>2 DEF PromptInv, PromptTypes
<1>4. PromptTypes'
  <2>1. stage' \in [Submissions -> Stages]
    BY <1>1 DEF PromptInv, PromptTypes, Stages
  <2>2. delivered' \in [Submissions -> SUBSET Files]
    BY <1>1, <1>2 DEF PromptInv, PromptTypes
  <2> QED BY <1>1, <2>1, <2>2 DEF PromptInv, PromptTypes
<1>5. TakenWhole'
  <2> SUFFICES ASSUME NEW r \in Submissions
               PROVE  /\ \A f \in taken[r].files : url[f] # "none"
                      /\ delivered'[r] # {} => stage'[r] = "done" /\ delivered'[r] = taken[r].files
                      /\ \A f \in delivered'[r] : url[f] # "live"
    BY <1>1 DEF TakenWhole
  <2>1. \A f \in taken[r].files : f \in Files /\ f \notin late
    BY DEF PromptInv, PromptTypes, LateApart
  <2> QED BY <1>3, <2>1 DEF PromptInv, TakenWhole, LiveIffListed
<1>6. ClearsItsOwn'
  BY <1>1, <1>2 DEF PromptInv, ClearsItsOwn
<1>7. TakeTurns'
  <2> SUFFICES ASSUME NEW q \in Submissions, NEW r \in Submissions, q # r, stage[q] # "new", stage[r] # "new",
                      q \notin overlap[r], r \notin overlap[q]
               PROVE  \/ q \in Finished' /\ delivered'[q] \cap taken[r].files = {}
                      \/ r \in Finished' /\ delivered'[r] \cap taken[q].files = {}
    BY <1>2 DEF TakeTurns
  <2>1. \/ q \in Finished /\ delivered[q] \cap taken[r].files = {}
        \/ r \in Finished /\ delivered[r] \cap taken[q].files = {}
    BY DEF PromptInv, TakeTurns
  <2> QED BY <1>2, <1>3, <2>1
<1>8. Numbered' /\ LiveIffListed' /\ LateApart' /\ NoFileLost' /\ TextsKept' /\ FilesLimited'
  BY <1>1 DEF PromptInv, Numbered, LiveIffListed, LateApart, NoFileLost, TextsKept, FilesLimited
<1> QED BY <1>4, <1>5, <1>6, <1>7, <1>8 DEF PromptInv

\* A submission fails, or waits for onSubmit: nothing is cleared away.
LEMMA KeepsAll ==
  ASSUME PromptInv, NEW s \in UnderWay, NEW x \in {"awaiting", "failed"},
         stage' = [stage EXCEPT ![s] = x],
         UNCHANGED <<files, url, typed, delivered, provider, capture, taken, left, removed, midway,
                     overlap, late, seen, replaced, outdated>>
  PROVE  PromptInv'
<1>1. /\ s \in Submissions /\ s \notin Finished /\ stage[s] # "done"
      /\ UnderWay' \subseteq UnderWay /\ UnderWay \subseteq UnderWay' \cup {s} /\ Finished \subseteq Finished'
      /\ \A r \in Submissions \ {s} : stage'[r] = stage[r]
      /\ \A r \in Submissions : stage'[r] # "new" <=> stage[r] # "new"
  BY DEF UnderWay, Finished, PromptInv, PromptTypes
<1>2. PromptTypes'
  <2>1. stage' \in [Submissions -> Stages]
    BY DEF PromptInv, PromptTypes, Stages
  <2> QED BY <2>1 DEF PromptInv, PromptTypes
<1>3. TakenWhole'
  BY <1>1 DEF PromptInv, TakenWhole
<1>4. ClearsItsOwn'
  BY <1>1 DEF PromptInv, ClearsItsOwn
<1>5. TakeTurns'
  BY <1>1 DEF PromptInv, TakeTurns
<1>6. TextsKept'
  <2> SUFFICES ASSUME NEW t \in 1..seen, ~left, t \notin {typed} \cup replaced, ~(provider /\ t \in midway.texts)
               PROVE  \E r \in Submissions : taken[r].text = t /\ stage'[r] # "new" /\ (provider => stage'[r] = "done")
    BY DEF TextsKept
  <2>1. PICK r \in Submissions : taken[r].text = t /\ stage[r] # "new" /\ (provider => stage[r] = "done")
    BY DEF PromptInv, TextsKept
  <2>2. provider => r # s
    BY <1>1, <2>1
  <2> QED BY <1>1, <2>1, <2>2
<1>7. Numbered' /\ LiveIffListed' /\ LateApart' /\ NoFileLost' /\ FilesLimited'
  BY DEF PromptInv, Numbered, LiveIffListed, LateApart, NoFileLost, FilesLimited
<1> QED BY <1>2, <1>3, <1>4, <1>5, <1>6, <1>7 DEF PromptInv

\* A submission goes on after an await.
LEMMA EndingSteps ==
  ASSUME PromptInv, NEW s \in Submissions, HandOver(s) \/ Settle(s)
  PROVE  PromptInv'
<1>1. s \in UnderWay
  BY DEF HandOver, Settle, UnderWay
<1>2. UNCHANGED <<provider, capture, taken, left, removed, midway, overlap, late, seen, replaced, outdated>>
  BY DEF HandOver, Settle
<1>3. CASE Succeed(s)
  BY <1>1, <1>2, <1>3, SucceedKeeps, SucceedLeft
<1>4. CASE \E x \in {"awaiting", "failed"} : stage' = [stage EXCEPT ![s] = x] /\ UNCHANGED <<files, url, typed, delivered>>
  BY <1>1, <1>2, <1>4, KeepsAll
<1> QED BY <1>3, <1>4 DEF HandOver, Settle, Fail

\* A screenshot comes when the page was left.
LEMMA LateStep ==
  ASSUME PromptInv, CapturedLate
  PROVE  PromptInv'
<1>1. /\ left /\ Attached < MaxAdded /\ capture' = NoCapture
      /\ UNCHANGED <<provider, files, typed, stage, taken, left,
                     removed, delivered, midway, overlap, seen, replaced, outdated>>
  BY DEF CapturedLate
<1>2. UnderWay' = UnderWay /\ Finished' = Finished
  BY <1>1 DEF UnderWay, Finished
<1>3. /\ ClearsItsOwn' /\ TakeTurns' /\ NoFileLost' /\ TextsKept' /\ FilesLimited'
  BY <1>1, <1>2 DEF PromptInv, ClearsItsOwn, TakeTurns, NoFileLost, TextsKept, FilesLimited
<1>4. CASE UNCHANGED <<url, late>>
  <2>1. PromptTypes'
    BY <1>1, <1>4 DEF PromptInv, PromptTypes
  <2>2. Numbered' /\ LiveIffListed' /\ TakenWhole' /\ LateApart'
    BY <1>1, <1>4 DEF PromptInv, Numbered, LiveIffListed, TakenWhole, LateApart
  <2> QED BY <1>3, <2>1, <2>2 DEF PromptInv
<1>5. CASE url' = [url EXCEPT ![Attached + 1] = "live"] /\ late' = late \cup {Attached + 1}
  <2> DEFINE g == Attached + 1
  <2>1. /\ g \in Files /\ g \in 0..MaxAdded
        /\ url[g] = "none"
        /\ \A f \in Files : url[f] # "none" <=> f < g
    BY <1>1, AttachedIs, PromptAssumption DEF PromptInv, Files
  <2>2. url' = [url EXCEPT ![g] = "live"] /\ late' = late \cup {g}
    BY <1>5
  <2> HIDE DEF g
  <2>3. PromptTypes'
    BY <1>1, <2>1, <2>2 DEF PromptInv, PromptTypes
  <2>4. \A f \in Files : /\ url'[f] = IF f = g THEN "live" ELSE url[f]
                         /\ url'[f] # "none" <=> f <= g
    BY <2>1, <2>2 DEF PromptInv, PromptTypes, Files
  <2>5. Numbered'
    BY <2>1, <2>4 DEF Numbered
  <2>6. LiveIffListed'
    BY <1>1, <2>2, <2>4 DEF PromptInv, LiveIffListed
  <2>7. \A r \in Submissions : taken[r].files \subseteq Files /\ g \notin taken[r].files
    BY <2>1 DEF PromptInv, PromptTypes, TakenWhole
  <2>8. g \notin files /\ files \subseteq Files
    BY <2>1 DEF PromptInv, PromptTypes, LateApart
  <2>9. LateApart'
    BY <1>1, <2>2, <2>4, <2>7, <2>8 DEF PromptInv, LateApart
  <2>10. \A r \in Submissions : delivered[r] # {} => delivered[r] = taken[r].files
    BY DEF PromptInv, TakenWhole
  <2>11. TakenWhole'
    BY <1>1, <2>4, <2>7, <2>10 DEF PromptInv, TakenWhole
  <2> QED BY <1>3, <2>3, <2>5, <2>6, <2>9, <2>11 DEF PromptInv
<1> QED BY <1>4, <1>5 DEF CapturedLate

\* The page is left.
LEMMA LeaveStep ==
  ASSUME PromptInv, Leave
  PROVE  PromptInv'
<1>1. /\ left' = TRUE /\ late = {} /\ typed' = NoText
      /\ url' = [f \in Files |-> IF f \in files THEN "revoked" ELSE url[f]]
      /\ UNCHANGED <<provider, files, capture, stage, taken, removed, delivered, midway, overlap,
                     late, seen, replaced, outdated>>
  BY DEF Leave, ghosts, PromptInv, LateApart
<1>2. UnderWay' = UnderWay /\ Finished' = Finished
  BY <1>1 DEF UnderWay, Finished
<1>3. \A f \in Files : url'[f] # "live" /\ (url'[f] # "none" <=> url[f] # "none")
  BY <1>1 DEF PromptInv, PromptTypes, LiveIffListed, LateApart
<1>4. PromptTypes'
  <2>1. url' \in [Files -> {"none", "live", "revoked"}]
    BY <1>1 DEF PromptInv, PromptTypes
  <2>2. left' \in BOOLEAN
    BY <1>1
  <2>3. typed' \in 0..seen
    BY <1>1 DEF PromptInv, PromptTypes, NoText
  <2> QED BY <1>1, <2>1, <2>2, <2>3 DEF PromptInv, PromptTypes
<1>5. TakenWhole'
  <2> SUFFICES ASSUME NEW r \in Submissions
               PROVE  /\ \A f \in taken[r].files : url'[f] # "none"
                      /\ delivered[r] # {} => stage[r] = "done" /\ delivered[r] = taken[r].files
                      /\ \A f \in delivered[r] : url'[f] # "live"
    BY <1>1 DEF TakenWhole
  <2>1. taken[r].files \subseteq Files /\ delivered[r] \subseteq Files
    BY DEF PromptInv, PromptTypes
  <2> QED BY <1>3, <2>1 DEF PromptInv, TakenWhole
<1>6. Numbered' /\ LiveIffListed' /\ LateApart' /\ NoFileLost'
  BY <1>1, <1>3 DEF PromptInv, PromptTypes, Numbered, LiveIffListed, LateApart, NoFileLost
<1>7. ClearsItsOwn' /\ TakeTurns' /\ TextsKept' /\ FilesLimited'
  BY <1>1, <1>2 DEF PromptInv, ClearsItsOwn, TakeTurns, TextsKept, FilesLimited
<1> QED BY <1>4, <1>5, <1>6, <1>7 DEF PromptInv

\* Every step of the pages keeps it so.
LEMMA PromptKept == PagesSpec => []PromptInv
<1>1. PromptInv /\ [PagesNext]_<<page, vvars, pvars, rvars>> => PromptInv'
  <2>1. ASSUME PromptInv, PNext PROVE PromptInv'
    <3>1. CASE (\E n \in 1..2 : Offer(n)) \/ Captured
      <4>1. ~left
        BY <3>1 DEF Offer, Captured
      <4> QED BY <2>1, <3>1, <4>1, AttachingSteps
    <3>2. CASE StartCapture \/ CaptureRefused
      BY <2>1, <3>2, CaptureSteps
    <3>3. CASE CapturedLate
      BY <2>1, <3>3, LateStep
    <3>4. CASE (\E f \in Files : Discard(f)) \/ Backspace
      <4>1. PICK f \in files : Discard(f)
        BY <3>4 DEF Backspace, Discard
      <4> QED BY <2>1, <4>1, DiscardSteps DEF PromptInv, PromptTypes
    <3>5. CASE Type
      BY <2>1, <3>5, TypingStep
    <3>6. CASE \E s \in Submissions : Submit(s)
      BY <2>1, <3>6, SubmitStep
    <3>7. CASE \E s \in Submissions : HandOver(s) \/ Settle(s)
      BY <2>1, <3>7, EndingSteps
    <3>8. CASE Leave
      BY <2>1, <3>8, LeaveStep
    <3> QED BY <2>1, <3>1, <3>2, <3>3, <3>4, <3>5, <3>6, <3>7, <3>8 DEF PNext
  <2>2. ASSUME PromptInv, UNCHANGED pvars PROVE PromptInv'
    <3>1. UnderWay' = UnderWay /\ Finished' = Finished
      BY <2>2 DEF UnderWay, Finished, pvars
    <3>2. PromptTypes'
      BY <2>2 DEF PromptInv, PromptTypes, pvars, ghosts
    <3>3. /\ Numbered' /\ LiveIffListed' /\ TakenWhole' /\ ClearsItsOwn' /\ TakeTurns'
          /\ LateApart' /\ NoFileLost' /\ TextsKept' /\ FilesLimited'
      BY <2>2, <3>1 DEF pvars, ghosts, PromptInv, Numbered, LiveIffListed, TakenWhole, ClearsItsOwn, TakeTurns,
        LateApart, NoFileLost, TextsKept, FilesLimited
    <3> QED BY <3>2, <3>3 DEF PromptInv
  <2> QED BY <2>1, <2>2 DEF PagesNext
<1>2. PagesInit => PromptInv
  BY PromptInit
<1> QED BY <1>1, <1>2, PTL DEF PagesSpec

\* Every file on the list can be read, nothing is held beside it but by a
\* screenshot that came after the page was left, and there are no more files than
\* allowed, whatever the user attaches, removes, captures and submits.
THEOREM FilesStayInOrder == PagesSpec => []FilesInOrder
<1>1. PromptInv => FilesInOrder
  BY DEF PromptInv, FilesInOrder
<1> QED BY <1>1, PromptKept, PTL

\* No file and no text is lost or goes out twice but as NoFileLost, NoTextLost
\* and DeliveredOnce say, for any number of submissions under way at once.
THEOREM EntriesGoOutOnce == PagesSpec => []GoesOutOnce
<1>1. PromptInv => DeliveredOnce
  <2> SUFFICES ASSUME PromptInv, NEW s \in Submissions, NEW r \in Submissions, s # r,
                      delivered[s] \cap delivered[r] # {}, s \notin overlap[r], r \notin overlap[s]
               PROVE  FALSE
    BY DEF DeliveredOnce
  <2>1. /\ delivered[s] = taken[s].files /\ stage[s] = "done"
        /\ delivered[r] = taken[r].files /\ stage[r] = "done"
    BY DEF PromptInv, TakenWhole
  <2> QED BY <2>1 DEF PromptInv, TakeTurns
<1>2. PromptInv => NoTextLost
  BY DEF PromptInv, PromptTypes, Stages, TextsKept, NoTextLost
<1>3. PromptInv => GoesOutOnce
  BY <1>1, <1>2 DEF PromptInv, GoesOutOnce
<1> QED BY <1>3, PromptKept, PTL
=============================================================================
