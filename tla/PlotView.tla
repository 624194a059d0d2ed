------------------------------- MODULE PlotView -------------------------------
(***************************************************************************)
(* What stands around the drawing of the plot editor (_use-plot-scene.ts,  *)
(* side-panel.tsx, sheet-config.tsx): the size of the sheet and the step   *)
(* of its grid, the lock of the camera, the size of the next block and its *)
(* ghost, the preview of a shape, and the panel's copies of counts that    *)
(* the handlers keep.  Several handlers write each of them.                *)
(*                                                                         *)
(* Every step is a step of PlotScene with what it does to these, or a step *)
(* of the panel.  Steps of the grid are counted in tenths.                 *)
(***************************************************************************)
EXTENDS PlotScene

CONSTANTS
  Drafts,      \* what parseInt makes of the two size inputs
  NotANumber,  \* NaN
  Presets,     \* SHEET_PRESETS: sizes [w, d]
  Stored,      \* what a stored sheet brings: [w, d, step], as an editor saved it
  Extents,     \* the block sizes the sliders offer
  MaxChanges   \* bound: changes made in the panel

Sides == 2..200
Steps == 1..100
Sizes == [w : Sides, d : Sides]

\* A stored sheet is in range because only editors save sheets (SheetIsDrawn is
\* about what they save): the backend asks for no more than positive sides.
ASSUME ViewAssumption ==
  /\ Drafts \subseteq Int \cup {NotANumber} /\ NotANumber \notin Int
  /\ Presets \subseteq Sizes
  /\ Stored \subseteq [w : Sides, d : Sides, step : Steps]
  /\ Extents \subseteq Nat /\ MaxChanges \in Nat

VARIABLES
  sheet,       \* sheetW, sheetD of stateRef, which a save reads
  shown,       \* sheetW, sheetD of the panel
  gridStep,
  drawn,       \* the grid in the scene: its size and step
  draft,       \* draftW, draftD
  showCfg,     \* showSheetCfg
  rotLocked,
  viewMode,
  noRotate,    \* of the camera's controls
  block,       \* curW, curH, curD
  ghost,       \* the size of the ghost block
  preview,     \* shapePreview # null
  buttons,     \* canUndo, canRedo, selCount
  stepLoaded,  \* ghost: a load set gridStep after the grid was built
  changes      \* counts the panel's changes, up to MaxChanges

grid   == <<sheet, shown, gridStep, drawn, draft, stepLoaded>>
camera == <<rotLocked, viewMode, noRotate>>
cubes  == <<block, ghost>>
view   == <<grid, showCfg, camera, cubes, preview, buttons>>
vvars  == <<vars, view, changes>>

-----------------------------------------------------------------------------
\* Primitives

\* syncUI, called by record
SyncUI == buttons' = [undo |-> undoStack' # <<>>, redo |-> redoStack' # <<>>,
                      sel |-> Cardinality(selected')]

\* setSelCount in addSel, removeSel and clearSel
CountSelection == buttons' = [buttons EXCEPT !.sel = Cardinality(selected')]

\* What the camera's controls forbid for the tool t.
Locked(t, locked, mode) == locked \/ t \in {"pencil", "erase"} \/ mode = "2d"

\* buildGrid: draws with the step as it is, and overwrites the drafts.
BuildGrid(w, d) ==
  /\ drawn' = [w |-> w, d |-> d, step |-> gridStep']
  /\ sheet' = [w |-> w, d |-> d]
  /\ shown' = [w |-> w, d |-> d]
  /\ draft' = [w |-> w, d |-> d]
  /\ stepLoaded' = FALSE

\* Math.min(200, Math.max(2, parseInt(draft) || 20)); 0 is false, too.
ParsedSide(n) ==
  IF n \in {NotANumber, 0} THEN 20 ELSE IF n < 2 THEN 2 ELSE IF n > 200 THEN 200 ELSE n

PanelChange ==
  /\ PanelFree
  /\ changes < MaxChanges /\ changes' = changes + 1
  /\ UNCHANGED vars

-----------------------------------------------------------------------------
VInit ==
  /\ Init
  /\ sheet = [w |-> 20, d |-> 20] /\ shown = sheet /\ draft = sheet
  /\ gridStep = 10 /\ drawn = [w |-> 20, d |-> 20, step |-> 10]
  /\ showCfg = FALSE /\ stepLoaded = FALSE
  /\ rotLocked = FALSE /\ viewMode = "3d" /\ noRotate = FALSE
  /\ block = [w |-> 1, h |-> 3, d |-> 1] /\ ghost = block
  /\ preview = FALSE
  /\ buttons = [undo |-> FALSE, redo |-> FALSE, sel |-> 0]
  /\ changes = 0

\* Steps of the panel

ToggleRotation ==
  /\ PanelChange
  /\ rotLocked' = ~rotLocked
  /\ noRotate' = Locked(tool, ~rotLocked, viewMode)
  /\ UNCHANGED <<grid, showCfg, viewMode, cubes, preview, buttons>>

\* Mutant: going back to 3d frees the camera.
ViewModeUnlocking(mode) ==
  /\ PanelChange
  /\ viewMode' = mode
  /\ noRotate' = (mode = "2d")
  /\ UNCHANGED <<grid, showCfg, rotLocked, cubes, preview, buttons>>

ViewMode(mode) ==
  /\ PanelChange
  /\ viewMode' = mode
  /\ noRotate' = Locked(tool, rotLocked, mode)
  /\ UNCHANGED <<grid, showCfg, rotLocked, cubes, preview, buttons>>

\* doWidth, doHeight and doDepth each rebuild the ghost from all three.
Resize(side, n) ==
  /\ PanelChange
  /\ block' = [block EXCEPT ![side] = n]
  /\ ghost' = block'
  /\ UNCHANGED <<grid, showCfg, camera, preview, buttons>>

GridStep(dir) ==
  LET next == IF gridStep + dir < 1 THEN 1 ELSE IF gridStep + dir > 100 THEN 100
              ELSE gridStep + dir IN
  /\ PanelChange
  /\ gridStep' = next
  /\ IF next = gridStep THEN UNCHANGED <<sheet, shown, drawn, draft, stepLoaded>>
     ELSE BuildGrid(sheet.w, sheet.d)
  /\ UNCHANGED <<showCfg, camera, cubes, preview, buttons>>

\* The dialog over the sheet's size; its backdrop closes it.
ToggleCfg ==
  /\ PanelChange
  /\ showCfg' = ~showCfg
  /\ UNCHANGED <<grid, camera, cubes, preview, buttons>>

TypeDraft(side, n) ==
  /\ showCfg /\ PanelChange
  /\ draft' = [draft EXCEPT ![side] = n]
  /\ UNCHANGED <<sheet, shown, gridStep, drawn, stepLoaded, showCfg, camera, cubes, preview, buttons>>

ApplySheet ==
  /\ showCfg /\ PanelChange
  /\ UNCHANGED gridStep
  /\ BuildGrid(ParsedSide(draft.w), ParsedSide(draft.d))
  /\ showCfg' = FALSE
  /\ UNCHANGED <<camera, cubes, preview, buttons>>

ApplyPreset(size) ==
  /\ showCfg /\ PanelChange
  /\ UNCHANGED gridStep
  /\ BuildGrid(size.w, size.d)
  /\ showCfg' = FALSE
  /\ UNCHANGED <<camera, cubes, preview, buttons>>

\* Steps of the drawing

\* The pointer moves with the first of two clicks made.
Move ==
  /\ CanvasFree /\ anchor /\ tool \in DOMAIN TwoClick
  /\ preview' = TRUE
  /\ UNCHANGED <<vars, grid, showCfg, camera, cubes, buttons, changes>>

VTool(t) ==
  /\ DoTool(t)
  /\ noRotate' = Locked(t, rotLocked, viewMode)
  /\ preview' = FALSE
  /\ CountSelection
  /\ UNCHANGED <<grid, showCfg, rotLocked, viewMode, cubes, changes>>

\* Escape, or a second click that spans nothing, takes the preview away.
VDropShape ==
  /\ Escape \/ SecondClickTooSmall
  /\ preview' = FALSE
  /\ UNCHANGED <<grid, showCfg, camera, cubes, buttons, changes>>

VFinishShape(o) ==
  /\ SecondClick(o)
  /\ preview' = FALSE
  /\ SyncUI
  /\ UNCHANGED <<grid, showCfg, camera, cubes, changes>>

\* An overlay cancelled by Escape cancels the shape, too.
VCancel ==
  /\ CancelText \/ CancelDiv
  /\ preview' = (preview /\ anchor')
  /\ UNCHANGED <<grid, showCfg, camera, cubes, buttons, changes>>

VUndo ==
  /\ Undo
  /\ buttons' = [buttons EXCEPT !.undo = (undoStack' # <<>>), !.redo = TRUE]
  /\ UNCHANGED <<grid, showCfg, camera, cubes, preview, changes>>

VRedo ==
  /\ Redo
  /\ buttons' = [buttons EXCEPT !.undo = TRUE, !.redo = (redoStack' # <<>>)]
  /\ UNCHANGED <<grid, showCfg, camera, cubes, preview, changes>>

VSelect(hit, shift) ==
  /\ SelectClick(hit, shift)
  /\ CountSelection
  /\ UNCHANGED <<grid, showCfg, camera, cubes, preview, changes>>

\* What is recorded otherwise
VRecord ==
  /\ \/ DoFill \/ PencilUp
     \/ \E o \in Objects : PlaceBlock(o) \/ EraseAt(o) \/ CommitText(o) \/ PencilUpErasing(o)
  /\ SyncUI
  /\ UNCHANGED <<grid, showCfg, camera, cubes, preview, changes>>

\* Mutant: clearing the drawing leaves the panel's undo and redo enabled.
VClearSelectionOnly ==
  /\ DoClear
  /\ buttons' = [buttons EXCEPT !.sel = 0]
  /\ UNCHANGED <<grid, showCfg, camera, cubes, preview, changes>>

VClear ==
  /\ DoClear
  /\ buttons' = [undo |-> FALSE, redo |-> FALSE, sel |-> 0]
  /\ UNCHANGED <<grid, showCfg, camera, cubes, preview, changes>>

\* loadScene clears, builds the grid and only then takes over the step.
VLoad(sheetArrays, data) ==
  /\ LoadScene(sheetArrays)
  /\ gridStep' = data.step
  /\ drawn' = [w |-> data.w, d |-> data.d, step |-> gridStep]
  /\ sheet' = [w |-> data.w, d |-> data.d]
  /\ shown' = sheet' /\ draft' = sheet'
  /\ stepLoaded' = (gridStep # data.step)
  /\ buttons' = [undo |-> FALSE, redo |-> FALSE, sel |-> 0]
  /\ UNCHANGED <<showCfg, camera, cubes, preview, changes>>

\* The drawing's steps that reach none of these
VIdle ==
  /\ \/ FirstClick \/ TextClick \/ PencilLeave \/ CommitDiv \/ LoadFails
     \/ \E o \in Objects : PencilDown(o)
  /\ UNCHANGED <<view, changes>>

VNext ==
  \/ ToggleRotation \/ ToggleCfg \/ ApplySheet \/ \E mode \in {"2d", "3d"} : ViewMode(mode)
  \/ \E side \in {"w", "h", "d"}, n \in Extents : Resize(side, n)
  \/ \E dir \in {1, -1} : GridStep(dir)
  \/ \E side \in {"w", "d"}, n \in Drafts : TypeDraft(side, n)
  \/ \E size \in Presets : ApplyPreset(size)
  \/ Move \/ VDropShape \/ VCancel \/ VUndo \/ VRedo \/ VRecord \/ VClear \/ VIdle
  \/ \E t \in Tools : VTool(t)
  \/ \E o \in Objects : VFinishShape(o)
  \/ \E hit \in Objects \cup {NoObj}, shift \in BOOLEAN : VSelect(hit, shift)
  \/ \E sheetArrays \in Sheets, data \in Stored : VLoad(sheetArrays, data)

VSpec == VInit /\ [][VNext]_vvars

-----------------------------------------------------------------------------
\* Properties

\* The camera can be turned exactly when the user's lock, the tool and the view
\* all allow it: three handlers set noRotate, each reading what the others set.
RotationFollows == noRotate = Locked(tool, rotLocked, viewMode)

\* The panel's undo, redo and fill buttons tell what the stacks and the
\* selection hold, after any way there is of changing those.
ButtonsTell ==
  buttons = [undo |-> undoStack # <<>>, redo |-> redoStack # <<>>, sel |-> Cardinality(selected)]

\* A preview is on display only while a second click is awaited.
PreviewAwaitsClick == preview => anchor /\ tool \in DOMAIN TwoClick

\* "Range: 2-200 units per side." (sheet-config.tsx): the sheet that is saved
\* is in range, and it is the one drawn and the one the panel names.
SheetIsDrawn ==
  /\ sheet \in Sizes /\ shown = sheet
  /\ drawn.w = sheet.w /\ drawn.d = sheet.d

\* The grid is drawn with the step that the panel shows and a save stores,
\* but for a load that brought another step than the one before.
StepIsDrawn == gridStep \in Steps /\ (drawn.step = gridStep \/ stepLoaded)

\* The ghost has the size of the block that a click places.
GhostFits == ghost = block

\* What the panel and the canvas show is what the editor holds and a save
\* stores: sheet, step, buttons, and what follows the pointer.
ViewTells == SheetIsDrawn /\ StepIsDrawn /\ ButtonsTell /\ GhostFits /\ PreviewAwaitsClick
=============================================================================
