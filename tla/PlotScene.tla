------------------------------ MODULE PlotScene ------------------------------
(***************************************************************************)
(* The in-memory scene of the plot editor (_use-plot-scene.ts): the arrays *)
(* of drawn objects that a save serialises, the info maps beside them, the *)
(* three.js scene that the user sees, the undo and redo stacks of closures *)
(* over those three, the selection, and the two overlays and the pencil    *)
(* stroke that stay open across events.                                    *)
(*                                                                         *)
(* Geometry is left out: where a ray hits is a choice among the objects it *)
(* could hit, and the line, circle, ellipse and vertical tools are one     *)
(* tool, "shape".  Colours are the business of module PlotColour.          *)
(***************************************************************************)
EXTENDS Integers, FiniteSets, SequencesExt

CONSTANTS
  Objects,     \* identities of meshes, sprites and lines
  KindOf,      \* KindOf[o]: the array that holds o
  NoObj,       \* null
  Tools,       \* the tools the user picks among
  Sheets,      \* the arrays a stored sheet may load into
  MaxFills,    \* bound: fill commands on the undo stack
  Interrupts   \* TRUE: a late load or a second finger may strike while a
               \* stroke or the div overlay is open

Kinds == {"block", "wall", "div", "text", "line"}

AllTools == {"none", "block", "pencil", "erase", "select", "shape", "wall", "div", "text"}

\* What the second click of a two-click tool places.
TwoClick == [shape |-> "line", wall |-> "wall", div |-> "div"]

\* What the closures on the stacks do and to which object; a fill changes colours.
Commands == [op : {"place", "erase"}, obj : Objects] \cup [op : {"fill"}, obj : {NoObj}]

Distinct(s) == \A i, j \in DOMAIN s : s[i] = s[j] => i = j

ASSUME ObjectsAssumption == NoObj \notin Objects /\ KindOf \in [Objects -> Kinds]
ASSUME ToolsAssumption   == Tools \subseteq AllTools
ASSUME BoundsAssumption  == MaxFills \in Nat /\ Interrupts \in BOOLEAN
ASSUME SheetsAssumption  ==
  \A sheet \in Sheets :
    /\ sheet \in [Kinds -> Seq(Objects)]
    /\ \A k \in Kinds : Distinct(sheet[k]) /\ \A i \in DOMAIN sheet[k] : KindOf[sheet[k][i]] = k

VARIABLES
  array,       \* blockMeshes, wallMeshes, divPanels, textSprites, penLines
  info,        \* keys of meshInfo, wallInfo, divPanelInfo, textInfo
  scene,       \* children of the three.js scene: what is on display
  undoStack,
  redoStack,
  selected,
  tool,        \* curTool
  anchor,      \* shapeAnchor # null: first of two clicks made
  penLine,     \* the stroke being drawn, or NoObj
  activeDiv,   \* the panel whose text overlay is open, or NoObj
  textPending, \* the label overlay is open
  loading      \* loadScene awaits the sheet of the URL

content == <<array, info, scene>>
history == <<undoStack, redoStack>>
ui      == <<tool, anchor, penLine, activeDiv, textPending>>
vars    == <<content, history, selected, ui, loading>>

-----------------------------------------------------------------------------
\* State functions

Present(o) == Contains(array[KindOf[o]], o)

Listed == UNION {ToSet(array[k]) : k \in Kinds}

Mentioned(stack) == {stack[i].obj : i \in DOMAIN stack}

\* An object that nothing refers to stands for one about to be constructed.
Fresh(o) ==
  /\ ~Present(o)
  /\ o \notin info \cup scene \cup selected \cup {penLine, activeDiv}
  /\ o \notin Mentioned(undoStack) \cup Mentioned(redoStack)

\* Pressing the canvas or the panel takes the focus, which closes the div
\* overlay; a pointer that is busy with a stroke presses nothing else.
CanvasFree == penLine = NoObj /\ activeDiv = NoObj
PanelFree  == activeDiv = NoObj /\ (penLine = NoObj \/ Interrupts)
LoadFree   == CanvasFree \/ Interrupts

-----------------------------------------------------------------------------
\* Primitives shared by the handlers

\* a.splice(a.indexOf(o), 1): indexOf answers -1 for a missing object, and
\* splice(-1, 1) takes the last element out.
Splice(s, o) ==
  IF Contains(s, o) THEN RemoveFirst(s, o)
  ELSE IF s = <<>> THEN <<>> ELSE Front(s)

\* addBlock, addWall, addDivPanel, addTextSprite and the lines' push
Add(o) ==
  /\ array' = [array EXCEPT ![KindOf[o]] = Append(@, o)]
  /\ info'  = IF KindOf[o] = "line" THEN info ELSE info \cup {o}
  /\ scene' = scene \cup {o}

\* removeBlock, removeWall, removeDivPanel, removeTextSprite and the lines'
\* splice
RemoveObject(o) ==
  /\ array' = [array EXCEPT ![KindOf[o]] = Splice(@, o)]
  /\ info'  = info \ {o}
  /\ scene' = scene \ {o}

\* Redoing the erasure of a line is the one removal that checks indexOf.
RemoveLineIfPresent(o) ==
  /\ array' = [array EXCEPT ![KindOf[o]] = RemoveFirst(@, o)]
  /\ scene' = scene \ {o}
  /\ UNCHANGED info

\* Mutant: a new command leaves what can be redone.
RecordAllKeepingRedo(cmds) == undoStack' = undoStack \o cmds /\ UNCHANGED redoStack

RecordAll(cmds) == undoStack' = undoStack \o cmds /\ redoStack' = <<>>

Record(op, o) == RecordAll(<<[op |-> op, obj |-> o]>>)

UndoCmd(cmd) ==
  \/ cmd.op = "place" /\ RemoveObject(cmd.obj)
  \/ cmd.op = "erase" /\ Add(cmd.obj)
  \/ cmd.op = "fill"  /\ UNCHANGED content

RedoCmd(cmd) ==
  \/ cmd.op = "place" /\ Add(cmd.obj)
  \/ /\ cmd.op = "erase"
     /\ IF KindOf[cmd.obj] = "line" THEN RemoveLineIfPresent(cmd.obj) ELSE RemoveObject(cmd.obj)
  \/ cmd.op = "fill"  /\ UNCHANGED content

\* Empties the arrays, their maps and both stacks, then shows what sheet
\* lists.  An object on display but no longer listed stays on display.
Reset(sheet) ==
  /\ array'    = sheet
  /\ scene'    = (scene \ Listed) \cup UNION {ToSet(sheet[k]) : k \in Kinds}
  /\ info'     = UNION {ToSet(sheet[k]) : k \in Kinds \ {"line"}}
  /\ undoStack' = <<>> /\ redoStack' = <<>>
  /\ selected' = {}

EmptySheet == [k \in Kinds |-> <<>>]

-----------------------------------------------------------------------------
Init ==
  /\ array = EmptySheet
  /\ info = {} /\ scene = {} /\ selected = {}
  /\ undoStack = <<>> /\ redoStack = <<>>
  /\ tool = "block" /\ anchor = FALSE
  /\ penLine = NoObj /\ activeDiv = NoObj
  /\ textPending = FALSE
  /\ loading \in BOOLEAN

\* Toolbar and keyboard

DoTool(t) ==
  /\ PanelFree
  /\ tool' = t /\ anchor' = FALSE
  /\ selected' = IF t = "select" THEN selected ELSE {}
  /\ UNCHANGED <<content, history, penLine, activeDiv, textPending, loading>>

Undo ==
  /\ undoStack # <<>>
  /\ UndoCmd(Last(undoStack))
  /\ undoStack' = Front(undoStack)
  /\ redoStack' = Append(redoStack, Last(undoStack))
  /\ UNCHANGED <<selected, ui, loading>>

\* Mutant: redo takes the command that was undone first.
RedoOldest ==
  /\ redoStack # <<>>
  /\ RedoCmd(Head(redoStack))
  /\ redoStack' = Tail(redoStack)
  /\ undoStack' = Append(undoStack, Head(redoStack))
  /\ UNCHANGED <<selected, ui, loading>>

Redo ==
  /\ redoStack # <<>>
  /\ RedoCmd(Last(redoStack))
  /\ redoStack' = Front(redoStack)
  /\ undoStack' = Append(undoStack, Last(redoStack))
  /\ UNCHANGED <<selected, ui, loading>>

DoFill ==
  /\ PanelFree
  /\ selected # {}
  /\ Cardinality({i \in DOMAIN undoStack : undoStack[i].op = "fill"}) < MaxFills
  /\ Record("fill", NoObj)
  /\ UNCHANGED <<content, selected, ui, loading>>

DoClear ==
  /\ PanelFree
  /\ Reset(EmptySheet)
  /\ UNCHANGED <<ui, loading>>

Escape ==
  /\ anchor' = FALSE
  /\ UNCHANGED <<content, history, selected, tool, penLine, activeDiv, textPending, loading>>

\* Pointer on the canvas

PlaceBlock(o) ==
  /\ CanvasFree /\ tool = "block"
  /\ KindOf[o] = "block" /\ Fresh(o)
  /\ Add(o) /\ Record("place", o)
  /\ UNCHANGED <<selected, ui, loading>>

SelectClick(hit, shift) ==
  LET kept == IF shift THEN selected ELSE {} IN
  /\ CanvasFree /\ tool = "select"
  /\ hit # NoObj => Present(hit) /\ KindOf[hit] # "text"
  /\ selected' = IF hit = NoObj THEN kept
                 ELSE IF hit \in kept THEN kept \ {hit} ELSE kept \cup {hit}
  /\ UNCHANGED <<content, history, ui, loading>>

FirstClick ==
  /\ CanvasFree /\ tool \in DOMAIN TwoClick /\ ~anchor
  /\ anchor' = TRUE
  /\ UNCHANGED <<content, history, selected, tool, penLine, activeDiv, textPending, loading>>

\* finalizeShape, or the second half of the div tool, which opens the text
\* overlay on the new panel.
SecondClick(o) ==
  /\ CanvasFree /\ tool \in DOMAIN TwoClick /\ anchor
  /\ KindOf[o] = TwoClick[tool] /\ Fresh(o)
  /\ Add(o) /\ Record("place", o)
  /\ anchor' = FALSE
  /\ activeDiv' = IF tool = "div" THEN o ELSE activeDiv
  /\ UNCHANGED <<selected, tool, penLine, textPending, loading>>

\* The second click misses the ground or spans no area.
SecondClickTooSmall ==
  /\ CanvasFree /\ tool \in DOMAIN TwoClick /\ anchor
  /\ anchor' = FALSE
  /\ UNCHANGED <<content, history, selected, tool, penLine, activeDiv, textPending, loading>>

TextClick ==
  /\ CanvasFree /\ tool = "text"
  /\ textPending' = TRUE
  /\ UNCHANGED <<content, history, selected, tool, anchor, penLine, activeDiv, loading>>

\* eraseAt, from the erase tool or from a right click with any tool.
EraseAt(o) ==
  /\ CanvasFree /\ Present(o)
  /\ RemoveObject(o) /\ Record("erase", o)
  /\ UNCHANGED <<selected, ui, loading>>

\* A second finger may press while the first still draws.
PencilDown(o) ==
  /\ PanelFree /\ tool = "pencil"
  /\ KindOf[o] = "line" /\ Fresh(o)
  /\ Add(o)
  /\ penLine' = o
  /\ UNCHANGED <<history, selected, tool, anchor, activeDiv, textPending, loading>>

PencilUp ==
  /\ penLine # NoObj
  /\ Record("place", penLine)
  /\ penLine' = NoObj
  /\ UNCHANGED <<content, selected, tool, anchor, activeDiv, textPending, loading>>

\* The last button of a chord released during the stroke is the right one:
\* onUp records the stroke and goes on to eraseAt.
PencilUpErasing(o) ==
  /\ penLine # NoObj /\ Present(o)
  /\ RemoveObject(o)
  /\ RecordAll(<<[op |-> "place", obj |-> penLine], [op |-> "erase", obj |-> o]>>)
  /\ penLine' = NoObj
  /\ UNCHANGED <<selected, tool, anchor, activeDiv, textPending, loading>>

\* onLeave drops the stroke from the handler, not from the scene.
PencilLeave ==
  /\ penLine # NoObj
  /\ penLine' = NoObj
  /\ UNCHANGED <<content, history, selected, tool, anchor, activeDiv, textPending, loading>>

\* Overlays

CommitText(o) ==
  /\ textPending
  /\ KindOf[o] = "text" /\ Fresh(o)
  /\ Add(o) /\ Record("place", o)
  /\ textPending' = FALSE
  /\ UNCHANGED <<selected, tool, anchor, penLine, activeDiv, loading>>

\* By its button or by Escape, which the window's handler sees as well.
CancelText ==
  /\ textPending
  /\ textPending' = FALSE
  /\ anchor' \in {anchor, FALSE}
  /\ UNCHANGED <<content, history, selected, tool, penLine, activeDiv, loading>>

\* Enter or loss of focus with a text: only the panel's texture and info change.
CommitDiv ==
  /\ activeDiv # NoObj
  /\ activeDiv' = NoObj
  /\ UNCHANGED <<content, history, selected, tool, anchor, penLine, textPending, loading>>

\* Enter or loss of focus without a text, and Escape.
CancelDiv ==
  /\ activeDiv # NoObj
  /\ RemoveObject(activeDiv)
  /\ activeDiv' = NoObj
  /\ anchor' \in {anchor, FALSE}
  /\ UNCHANGED <<history, selected, tool, penLine, textPending, loading>>

\* The sheet of the URL arrives

LoadScene(sheet) ==
  /\ loading /\ LoadFree
  /\ \A k \in Kinds : \A i \in DOMAIN sheet[k] : Fresh(sheet[k][i])
  /\ Reset(sheet)
  /\ loading' = FALSE
  /\ UNCHANGED ui

LoadFails ==
  /\ loading
  /\ loading' = FALSE
  /\ UNCHANGED <<content, history, selected, ui>>

Next ==
  \/ \E t \in Tools : DoTool(t)
  \/ Undo \/ Redo \/ DoFill \/ DoClear \/ Escape
  \/ \E o \in Objects : PlaceBlock(o) \/ SecondClick(o) \/ EraseAt(o) \/ CommitText(o)
  \/ \E o \in Objects : PencilDown(o) \/ PencilUpErasing(o)
  \/ PencilUp \/ PencilLeave
  \/ \E hit \in Objects \cup {NoObj}, shift \in BOOLEAN : SelectClick(hit, shift)
  \/ FirstClick \/ SecondClickTooSmall \/ TextClick
  \/ CancelText \/ CommitDiv \/ CancelDiv
  \/ \E sheet \in Sheets : LoadScene(sheet)
  \/ LoadFails

Spec == Init /\ [][Next]_vars

-----------------------------------------------------------------------------
\* Properties

\* Every object that a save would serialise is listed once, has its info and
\* is on display, whatever was cancelled, undone or interrupted before.
SavedIsShown ==
  \A k \in Kinds :
    /\ Distinct(array[k])
    /\ \A o \in ToSet(array[k]) : o \in scene /\ KindOf[o] = k /\ (k # "line" => o \in info)

\* The objects whose commands the handlers always pair with the arrays.  A
\* panel loses the pairing when its overlay is cancelled, a line when its stroke
\* is interrupted.
Paired ==
  {o \in Objects :
     KindOf[o] \in {"block", "wall", "text"} \cup IF Interrupts THEN {} ELSE {"line"}}

\* What the user sees of those is what a save serialises.
ShownIsSaved == \A o \in scene \cap Paired : Present(o)

\* i and j are consecutive commands of stack about one object.
Consecutive(stack, i, j) ==
  /\ i < j /\ stack[i].obj = stack[j].obj
  /\ \A k \in DOMAIN stack : i < k /\ k < j => stack[k].obj # stack[i].obj

\* The command at position i is the last of stack about its object.
LastAbout(stack, i) == \A j \in DOMAIN stack : j > i => stack[j].obj # stack[i].obj

\* The commands about an object alternate, and the one to be played next has
\* the operation op just when its object is in here.
Fits(stack, here, op) ==
  /\ \A i, j \in DOMAIN stack :
       stack[i].obj \in Paired /\ Consecutive(stack, i, j) => stack[i].op # stack[j].op
  /\ \A i \in DOMAIN stack :
       stack[i].obj \in Paired /\ LastAbout(stack, i)
         => (stack[i].op = op <=> stack[i].obj \in here)

Here == {o \in Objects : Present(o)}

\* Both stacks can be played to their end without a removal that finds its
\* object missing or an addition that finds it present.
HistoryReplayable == Fits(undoStack, Here, "place") /\ Fits(redoStack, Here, "erase")

(* TypeOK: the arrays, the stacks of commands and the state of the tools.   *)
TypeOK ==
  /\ array \in [Kinds -> Seq(Objects)]
  /\ info \subseteq Objects /\ scene \subseteq Objects /\ selected \subseteq Objects
  /\ undoStack \in Seq(Commands) /\ redoStack \in Seq(Commands)
  /\ tool \in AllTools /\ anchor \in BOOLEAN
  /\ penLine \in Objects \cup {NoObj} /\ activeDiv \in Objects \cup {NoObj}
  /\ textPending \in BOOLEAN /\ loading \in BOOLEAN
=============================================================================
