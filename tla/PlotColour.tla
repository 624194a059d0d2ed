------------------------------ MODULE PlotColour ------------------------------
(***************************************************************************)
(* The colours of the drawing (_use-plot-scene.ts): the material of every  *)
(* mesh and line, which a save reads, the highlight that the selection     *)
(* paints over it, and the fill commands, which remember colours.          *)
(*                                                                         *)
(* Every step is a step of PlotScene with what it does to the colours.     *)
(* PlotScene's stacks hold a fill without its data; the data stand here,   *)
(* in the order of the fills on the stacks.                                *)
(***************************************************************************)
EXTENDS PlotSceneHistory

CONSTANTS
  Colours,     \* what the colour input offers
  White,       \* "#ffffff", what a line without userData.origColor falls back to
  Gold,        \* "#ffd700", the highlight of a selected line
  NoColour,    \* undefined
  StoredColours \* bound: the colours a stored line comes back with

AllColours == Colours \cup {White, Gold}

ASSUME ColoursAssumption ==
  /\ Colours # {} /\ White # Gold
  /\ StoredColours \subseteq AllColours
  /\ {White, Gold, NoColour} \cap Colours = {} /\ NoColour \notin {White, Gold}

VARIABLES
  colour,      \* colour[o]: material.color of o
  origColor,   \* origColor[o]: userData.origColor of a line
  curColor,    \* the colour drawn with
  fills,       \* the changes of the fills on undoStack, the latest last
  unfills,     \* the changes of the fills on redoStack, the latest undone last
  born,        \* ghost: the colour o was drawn or loaded with
  touched      \* ghost: the objects selected since they were drawn or loaded

colours == <<colour, origColor, fills, unfills, born, touched>>
cvars   == <<vars, colours, curColor>>

IsLine(o) == KindOf[o] = "line"

-----------------------------------------------------------------------------
\* State functions

\* What removeSel gives a line back.
Restored(o) == IF origColor[o] = NoColour THEN White ELSE origColor[o]

\* The colour serializeScene writes: of labels and panels that of their info,
\* of the others that of the material as it is now.
SavedColour(o) == IF KindOf[o] \in {"div", "text"} THEN born[o] ELSE colour[o]

\* The colour the user chose last: that of the latest fill of o not undone,
\* or the one o was made with.
Chosen(o) ==
  LET about == {i \in DOMAIN fills : o \in DOMAIN fills[i]} IN
  IF about = {} THEN born[o] ELSE fills[CHOOSE i \in about : \A j \in about : j <= i][o].nw

\* No fill on the stacks refers to o; an object still selected when it was
\* erased can be filled.
Unfilled(o) == \A change \in ToSet(fills \o unfills) : o \notin DOMAIN change

-----------------------------------------------------------------------------
\* Primitives

\* addSel and removeSel for the selection that becomes new; a mesh is
\* highlighted by its emissive colour and a box, which no save reads.
Highlight(new) ==
  colour' = [o \in Objects |->
               IF ~IsLine(o) THEN colour[o]
               ELSE IF o \in new \ selected THEN Gold
               ELSE IF o \in selected \ new THEN Restored(o)
               ELSE colour[o]]

\* record drops the commands undone before.
Forget == unfills' = <<>>

\* Mutant: a line is given the fill's colour under its highlight.
PaintLinesNow(change, side) ==
  /\ colour' = [o \in Objects |-> IF o \in DOMAIN change THEN change[o][side] ELSE colour[o]]
  /\ UNCHANGED origColor

\* The closures of a fill: a mesh is painted, a line only when it is not
\* highlighted; else the colour waits in userData.
Paint(change, side) ==
  /\ colour' = [o \in Objects |->
                  IF o \in DOMAIN change /\ ~(IsLine(o) /\ o \in selected)
                  THEN change[o][side] ELSE colour[o]]
  /\ origColor' = [o \in Objects |->
                     IF o \in DOMAIN change /\ IsLine(o) /\ o \in selected
                     THEN change[o][side] ELSE origColor[o]]

\* An object is constructed in colour c; a panel's material is white, c tints
\* its texture.
Make(made, c) ==
  /\ colour' = [o \in Objects |->
                  IF o \notin made THEN colour[o] ELSE IF KindOf[o] = "div" THEN White ELSE c[o]]
  /\ born' = [o \in Objects |-> IF o \in made THEN c[o] ELSE born[o]]
  /\ origColor' = [o \in Objects |-> IF o \in made THEN NoColour ELSE origColor[o]]
  /\ touched' = touched \ made

-----------------------------------------------------------------------------
CInit ==
  /\ Init
  /\ colour = [o \in Objects |-> White] /\ origColor = [o \in Objects |-> NoColour]
  /\ born = [o \in Objects |-> White]
  /\ curColor \in Colours
  /\ fills = <<>> /\ unfills = <<>> /\ touched = {}

DoColor(c) ==
  /\ PanelFree
  /\ curColor' = c
  /\ UNCHANGED <<vars, colours>>

CTool(t) ==
  /\ DoTool(t) /\ Highlight(selected')
  /\ UNCHANGED <<origColor, fills, unfills, born, touched, curColor>>

CSelect(hit, shift) ==
  /\ SelectClick(hit, shift) /\ Highlight(selected')
  /\ touched' = touched \cup selected'
  /\ UNCHANGED <<origColor, fills, unfills, born, curColor>>

\* doFill: a mesh changes now, a line when it is deselected.
CFill ==
  LET change == [o \in selected |-> [old |-> IF IsLine(o) THEN Restored(o) ELSE colour[o],
                                     nw  |-> curColor]] IN
  /\ DoFill
  /\ Paint(change, "nw")
  /\ fills' = Append(fills, change) /\ Forget
  /\ UNCHANGED <<born, touched, curColor>>

\* Mutant: the colours are taken from the fill undone before.
CUndoKeepingColours ==
  /\ Undo
  /\ UNCHANGED <<colour, origColor>>
  /\ IF Last(undoStack).op = "fill"
     THEN fills' = Front(fills) /\ unfills' = Append(unfills, Last(fills))
     ELSE UNCHANGED <<fills, unfills>>
  /\ UNCHANGED <<born, touched, curColor>>

CUndo ==
  /\ Undo
  /\ IF Last(undoStack).op = "fill"
     THEN /\ Paint(Last(fills), "old")
          /\ fills' = Front(fills) /\ unfills' = Append(unfills, Last(fills))
     ELSE UNCHANGED <<colour, origColor, fills, unfills>>
  /\ UNCHANGED <<born, touched, curColor>>

CRedo ==
  /\ Redo
  /\ IF Last(redoStack).op = "fill"
     THEN /\ Paint(Last(unfills), "nw")
          /\ unfills' = Front(unfills) /\ fills' = Append(fills, Last(unfills))
     ELSE UNCHANGED <<colour, origColor, fills, unfills>>
  /\ UNCHANGED <<born, touched, curColor>>

\* placeBlock, createPenLine, finalizeShape, the div tool and commitText
CDraw(o) ==
  /\ PlaceBlock(o) \/ SecondClick(o) \/ CommitText(o)
  /\ Unfilled(o)
  /\ Make({o}, [x \in {o} |-> curColor]) /\ Forget
  /\ UNCHANGED <<fills, curColor>>

\* The stroke is drawn at once and recorded when it ends.
CStroke(o) ==
  /\ PencilDown(o) /\ Unfilled(o)
  /\ Make({o}, [x \in {o} |-> curColor])
  /\ UNCHANGED <<fills, unfills, curColor>>

\* Steps that record a command and paint nothing.
CRecord ==
  /\ PencilUp \/ \E o \in Objects : EraseAt(o) \/ PencilUpErasing(o)
  /\ Forget
  /\ UNCHANGED <<colour, origColor, fills, born, touched, curColor>>

\* doClear disposes of the objects, the selection and both stacks.
CClear ==
  /\ DoClear
  /\ Make(Objects, [o \in Objects |-> White])
  /\ fills' = <<>> /\ unfills' = <<>>
  /\ UNCHANGED curColor

\* A line may have been stored white or golden, so it may come back so.
CLoad(sheet) ==
  LET loaded == UNION {ToSet(sheet[k]) : k \in Kinds} IN
  /\ LoadScene(sheet) /\ \A o \in loaded : Unfilled(o)
  /\ \E c \in [Objects -> AllColours] :
       /\ \A o \in Objects : IF o \notin loaded THEN c[o] = White
                              ELSE c[o] \in IF IsLine(o) THEN StoredColours ELSE Colours
       /\ Make(Objects, c)
  /\ fills' = <<>> /\ unfills' = <<>>
  /\ UNCHANGED curColor

\* Steps that leave the colours alone; commitDiv paints a texture.
CIdle ==
  /\ \/ Escape \/ FirstClick \/ SecondClickTooSmall \/ TextClick \/ PencilLeave
     \/ CancelText \/ CommitDiv \/ CancelDiv \/ LoadFails
  /\ UNCHANGED <<colours, curColor>>

CNext ==
  \/ \E c \in Colours : DoColor(c)
  \/ \E t \in Tools : CTool(t)
  \/ \E hit \in Objects \cup {NoObj}, shift \in BOOLEAN : CSelect(hit, shift)
  \/ CFill \/ CUndo \/ CRedo \/ CClear \/ CRecord \/ CIdle
  \/ \E o \in Objects : CDraw(o) \/ CStroke(o)
  \/ \E sheet \in Sheets : CLoad(sheet)

CSpec == CInit /\ [][CNext]_cvars

-----------------------------------------------------------------------------
\* Properties

\* However fills are undone and redone between erasures and selections, a save
\* stores a block or a wall in the colour the user chose last.
MeshesKeepColour ==
  \A o \in Listed : KindOf[o] \in {"block", "wall"} => SavedColour(o) = Chosen(o)

\* The highlight follows the selection: a line is golden while it is selected,
\* also when a fill of it is undone meanwhile, and no longer, unless it was
\* loaded so.
HighlightFollows ==
  \A o \in Objects : IsLine(o) =>
    /\ o \in selected => colour[o] = Gold
    /\ o \notin selected /\ colour[o] = Gold => born[o] = Gold

\* What was never selected is saved in the colour it was drawn or loaded with,
\* whatever is filled, undone and redone beside it.
UntouchedKeepColour == \A o \in Listed \ touched : SavedColour(o) = born[o]

\* What a save stores are the colours of the drawing: the one the user chose
\* last for blocks and walls, and for what was never selected its own.
ColoursSaved == MeshesKeepColour /\ UntouchedKeepColour
=============================================================================
