--------------------------- MODULE PlotSceneHistory ---------------------------
(***************************************************************************)
(* The stacks of closures of PlotScene implement the snapshots of          *)
(* EditHistory, for the blocks, walls and labels.  Div panels and lines    *)
(* are left out: a cancelled panel and a stroke in progress change the     *)
(* arrays without a command.                                               *)
(***************************************************************************)
EXTENDS PlotScene

Tracked == {o \in Objects : KindOf[o] \in {"block", "wall", "text"}}

\* The tracked objects present when the commands of stack from the end down to
\* position i have been undone (undoOp = "place") or redone (undoOp = "erase"):
\* an object is present if the last of those commands about it added it, and as
\* it is now when none is about it.
PresentAfter(stack, i, removedBy) ==
  {o \in Tracked :
     LET about == {j \in i..Len(stack) : stack[j].obj = o} IN
     IF about = {} THEN Present(o)
     ELSE \E j \in about : (\A k \in about : j <= k) /\ stack[j].op # removedBy}

Snapshots(stack, removedBy) == [i \in DOMAIN stack |-> PresentAfter(stack, i, removedBy)]

History == INSTANCE EditHistory WITH
  Items  <- Tracked,
  doc    <- {o \in Tracked : o \in scene},
  past   <- Snapshots(undoStack, "place"),
  future <- Snapshots(redoStack, "erase")

\* What is on display after an undo or a redo is exactly what was on display at
\* that point of the history: doUndo and doRedo over the recorded closures
\* implement snapshots.
ImplementsHistory == History!Spec
=============================================================================
