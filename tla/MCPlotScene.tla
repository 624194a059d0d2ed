----------------------------- MODULE MCPlotScene -----------------------------
(***************************************************************************)
(* Small drawings for PlotScene: a few objects of each kind, and the       *)
(* sheets that a load may bring.                                           *)
(***************************************************************************)
EXTENDS PlotSceneHistory

CONSTANTS Blocks, Walls, Divs, Texts, Lines, Loaded

AllObjects == Blocks \cup Walls \cup Divs \cup Texts \cup Lines

KindByGroup ==
  [o \in AllObjects |-> CASE o \in Blocks -> "block" [] o \in Walls -> "wall"
                          [] o \in Divs -> "div" [] o \in Texts -> "text" [] OTHER -> "line"]

\* Any orders in which the objects of Loaded may be listed.
SheetsOfLoaded ==
  {sheet \in [{"block", "wall", "div", "text", "line"} -> UNION {SetToSeqs(S) : S \in SUBSET Loaded}] :
     \A k \in DOMAIN sheet : ToSet(sheet[k]) = {o \in Loaded : KindByGroup[o] = k}}

Symmetry == Permutations(Blocks) \cup Permutations(Walls) \cup Permutations(Divs)
              \cup Permutations(Texts) \cup Permutations(Lines)
=============================================================================
