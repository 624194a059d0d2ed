----------------------------- MODULE MCPlotColour -----------------------------
(* PlotColour with a block and a line; the line may be the sheet's.         *)
EXTENDS PlotColour
CONSTANTS Blocks, Lines, Loaded
AllObjects == Blocks \cup Lines
KindByGroup == [o \in AllObjects |-> IF o \in Blocks THEN "block" ELSE "line"]
SheetsOfLoaded ==
  {[EmptySheet EXCEPT !["line"] = s] : s \in SetToSeqs(Loaded)}
Symmetry == Permutations(Blocks) \cup Permutations(Lines) \cup Permutations(Colours)
=============================================================================
