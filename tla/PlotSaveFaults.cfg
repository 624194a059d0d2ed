\* Saves, loads and reloads overlap, requests and answers are lost or late, and
\* sheets are deleted elsewhere.
SPECIFICATION FairSpec
CONSTANTS
  Ids = {i1, i2, i3, i4, i5}
  NoId = NoId
  FirstId = i1
  MaxEdits = 2
  MaxUpsets = 1
  Slots = {s1, s2}
  Faults = TRUE
INVARIANTS OneSheetPerDrawing AttachedToItsSheet
PROPERTIES NoLostEdit SavingEnds
CHECK_DEADLOCK FALSE
