\* Undo, redo, fill and erase; nothing interrupts a stroke.
SPECIFICATION Spec
CONSTANTS
  Blocks = {b1, b2}
  Walls = {}
  Divs = {}
  Texts = {}
  Lines = {l1}
  Loaded = {b1, l1}
  Objects <- AllObjects
  KindOf <- KindByGroup
  NoObj = NoObj
  Tools = {"none", "block", "pencil", "select"}
  Sheets <- SheetsOfLoaded
  MaxFills = 1
  Interrupts = FALSE
SYMMETRY Symmetry
INVARIANTS HistoryReplayable ShownIsSaved
PROPERTY ImplementsHistory
CHECK_DEADLOCK FALSE
