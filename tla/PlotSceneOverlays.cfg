\* Overlays and strokes that a late load or a second finger interrupts.
SPECIFICATION Spec
CONSTANTS
  Blocks = {}
  Walls = {}
  Divs = {d1, d2}
  Texts = {t1}
  Lines = {l1}
  Loaded = {d1}
  Objects <- AllObjects
  KindOf <- KindByGroup
  NoObj = NoObj
  Tools = {"div", "text", "pencil"}
  Sheets <- SheetsOfLoaded
  MaxFills = 0
  Interrupts = TRUE
SYMMETRY Symmetry
INVARIANT SavedIsShown
CHECK_DEADLOCK FALSE
