SPECIFICATION CSpec
CONSTANTS
  Blocks = {b1}
  Lines = {l1}
  Loaded = {l1}
  Objects <- AllObjects
  KindOf <- KindByGroup
  NoObj = NoObj
  Tools = {"block", "pencil", "select"}
  Sheets <- SheetsOfLoaded
  MaxFills = 1
  Interrupts = FALSE
  Colours = {c1, c2}
  White = White
  Gold = Gold
  NoColour = NoColour
  StoredColours = {White, Gold}
SYMMETRY Symmetry
INVARIANTS ColoursSaved HighlightFollows
CHECK_DEADLOCK FALSE
