\* Each page by itself.
SPECIFICATION PagesSpec
CONSTANTS
  Walls = {w1}
  Objects <- Walls
  KindOf <- WallKind
  NoObj = NoObj
  Tools = {"wall", "select", "erase", "text"}
  Sheets <- EmptySheets
  MaxFills = 1
  Interrupts = FALSE
  NotANumber = NotANumber
  Drafts <- SomeDrafts
  Presets <- SomePresets
  Stored <- SomeStored
  Extents = {2}
  MaxChanges = 3
  MaxAdded = 3
  MaxTyped = 2
  Submissions = {s1, s2}
  MaxFiles = 2
  NoCapture = NoCapture
  Links = {l1, l2}
  NoLink = NoLink
  Windows = {tab}
  Profile = Profile
  MaxRequests = 2
SYMMETRY Symmetry
INVARIANTS RotationFollows ViewTells FilesInOrder GoesOutOnce LinksAreGood LaterStands
CHECK_DEADLOCK FALSE
