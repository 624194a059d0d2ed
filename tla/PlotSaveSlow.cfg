\* Saves overlap: the timer fires, and the page reloads, before an answer.
SPECIFICATION FairSpec
CONSTANTS
  Ids = {i1, i2, i3, i4, i5}
  NoId = NoId
  FirstId = i1
  MaxEdits = 2
  MaxUpsets = 1
  Slots = {s1, s2}
  Faults = FALSE
PROPERTY EditsReachServer
CHECK_DEADLOCK FALSE
