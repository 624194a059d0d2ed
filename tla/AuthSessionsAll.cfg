\* Every operation, three requests at once.
SPECIFICATION FairSpec
CONSTANTS
  Requests = {p, q, r}
  Ops = {"login", "refresh", "logout", "change"}
  NoRow = NoRow
  MaxTime = 2
  MaxAborts = 1
INVARIANTS OneActiveSession RefreshReplaces DeadlockNeedsLogin
PROPERTIES RevokedForGood SessionSurvives RequestsEnd
CHECK_DEADLOCK FALSE
