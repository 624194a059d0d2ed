\* Sessions, the profile page and an administration page.
SPECIFICATION DSpec
CONSTANTS
  Lists = {"users", "permissions"}
  Items = {i1}
  Values = {v1, v2}
  MaxOthers = 1
  Absent = Absent
  None = None
  Accounts = {a, b}
  Admins = {a}
  Nobody = Nobody
  Idle = Idle
  MaxElsewhere = 1
INVARIANTS CallsApart ListIsTrue UserIsCookies SavesOwnNames LoginForSignedOut
PROPERTIES SavingEnds
CHECK_DEADLOCK FALSE
