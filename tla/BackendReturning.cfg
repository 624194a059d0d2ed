\* A callback of a user who has an account.
SPECIFICATION BackendSpec
CONSTANTS
  Users = {a, b, d}
  Roles = {adm, mem, r3}
  Perms = {all, p1}
  Codes <- MCCodes
  Shorts = {"superadmin", "member"}
  Providers = {google, azure}
  Slots = {s1, s2}
  Null = Null
  Keep = Keep
  Managers = {a}
  Members = {b}
  Linked = {b}
  ManagerRole = adm
  MemberRole = mem
  AllPerm = all
  MaxRequests = 1
  Files = {f}
  Admins = {"superadmin"}
SYMMETRY MCSymmetry
PROPERTY ReturningSignsIn
CHECK_DEADLOCK FALSE
