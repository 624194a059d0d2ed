\* Three requests of every kind, two at once; a is the superadmin, b a member, d has no account.
SPECIFICATION BackendSpec
CONSTANTS
  Users = {a, b, d}
  Roles = {adm, mem, r3}
  Perms = {all, p1}
  Codes <- MCCodes
  Shorts = {"superadmin", "member"}
  Providers = {google, azure}
  Slots = {s1, s2}
  Null = Null
  Keep = Keep
  Managers = {a}
  Members = {b}
  Linked = {b}
  ManagerRole = adm
  MemberRole = mem
  AllPerm = all
  MaxRequests = 3
  Files = {f}
  Admins = {"superadmin"}
SYMMETRY MCSymmetry
INVARIANTS HeldPermissionLive ManagerRemains SourceLinked BlobsMatchRows
PROPERTY RoleTakenOpenly
CHECK_DEADLOCK FALSE
