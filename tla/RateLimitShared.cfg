\* Three requests at once, and Redis failing at any command.
SPECIFICATION FairSpec
CONSTANTS
  Slots = {r1, r2, r3}
  Limit <- SmallLimit
  Window <- SmallWindow
  RedisFaults = TRUE
  Never = Never
INVARIANTS RateBound KeyExpires
PROPERTY LimitIsTemporary
