\* Redis and the database come and go.
SPECIFICATION Spec
CONSTANTS
  Checks = {p, q}
  TTL = 2
  Delay = 1
  Outages = {"redis", "database"}
  Never = Never
  MaxTime = 5
INVARIANTS RevocationCaught ValidSessionPasses RefusedAfterItRan
