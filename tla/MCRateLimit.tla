------------------------------ MODULE MCRateLimit ------------------------------
\* The rates with which TLC checks RateLimit: as in the settings, the path's own
\* limit is the lower one and its window may be the longer one.
EXTENDS RateLimit

SmallLimit  == [k \in Keys |-> IF k = "global" THEN 2 ELSE 1]
SmallWindow == [k \in Keys |-> IF k = "global" THEN 2 ELSE 3]
=============================================================================
