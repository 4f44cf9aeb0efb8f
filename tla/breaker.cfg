SPECIFICATION FairSpec
CONSTANTS
  Reqs = {r1, r2, r3}
  Thresholds <- OneTo2
  Cooldowns <- OneTo2
  MaxThreshold = 3
  MaxAge = 2
INVARIANT TypeOK
PROPERTIES TripsExactly ClosesExactly Recovers
