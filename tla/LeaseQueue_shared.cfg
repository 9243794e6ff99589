SPECIFICATION Spec
CONSTANTS
  i1 = i1
  i2 = i2
  w1 = w1
  w2 = w2
  q1 = q1
  q2 = q2
  Items <- TwoItems
  Workers <- TwoWorkers
  Instances = {q1, q2}
  InstOf <- TwoObjects
  Prio <- TwoPriorities
  MaxAttempts = 2
  MaxLeases = 4
  MaxReleases = 0
  MaxCrashes = 0
INVARIANT
  UnexpiredLeaseHolds
CHECK_DEADLOCK FALSE
