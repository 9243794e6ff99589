SPECIFICATION FairSpec
CONSTANTS
  i1 = i1
  i2 = i2
  w1 = w1
  w2 = w2
  q1 = q1
  q2 = q2
  Items <- TwoItems
  Workers <- TwoWorkers
  Instances = {q1}
  InstOf <- OneObject
  Prio <- TwoPriorities
  MaxAttempts = 2
  MaxLeases = 6
  MaxReleases = 1
  MaxCrashes = 1
INVARIANTS
  TypeOK
  UnexpiredLeaseHolds
  AttemptsBounded
PROPERTIES
  
  ImplementsLedger
  EveryTaskSettles
CHECK_DEADLOCK FALSE
