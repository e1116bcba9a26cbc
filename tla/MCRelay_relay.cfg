SPECIFICATION FairSpec
CONSTANTS
  Kinds <- MCKinds
  Sets <- MCSets
  Replicas = {r1, r2}
  MaxAttempts = 2
  MaxMishaps = 2
  Events = {1, 2}
  Subscriptions = {s1, s2}
  BatchSize = 1
  Fees = {f1}
  MaxPairs = 2
INVARIANTS PublishedIsHeard FeeIsBookedOnce ScheduleIsKept
PROPERTIES EveryEventIsHeard
CHECK_DEADLOCK FALSE
