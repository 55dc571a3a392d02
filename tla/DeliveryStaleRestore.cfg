\* A publisher stops before the Redis write and its restart publishes an older analysis.
SPECIFICATION Spec
CONSTANTS
  Count = 3
  Subscriptions <- RestoredOne
  MaxDeliver = 2
  MaxFaults = 1
INVARIANTS
  CaughtUpIsNewest
CHECK_DEADLOCK FALSE
