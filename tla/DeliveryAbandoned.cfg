\* The last permitted delivery meets a failure.
SPECIFICATION Spec
CONSTANTS
  Count = 1
  Subscriptions <- LiveOne
  MaxDeliver = 2
  MaxFaults = 1
INVARIANTS
  AtLeastOnce
CHECK_DEADLOCK FALSE
