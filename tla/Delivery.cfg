\* Three subscriptions, crashes, lost answers and late acknowledgements.
SPECIFICATION FairSpec
CONSTANTS
  Count = 3
  Subscriptions <- AllSubscribers
  MaxDeliver = 3
  MaxFaults = 2
INVARIANTS
  TypeOK
  AckedIsSettled
  RepeatsExplained
  CaughtUpIsCurrent
  CaughtUpIsComplete
  OneInFlightInOrder
PROPERTIES
  EventuallySettled
CHECK_DEADLOCK FALSE
