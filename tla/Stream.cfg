\* Two symbols, a buffer of two bars, three failures of the socket, the bus or Market History.
SPECIFICATION FairSpec
CONSTANTS
  AAPL = AAPL
  NVDA = NVDA
  Symbols <- TwoSymbols
  Rank <- Alphabetical
  Minutes = 2
  Capacity = 2
  Lookback = 1
  Slack = 1
  MaxBars = 3
  MaxFaults = 3
INVARIANTS
  TypeOK
  NoGap
  RepeatsExplained
  GateKeepsOrder
PROPERTIES
  EventuallyPublished
CHECK_DEADLOCK FALSE
