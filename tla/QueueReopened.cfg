\* Two overlapping processes: a late failure record reopens a FAILED row.
SPECIFICATION Spec
CHECK_DEADLOCK FALSE
CONSTANTS
  p1 = p1
  p2 = p2
  c1 = c1
  c2 = c2
  c3 = c3
  NoCommand = NoCommand
  NoProc = NoProc
  Procs <- TwoProcs
  Commands <- TwoCommands
  Legacy = NoCommand
  Cap = 1
  MaxAttempts = 2
  MaxFaults = 0
PROPERTIES
  FailedStaysFailed
