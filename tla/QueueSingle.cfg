\* One service process: faults, restarts, a legacy PROCESSING row, and progress.
SPECIFICATION FairSpec
CHECK_DEADLOCK FALSE
CONSTANTS
  p1 = p1
  p2 = p2
  c1 = c1
  c2 = c2
  c3 = c3
  NoCommand = NoCommand
  NoProc = NoProc
  Procs <- OneProc
  Commands <- ThreeCommands
  Legacy = c1
  Cap = 2
  MaxAttempts = 2
  MaxFaults = 2
INVARIANTS
  TypeOK
  ReceiptOrder
  AckedIsDurable
  OutagesKeepBudget
  FailedHeadNotReady
PROPERTIES
  ImplementsCommandLog
  EventuallyDecided
