\* Two overlapping processes share a queue with one place; the first recorded failure is final.
SPECIFICATION Spec
CHECK_DEADLOCK FALSE
SYMMETRY Interchangeable
CONSTANTS
  p1 = p1
  p2 = p2
  c1 = c1
  c2 = c2
  c3 = c3
  NoCommand = NoCommand
  NoProc = NoProc
  Procs <- TwoProcs
  Commands <- ThreeCommands
  Legacy = NoCommand
  Cap = 1
  MaxAttempts = 1
  MaxFaults = 2
INVARIANTS
  AppliedExactlyOnce
  BacklogBounded
