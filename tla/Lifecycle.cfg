SPECIFICATION Spec
CONSTANTS
  Menus <- MCMenus
  Delays = {0, 2, 4}
  MaxTime = 5
  MarkAge = 2
  Life <- MCLife
  SessionEnds = {4}
INVARIANTS
  TypeOK
  L4Earned
PROPERTIES
  NoOrphanLeg
  OwnEvidenceOnly
  EvidenceNotOlder
CHECK_DEADLOCK FALSE
