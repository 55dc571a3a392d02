\* Up to five analyses, each on time or two minutes old, and one end of the process.
SPECIFICATION Spec
CONSTANTS
  Theses = {"y", "z"}
  Menus <- MCMenus
  Delays = {0, 2}
  MaxTime = 5
  MaxCrashes = 1
  PriceAge = 1
  MaxAge <- MCMaxAge
  Ttl = 4
  Rearm = 3
  TriggerRearm = 2
  Grace = 2
INVARIANTS
  TypeOK
  PriceContemporary
  PullbackInOrder
PROPERTIES
  NotSuperseded
CHECK_DEADLOCK FALSE
