SPECIFICATION Spec
CONSTANTS
  Menus <- ObservedMenus
  Delays = {0, 2}
  MaxTime = 5
  MarkAge = 1
  Life <- MCLife
  SessionEnds = {4}
INVARIANTS
  StoredIsLoadable
CHECK_DEADLOCK FALSE
