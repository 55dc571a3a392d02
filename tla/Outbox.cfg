\* Two relays, batches of two, leases that may expire, rows that never validate.
SPECIFICATION FairSpec
CONSTANTS
  e1 = e1
  e2 = e2
  e3 = e3
  r1 = r1
  r2 = r2
  Events <- ThreeEvents
  Created <- CreatedThree
  Poisons <- NoneOrBatch
  Relays <- TwoRelays
  Batch = 2
  Lease = 2
  FirstBackoff = 1
  MaxBackoff = 2
  MaxFaults = 1
INVARIANTS
  TypeOK
  PublishedIsStored
  LeaseExclusive
  RepeatsExplained
PROPERTIES
  EventuallyPublished
