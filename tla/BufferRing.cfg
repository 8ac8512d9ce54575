SPECIFICATION FairSpec
CONSTANTS
  NumSlots = 2
  Elements = 1
  Room = 2
  MaxCaptures = 3
  RunsHot = TRUE
INVARIANTS TypeOK RecordsIntact NothingVanishes
PROPERTIES KeepsRingPromise OnlyOldestRotates  GetFreeReturns
