SPECIFICATION DrainSpec
CONSTANTS
  MaxRecords = 3
  MaxBoots = 3
  FlushEvery = 2
  Cards = {{}, {"write", "read"}, {"scan"}}
INVARIANTS TypeOK FilesApart NoneForgotten
PROPERTIES KeepsPromise OldestFirst TicksOfThisBoot DrainsOnceLinkHolds
CHECK_DEADLOCK FALSE
