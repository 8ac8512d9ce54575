SPECIFICATION FairSpec
CONSTANTS
  ObdTier <- SmallObdTier
  Rpm = 1
  Supported = {0, 1, 3, 4, 5}
  Interval <- SmallInterval
  MaxPerCycle = 2
  GroupPeriod = 2
  MaxErrors = 3
  Faults = TRUE
INVARIANTS TypeOK GroupAtomic NothingStarves
PROPERTIES SlowPIDsComeRound
