SPECIFICATION FairSpec
CONSTANTS
  Second = 2
  Stale = 1
  Base = 13
  MinEpoch = 5
  MaxEpoch = 12
  ModemReadings = {4, 5}
  MaxTick = 3
INVARIANTS TypeOK StampsAccurate GpsHoldsTheAnchor SystemClockSetOnce
PROPERTIES FixDatesTheSession
