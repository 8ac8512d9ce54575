SPECIFICATION FairSpec
CONSTANTS
  MaxPlace = 3
  MaxMove = 2
  Latch = 3
  ResetAfter = 5
  ColdStart = 4
  ResetWrap = 4
INVARIANTS TypeOK
PROPERTIES WarmFirst GnssComesBack
