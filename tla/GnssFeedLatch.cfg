SPECIFICATION FairSpec
CONSTANTS
  MaxPlace = 5
  MaxMove = 2
  Latch = 3
  ResetAfter = 5
  ColdStart = 4
  ResetWrap = 4
PROPERTIES GnssComesBack
