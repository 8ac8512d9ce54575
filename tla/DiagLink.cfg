SPECIFICATION FairSpec
CONSTANTS
  Pids = {12, 13}
  Dids = {1, 2}
  ScrDids = {2}
  MaxErrors = 3
  MapGroups = 2
  ErrorWrap = 6
  MaxReads = 3
  MaxBehind = 3
INVARIANTS TypeOK DidFromItsEcu
PROPERTIES EcuOffNoticed
