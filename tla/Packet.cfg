SPECIFICATION PacketSpec
CONSTANTS
  BUFFER_LENGTH = 256
  SERIALIZE_BUFFER_SIZE = 1024
  Elements <- RecordElements
  FirstDay = 20089
  LastDay = 29220
  BusyDays = {20089}
  Seconds = {0, 86399}
INVARIANTS PacketsWhole SealedOnce CalendarExact
