SPECIFICATION FairSpec
CONSTANTS
  Messages = {m1, m2, m3}
  MHead = MHead
  Null = Null
  PayloadLen = 4
  BufferLen = 3
  MaxIntr = 2
  MaxInits = 2
INVARIANTS
  TypeOK
  WireIsOnePayload
  ReportedIsWritten
  HealthyUntilReported
PROPERTIES
  NoSendAfterFree
  WriteLoopEnds
CHECK_DEADLOCK FALSE
