SPECIFICATION Spec
CONSTANTS
  IntMax = 5
  SoaCap = 3
  DefaultTtl = 2
  Packet <- MCPacket
  NoEntry = NoEntry
  MaxTime = 4
  MaxAge = 5
INVARIANTS
  StaysUsable
  NoRecordOutlived
PROPERTIES
  ServedInTime
  ToldInTime
CHECK_DEADLOCK FALSE
