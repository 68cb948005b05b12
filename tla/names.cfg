SPECIFICATION MCSpec
CONSTANTS
  a = a
  b = b
  y = y
  z = z
  stem = stem
  Label = {a, b, y, z}
  Size <- MCSize
  Cut <- MCCut
  Room = 2
  Reach = 8
  Message <- MCMessage
  NoName = NoName
  Inputs <- MCInputs
  Header = 1
  Flag = 4
  Base = 8
  NameMax = 4
  Growth = 8
  Names <- MCNames
  Gaps = {0, 1, 2}
INVARIANTS
  RoundTrip
  NamesWhole
  RoomKept
PROPERTIES
  EveryNameEnds
CHECK_DEADLOCK FALSE
