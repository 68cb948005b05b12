SPECIFICATION FairSpec
CONSTANTS
  a = a
  b = b
  c = c
  Name <- MCName
  Answered = Answered
  NoQuestion = NoQuestion
  Packet <- MCPacket
INVARIANTS
  AcceptsOnlyComplete
  RefusesOnlyBroken
PROPERTIES
  EndsUnlessCyclic
CHECK_DEADLOCK FALSE
