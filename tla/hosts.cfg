SPECIFICATION FairSpec
CONSTANTS
  Name = {n1, n2, n3}
  Address = {a1}
  None = None
  MaxValues = 2
  MaxAppend = 4
INVARIANTS
  TableSound
  AnswersQuestion
  ReplyIsChain
PROPERTIES
  EndsUnlessCyclic
CHECK_DEADLOCK FALSE
