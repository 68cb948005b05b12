SPECIFICATION Spec
CONSTANTS
  Key = {k1, k2, k3}
  a1 = a1
  a2 = a2
  b1 = b1
  Value = {a1, a2, b1}
  Size <- MCSize
  Miss = Miss
  Capacity = 2
  Address = {x, y, z}
SYMMETRY MCSymmetry
INVARIANTS
  IndexMatchesList
  BuffersOwnedOnce
  AnswersFit
PROPERTIES
  IsLru
CHECK_DEADLOCK FALSE
