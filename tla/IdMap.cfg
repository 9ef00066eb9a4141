SPECIFICATION MSpec
CONSTANTS
  Key = {1, 2, 3, 4, 5, 6, 7, 8, 9}
  MaxNodes = 9
  MaxEqual = 3
  MaxHeight = 5
  Long = {a, b}
  Short = {1}
  MaxLooked = 2
  Types = {any, t1, t2}
  AnyType = any
  MaxEls = 2
  MaxAsks = 2
  MaxGiven = 5
  MaxId = 3
SYMMETRY IdSymmetry
INVARIANTS
  Balanced
  FindsAll
  IdsKept
  AsksInOrder
CHECK_DEADLOCK FALSE
