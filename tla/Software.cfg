CONSTANTS
  VAL = 8
  Words = {0, 1, 2, 4, 5, 7}
  MaxLen = 5
  MaxN = 4
  MaxList = 3
SPECIFICATION ObserversSpec
CHECK_DEADLOCK FALSE
INVARIANTS
  ReferenceAgrees
  DrawsAreOfTheirWords
