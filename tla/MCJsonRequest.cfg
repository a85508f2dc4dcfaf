SPECIFICATION Spec
CONSTANTS
  Null = Null
  IntMax = 127
  Sizes <- MCSizes
  Timeouts <- MCNegative
  Damages <- MCNegative
  Healths <- MCIntegers
  Lengths = {1}
  Coords <- MCCoords
  Strings <- MCStrings
  Digits <- MCDigits
  MaxSnakes = 2
  MaxBody = 1
  MaxFood = 1
INVARIANTS
  LiteralsAreExact HandoverIsWhole
CHECK_DEADLOCK FALSE
