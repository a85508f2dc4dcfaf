SPECIFICATION Spec
CONSTANTS
  Boards <- MCBoards
  AllMoves = {"up", "down", "left", "right", "invalid"}
  MaxDepth <- MCDepth
  MaxFailures = 1
INVARIANTS
  SafeMeansSafe OrderIndependent
PROPERTIES
  UnmakeRestores MakeFollowsRules
CHECK_DEADLOCK FALSE
