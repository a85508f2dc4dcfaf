SPECIFICATION Spec
CONSTANTS
  StampMax = 2
  Computations = 4
  Me = "a"
  Foe = "b"
  NodeLimits = {0, 5, 40, 1000}
  TrapAnalysis <- LegacySelfTrap
  StructuralAnalysis <- AnalyzeSelfTrap
  Positions <- MCStacked
  Solitary = {}
  Shared = {}
  Evaluated = {}
  MaxDepths = {0, 2}
  Clocks = {0, 1, 2, 9, 1000}
INVARIANTS
  NoSelfCollisionOverRisk
CHECK_DEADLOCK FALSE
