SPECIFICATION Spec
CONSTANTS
  StampMax = 2
  Computations = 4
  Me = "a"
  Foe = "b"
  NodeLimits = {0, 5, 40, 1000}
  TrapAnalysis <- LegacySelfTrap
  StructuralAnalysis <- AnalyzeSelfTrap
  Positions <- MCPositions
  Solitary <- MCSolitary
  Shared <- MCShared
  Evaluated <- MCEvaluated
  MaxDepths = {0, 2}
  Clocks = {0, 1, 2, 9, 1000}
INVARIANTS
  SpaceTimeExact DeadMeansDoomed RoomIsExact
  PolicyIsHonest SelfTrapIsFatal
  ClosureCoversContests SafeIsSurvivable FallbackTakesItsChance
  PublishedIsEquilibrium StandardMoveIsSound
CHECK_DEADLOCK FALSE
