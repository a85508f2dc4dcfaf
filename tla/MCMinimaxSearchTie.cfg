SPECIFICATION Spec
CONSTANTS
    Games <- MCGames
    Configs <- MCConfigs
    Directions <- MCDirections
    Positions <- MCPositions
    Slot <- MCSlot
    MaxDepth = 4
    MaxGeneration = 3
    TerminalWin = 100
    TerminalLoss <- MCTerminalLoss
    SurvivalStep = 1
    Infinity = 1000
    NoMove = NoMove
    Vacant = Vacant
INVARIANTS
    AnswerNotLost
