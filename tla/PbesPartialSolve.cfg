SPECIFICATION Spec
CONSTANTS
    Vertex <- MCVertex
    Families = {3, 4, 5}
    Equations <- MCEquations
    Strategies = {"attractor", "loops2", "fatal_original", "solver"}
    Prune = {TRUE, FALSE}
INVARIANTS
    StrategiesWin
    ExtractedIsDefined
    AnswerCorrect
    SolverStrategyWins
