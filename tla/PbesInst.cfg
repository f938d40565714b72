SPECIFICATION FairSpec
CONSTANTS
    Thread = {t1, t2}
    Vertex = {0, 1, 2, 3, 4}
    init = 0
    Wrap = 4
    Systems <- MCSystems
INVARIANTS
    TodoUndefined
    NoWorkLost
    AnswerCorrect
PROPERTIES
    ReportOnce
    ExplorationEnds
