SPECIFICATION Spec
CONSTANTS
    Bodies <- MCBodies
    Levels <- MCLevels
    MaxDepth = 2
INVARIANTS
    Encodable
    StateIsSent
    Repeatable
    AnswersFit
CHECK_DEADLOCK FALSE
