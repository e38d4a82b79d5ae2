SPECIFICATION Spec
CONSTANTS
    Keys = {k1}
    NoKey = NoKey
    Requests = {r1, r2}
    MaxId = 2
    MaxLives = 2
INVARIANTS
    TypeOK
    KeysResolve
    RegisteredIsRecoverable
    ConversationSurvivesRestart
SYMMETRY RequestSymmetry
CHECK_DEADLOCK FALSE
