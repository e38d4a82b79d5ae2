SPECIFICATION Spec
CONSTANTS
    CallIds = {a, b}
    NoRequest = NoRequest
    RetryCount = 2
    MaxBatch = 2
    ToolOutcomes = {"Succeeded", "ToolError"}
    Budgets = {0, 1, 2}
    StepLimit = 7
INVARIANTS
    TypeOK
    RequestsAnswered
    TranscriptAgrees
    CallsBounded
    OkIsFinished
    ToolsRunInOrder
    TurnEventsPaired
CHECK_DEADLOCK FALSE
