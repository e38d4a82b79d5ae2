SPECIFICATION Spec
CONSTANTS
    None = None
    NoTools = NoTools
    ToolSets = {NoTools, SomeTools}
    Commands = {cargo_test}
    LoopIds = {l1, l2}
    SessionLoop = SessionLoop
    IdLimit = 100
    MaxEffectId = 4
    MaxIterations = 2
INVARIANTS
    TypeOK
    BusyIffPromptPending
    MirrorsFollowCore
    LoopRegistrationExact
    LoopFollowUpHasLoop
    NoToolFilterPending
PROPERTIES
    FeedbackCorrelates
    ImplementsPendingWork
