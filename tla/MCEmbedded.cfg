SPECIFICATION Spec
CONSTANTS
    None = None
    NoTools = NoTools
    ToolSets = {NoTools}
    Commands = {cargo_test}
    LoopIds = {l1, l2}
    SessionLoop = SessionLoop
    IdLimit = 100
    Setups <- LoopsAndAutoTests
    LoopLimit = 3
    MaxInputs = 2
    MaxDrain = 2
INVARIANTS
    TypeOK
    DispatchedFollowUpStaysCorrelated
PROPERTIES
    OnlyFailureLeavesFollowUp
    QueuedPromptReplayedUnlessLeft
    FollowUpRetired
    AutoTestNeverFeedsItself
