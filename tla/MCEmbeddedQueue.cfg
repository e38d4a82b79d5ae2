SPECIFICATION Spec
CONSTANTS
    None = None
    NoTools = NoTools
    ToolSets = {NoTools}
    Commands = {cargo_test}
    LoopIds = {l1, l2}
    SessionLoop = SessionLoop
    IdLimit = 100
    Setups <- OnlyAutoTests
    LoopLimit = 2
    MaxInputs = 2
    MaxDrain = 2
PROPERTY
    PromptQueuedDuringTurnReplayed
