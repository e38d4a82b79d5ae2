SPECIFICATION Spec
CONSTANTS
    None = None
    NoTools = NoTools
    ToolSets = {NoTools}
    Commands = {cargo_test}
    LoopIds = {l1, l2}
    SessionLoop = SessionLoop
    IdLimit = 100
    Kinds = {"Prompt", "Abort", "ConfirmBash"}
    Dangerous = TRUE
    Closes = FALSE
    AutoTestOn = FALSE
    MaxCommands = 3
PROPERTY ConfirmationAnswered
CHECK_DEADLOCK FALSE
