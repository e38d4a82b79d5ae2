SPECIFICATION Spec
CONSTANTS
    None = None
    NoTools = NoTools
    ToolSets = {NoTools}
    Commands = {cargo_test}
    LoopIds = {l1, l2}
    SessionLoop = SessionLoop
    IdLimit = 100
    Kinds = {"Prompt", "Abort", "ResetCancel", "SetAutoTest", "SlashAutoTest", "StartLoop", "StopLoop", "SetDisabledTools", "ConfirmBash", "Disconnect", "GetPlugins", "Query"}
    Dangerous = TRUE
    Closes = TRUE
    AutoTestOn = FALSE
    MaxCommands = 3
INVARIANTS
    TypeOK
    BusyIffPrompting
    AutoTestGuardCleared
    CommandsInOrder
    NothingUnsavedWhenStopped
PROPERTIES
    CommandsTaken
    SignalStops
CHECK_DEADLOCK FALSE
