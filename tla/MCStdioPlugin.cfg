SPECIFICATION Spec
CONSTANTS
    Calls = {c1}
    MaxRuns = 2
    RestartLimit = 2
INVARIANTS
    TypeOK
    StateMatchesSupervisor
    ToolsOfOpenConnection
PROPERTIES
    RestartsOrGivesUp
    StopReleasesCalls
CHECK_DEADLOCK FALSE
