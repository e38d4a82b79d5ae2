SPECIFICATION Spec
CONSTANTS
    Procs = {p1}
    Tasks = {t1, t2}
    Home <- OneHome
    Accounts = {default, work}
    Default = default
    MaxTokens = 5
    NoTask = NoTask
INVARIANTS
    TypeOK
    RefreshesCoalesce
    LockedSavesKeepAccounts
SYMMETRY TaskSymmetry
CHECK_DEADLOCK FALSE
CONSTRAINT Explored
