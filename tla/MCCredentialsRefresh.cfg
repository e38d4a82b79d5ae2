SPECIFICATION Spec
CONSTANTS
    Procs = {p1}
    Tasks = {t1, t2}
    Home <- OneHome
    Accounts = {default, work}
    Default = default
    MaxTokens = 4
    NoTask = NoTask
INVARIANT NoRedundantRefresh
CHECK_DEADLOCK FALSE
