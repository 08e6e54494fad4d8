SPECIFICATION Spec
CONSTANTS
    Pids = {1, 2, 3}
    MaxIncarnation = 2
    AccessOf <- MCAccess
    GoneReads = {"ESRCH", "empty"}
    Faults = TRUE
    ThreadsOf <- MCThreads
    CountMax = 4
INVARIANTS
    TypeOK
    TotalCoversEveryProcess
    TotalIsExact
    ProcessCountBracketed
