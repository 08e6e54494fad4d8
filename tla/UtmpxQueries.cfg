SPECIFICATION FairSpec
CONSTANTS
    Threads = {t1, t2}
    NoThread = NoThread
    Size = 3
    Databases <- MCDatabases
    MaxWrites = 1
INVARIANTS
    TypeOK
    SessionsComplete
    BootTimeIsFirst
PROPERTIES
    MutexReleased
    WalksAlone
