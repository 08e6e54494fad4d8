SPECIFICATION HostSpec
CONSTANTS
    a = a
    b = b
    lp0 = lp0
    Queues = {a, b}
    Devices = {lp0}
    QueueOf <- MCQueueOf
    Environments <- MCEnvironments
    Paths = 2
    Limit = 1
    MaxMoves = 2
    plain = plain
    multi = multi
    loopback = loopback
    object = object
    garbled = garbled
    KindOf <- MCKindOf
    Routes = {plain, multi, loopback, object, garbled}
    MaxTable = 2
    MaxChanges = 2
    QueueMax = 2
    Batch = 2
    Faults = TRUE
INVARIANTS
    TypeOK
    AnswerWasTrue
    
    DumpTypeOK
    SuccessIsSnapshot
    UndisturbedSucceeds
PROPERTY DumpEnds
