SPECIFICATION DumpSpec
CONSTANTS
    plain = plain
    other = other
    multi = multi
    loopback = loopback
    object = object
    garbled = garbled
    KindOf <- MCKindOf
    Routes = {plain}
    MaxTable = 1
    MaxChanges = 0
    QueueMax = 2
    Batch = 2
    Faults = TRUE
INVARIANT UnfinishedDumpFails
