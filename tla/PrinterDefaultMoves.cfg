SPECIFICATION Spec
CONSTANTS
    a = a
    b = b
    lp0 = lp0
    Queues = {a, b}
    Devices = {}
    QueueOf <- MCQueueOf
    Environments <- MCEnvironments
    Paths = 1
    Limit = 1
    MaxMoves = 1
INVARIANT DefaultChangeReported
