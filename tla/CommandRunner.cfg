SPECIFICATION FairSpec
CONSTANTS
    Callers = {c1, c2}
    Library = Library
    Capacity = 1
    Limit = 2
    Outputs = {0, 2, 3, 5}
    Endings = {"zombie", "reaped"}
    Faults = TRUE
INVARIANTS
    TypeOK
    NothingLeftBehind
    SuccessIsWhole
PROPERTY ReturnsUnlessTwoGiveUp
