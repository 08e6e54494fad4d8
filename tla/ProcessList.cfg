SPECIFICATION Spec
CONSTANTS
    Pids = {1, 2}
    MaxIncarnation = 2
    AccessOf <- MCAccess
    GoneReads = {"ESRCH", "empty"}
    Faults = TRUE
    Names <- MCNames
    NameOf <- MCNameOf
    ExeNameOf <- MCExeNameOf
INVARIANTS
    TypeOK
    Complete
    EntriesAttributed
    AnswersAgree
    NotFoundIsTrue
    EnumerationSurvives
PROPERTY EveryCallAdvances
