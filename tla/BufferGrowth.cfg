SPECIFICATION FairSpec
CONSTANTS
    Lengths = {0, 2, 3, 5, 6, 8, 11, 16, 17, 20, 23, 24, 25}
    Initial <- MCInitial
    Maximum = 20
    MaxAttempts = 3
    Spare = 1
    MaxChanges = 3
INVARIANTS
    TypeOK
    NeverTruncated
    GivesUpOnlyAtMaximum
    GivesUpOnlyIfOutgrown
PROPERTIES
    LoopEnds
