SPECIFICATION USpec
CONSTANTS
    pkgs = pkgs
    prepared = prepared
    a = a
    b = b
    c = c
    d = d
    Absent = Absent
    Hidden = Hidden
    Files = {pkgs, prepared}
    FileAt <- MCFileAt
    Prepared = prepared
    Listed <- MCListed
    Pending <- MCPending
    Lengths = {0, 1, 2, 3, 4}
    Chunk = 2
    MaximumSize = 3
    MaxChanges = 2
    MaxMoves = 2
INVARIANTS
    UTypeOK
    WholeOrRefused
    NothingDropped
    NothingLost
