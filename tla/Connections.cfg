SPECIFICATION Spec
CONSTANTS
    Pids = {p1, p2}
    Visible = {p1, p2}
    Fds = {1, 2}
    Sockets = {s1, s2}
    s1 = s1
    s2 = s2
    tcp = tcp
    udp = udp
    Sources <- MCSources
    TableOf <- MCTableOf
    Missing <- MCMissing
    Listening = {s2}
    MaxMoves = 2
INVARIANTS
    TypeOK
    OwnersHeldIt
    EveryOwnerOnce
    TablesCovered
SYMMETRY MCSymmetry
