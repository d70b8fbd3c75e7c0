CONSTANTS
    Codes = {c1}
    Ttl = 1
    MaxIssues = 3
    Hubs = {living, kitchen}
    NoHub = NoHub
    Rooms = {r1, r2}
    NoRoom = NoRoom
    Pairings = {p1, p2, p3}
    NoToken = NoToken
    Exchanges = {e1}
    Unpairings = {u1}
    Sockets = {s1}
SPECIFICATION Spec
SYMMETRY TaskSymmetry
INVARIANTS
    CodesAdmitOnce
    PairedTokensWork
    GreetedByARow
CHECK_DEADLOCK FALSE
