CONSTANTS
    Codes = {c1}
    Ttl = 1
    MaxIssues = 1
    Hubs = {living}
    NoHub = NoHub
    Rooms = {r1}
    NoRoom = NoRoom
    Pairings = {p1}
    NoToken = NoToken
    Exchanges = {e1}
    Unpairings = {u1}
    Sockets = {s1}
SPECIFICATION Spec
INVARIANTS
    RevokedHubsAreBlocked
CHECK_DEADLOCK FALSE
