CONSTANTS
    Hubs = {h1}
    Sockets = {s1}
    Nobody = Nobody
    Announcements = {a1, a2}
    Sweeps = {}
SPECIFICATION Spec
PROPERTY FramesArePlayed
CHECK_DEADLOCK FALSE
