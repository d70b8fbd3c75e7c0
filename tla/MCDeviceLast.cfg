CONSTANTS
    lamp1 = lamp1
    lamp2 = lamp2
    Devices <- MCDevices
    Rooms = {living}
    NoRoom = NoRoom
    Gone = Gone
    NoDevice = NoDevice
    Refs <- MCRefs
    Matches <- MCMatches
    NameOf <- MCNameOf
    Jobs = {j1, j2}
    Attempts = 3
SPECIFICATION Spec
INVARIANT LastCommandWins
CHECK_DEADLOCK FALSE
