CONSTANTS
    MaxTurns = 2
    MaxFrames = 1
    Sessions = {s1, s2}
    NoSession = NoSession
SPECIFICATION Spec
PROPERTIES RepliesCarryTheirSession
CHECK_DEADLOCK FALSE
