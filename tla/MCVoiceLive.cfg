CONSTANTS
    MaxTurns = 2
    MaxFrames = 1
    Sessions = {s1}
    NoSession = NoSession
SPECIFICATION FairSpec
PROPERTIES TurnsEnd
CHECK_DEADLOCK FALSE
