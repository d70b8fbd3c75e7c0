CONSTANTS
    Timers = {t1, t2}
    AnyKind = t1
    MaxTime = 1
    MaxCrashes = 1
    Zones = {0}
    Grace = 0
    Recurrences <- MCPlain
SPECIFICATION Spec
PROPERTY RestartRestoresAll
