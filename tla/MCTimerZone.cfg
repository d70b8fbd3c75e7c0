CONSTANTS
    Timers = {t1, t2}
    AnyKind = t1
    MaxTime = 2
    MaxCrashes = 1
    Zones = {2}
    Grace = 0
    Recurrences <- MCPlain
SPECIFICATION Spec
PROPERTY NotMissedEarly
