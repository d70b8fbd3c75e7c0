CONSTANTS
    Timers = {t1, t2}
    AnyKind = t1
    MaxTime = 1
    MaxCrashes = 1
    Zones = {1}
    Grace = 0
    Recurrences <- MCKinds
SPECIFICATION Spec
INVARIANT NotRungAgain
