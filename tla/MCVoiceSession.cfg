\* Three turns, one session id, utterances of at most one frame.
CONSTANTS
    MaxTurns = 3
    MaxFrames = 1
    Sessions = {s1}
    NoSession = NoSession
SPECIFICATION Spec
INVARIANTS
    TypeOK
    OneTurnAtATime
    LastWordIsIdle
    AtMostOneLateEffect
    HistoryInOrder
PROPERTIES
    BargeInIsHeard
    ReplacedTurnsOnlySayIdle
    ImplementsLedger
CHECK_DEADLOCK FALSE
