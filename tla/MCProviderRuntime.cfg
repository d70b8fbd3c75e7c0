CONSTANTS
    Kinds = {stt, tts}
    Callers = {c1, c2, c3}
    Nobody = Nobody
    NoKind = NoKind
    MaxStray = 2
SPECIFICATION RuntimeSpec
INVARIANTS
    ColdLoadOnce
PROPERTIES
    WaitersComeToTheirTurn
