CONSTANTS
    Window = 2
    Trigger = 3
    Idle = 2
    Cap = 2
    MaxTime = 2
    MaxSessions = 2
    MaxMessages = 7
    Answers <- MCAnswers
SPECIFICATION Spec
INVARIANT ContextIsWhole
