CONSTANTS
    Dialects = {"anthropic", "openai"}
    MaxIterations = 2
    MaxIndex = 1
    MaxArgs = 2
    Pieces <- MCPieces
    MaxText = 6
SPECIFICATION FairSpec
INVARIANTS
    TypeOK
    CallsAreWhole
    SpokenAsWritten
PROPERTIES
    FollowsProtocol
    TurnEndsAndCloses
CHECK_DEADLOCK FALSE
