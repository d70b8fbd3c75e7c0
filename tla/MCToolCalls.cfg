CONSTANTS
    Dialects = {"anthropic", "openai"}
    MaxIterations = 2
    MaxIndex = 1
    MaxArgs = 2
    Pieces <- MCPieces
    MaxText = 6
SPECIFICATION Spec
INVARIANT CallsStayApart
CHECK_DEADLOCK FALSE
