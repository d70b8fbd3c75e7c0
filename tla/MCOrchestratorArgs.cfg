CONSTANTS
    Dialects = {"anthropic", "openai"}
    MaxIterations = 2
    MaxIndex = 1
    MaxArgs = 2
    Pieces <- MCPieces
    MaxText = 6
SPECIFICATION Spec
PROPERTY ToolFailuresReachTheModel
CHECK_DEADLOCK FALSE
