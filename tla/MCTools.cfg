SPECIFICATION Spec
CONSTANTS
    Names = {bash, read}
    MaxTurns = 2
    MaxCalls = 2
    MaxAttempts = 2
    Files = {"f"}
    Callers = {"a", "b"}
    Turns = 3
    MaxVersion = 3
    Servers = {"fs", "web"}
    Stdio = {"fs"}
    Listers = {l1, l2}
    Clients = {"c1"}
    MaxStarts = 2
    ServerNames <- Servers3
    ToolNames <- Tools4
    MaxTools = 2
SYMMETRY Symmetry
CHECK_DEADLOCK FALSE
INVARIANTS
    ToolsStopAsMeant
    FilesGuarded
    McpIsTrue
