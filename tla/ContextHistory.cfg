SPECIFICATION Spec
CONSTANTS
    Main = "#main"
    Others = {"#dev"}
    StartFocus = {"#main", "#dev"}
    HotCtx = {"#dev"}
    Boots = {0, 1}
    Keep = 1
    MaxTurns = 2
    MaxNotes = 1
    MaxSessions = 2
    MaxLaunches = 1
CHECK_DEADLOCK FALSE
INVARIANTS
    Isolation
    TurnOwnsContext
    LogIsTrue
    MemoryInPlace
