SPECIFICATION MCSpec
CONSTANTS
    MaxTurns = 2
    MaxPrompts = 1
    MaxFollowUps = 1
    MaxStream = 1
    StreamDeltas = {"text", "usage", "tool_call", "tool_result"}
    EventCap = 4
    StreamCap = 2
    MaxSize = 5
    CapSize = 4
    MaxOutput = 7
CHECK_DEADLOCK FALSE
INVARIANTS
    StatusIsTrue
PROPERTIES
    TurnsEnd
    HeadlessEnds
    CommandIsTold
