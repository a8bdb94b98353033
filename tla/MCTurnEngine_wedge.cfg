SPECIFICATION FairSpec
CONSTANTS
    MaxTurns = 1
    MaxPrompts = 1
    MaxFollowUps = 0
    MaxStream = 1
    StreamDeltas = {"tool_call"}
    EventCap = 2
    StreamCap = 2
CHECK_DEADLOCK FALSE
PROPERTIES
    CancelledTurnEnds
