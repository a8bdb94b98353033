SPECIFICATION Spec
CONSTANTS
    MaxTurns = 2
    MaxPrompts = 3
    MaxFollowUps = 1
    MaxStream = 1
    StreamDeltas = {"tool_call"}
    EventCap = 1
    StreamCap = 1
CHECK_DEADLOCK FALSE
INVARIANTS
    TypeOK
    OneTurnInBody
    ListenerAlive
    NoTurnOutOfReach
    PromptsKept
PROPERTIES
    ImplementsProtocol
