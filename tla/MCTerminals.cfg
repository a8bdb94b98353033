SPECIFICATION MCSpec
CONSTANTS
    TermCallers = {a, b}
    MaxSessions = 1
    MaxTerms = 2
    Outputs = {"text", "query"}
CHECK_DEADLOCK FALSE
INVARIANTS
    SessionsEnd
PROPERTIES
    CallsReturn
