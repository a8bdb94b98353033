SPECIFICATION MCSpec
CONSTANTS
    TermCallers = {a}
    MaxSessions = 1
    MaxTerms = 1
    Outputs = {"text", "query"}
CHECK_DEADLOCK FALSE
PROPERTIES
    CloseReturns
