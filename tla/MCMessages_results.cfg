SPECIFICATION Spec
CONSTANTS
    MaxTurns = 1
    MaxSteps = 1
    MaxCalls = 2
    MaxDrains = 0
    Boot = 2
    Kept = 4
    Ids = {0}
    MaxParts = 0
    MaxLen = 0
    EntryIds = {1}
    MaxEntryParts = 1
    MaxPieces = 0
    MaxChunk = 1
    MaxMessages = 1
    Builtin <- Profiles
    SavedNames = {"mine"}
    Env <- Environments
    NewModels = {"n"}
    NewKeys = {"kN"}
    NewUrls = {"local"}
    NewServices = {"ollama"}
    MaxCommands = 0
    TypedValues <- TypedWords
    Defaults <- Found
    HandWritten <- OwnFiles
    MaxEdits = 0
    MaxSaves = 0
    MaxStarts2 = 0
    MaxTicks = 0
    Programs = {1, 2}
    Urls = {"home", "work"}
    TTL = 2
    MaxHours = 0
    MaxVersion = 1
    MaxRefreshes = 0
CHECK_DEADLOCK FALSE
INVARIANTS
    ResultsAreOwn
