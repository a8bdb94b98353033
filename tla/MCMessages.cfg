SPECIFICATION Spec
CONSTANTS
    MaxTurns = 3
    MaxSteps = 2
    MaxCalls = 2
    MaxDrains = 1
    Boot = 2
    Kept = 4
    Ids = {0, 1, 2}
    MaxParts = 2
    MaxLen = 3
    EntryIds = {1, 2}
    MaxEntryParts = 4
    MaxPieces = 5
    MaxChunk = 2
    MaxMessages = 2
    Builtin <- Profiles
    SavedNames = {"mine"}
    Env <- Environments
    NewModels = {"n"}
    NewKeys = {"kN"}
    NewUrls = {"local"}
    NewServices = {"ollama"}
    MaxCommands = 3
    TypedValues <- TypedWords
    Defaults <- Found
    HandWritten <- OwnFiles
    MaxEdits = 2
    MaxSaves = 2
    MaxStarts2 = 1
    MaxTicks = 1
    Programs = {1, 2}
    Urls = {"home", "work"}
    TTL = 2
    MaxHours = 3
    MaxVersion = 3
    MaxRefreshes = 3
CHECK_DEADLOCK FALSE
INVARIANTS
    CallsAreAnswered
    RepairIsRight
    LineSaysWhatItHolds
    SettingsHold
PROPERTIES
    WordIsHeeded
    CacheCanBeTrusted
