SPECIFICATION Spec
CONSTANTS
    EscWindow = 3
    CtrlCWindow = 6
    MaxQueue = 2
    Channels <- Spellings
    Bare <- FirstOff
    Nameless = ""
    MainChannel = "main"
    Nicks = {ann}
    MaxFaults = 1
    MaxFile = 2
    MaxPlays = 2
    MaxGeneration = 5
    MaxTicks = 2
    MaxArrivals = 6
    MaxLost = 1
    PanelTools = {read, bash}
    MaxRows = 4
    MaxTasks = 2
    Catalogue <- Services
    Keys = {"a", "b", " "}
    VisibleRows = 5
    MaxQuery = 2
    MaxMessages = 3
CHECK_DEADLOCK FALSE
INVARIANTS
    PlayerInSight
    PanelIsTrue
PROPERTIES
    KeysOnPurpose
    PlacesAreKept
    AnswersAreKept
    PickIsMarked
