SPECIFICATION Spec
CONSTANTS
    p1 = p1
    p2 = p2
    g1 = g1
    g2 = g2
    a = a
    b = b
    Procs = {p1, p2}
    Goroutines = {g1, g2}
    Day = 2
    MaxSeconds = 2
    MaxAppends = 3
    MaxNews = 2
    MaxForks = 1
    MaxFaults = 1
    Writers = {a, b}
    PerDay = 2
    Headings = {1}
    MaxNow = 2
    MaxDaily = 3
    MaxNotes = 2
    MaxRuns = 3
    MaxStitches = 1
    MaxTorn = 1
    MaxStops = 1
    ScopeNames <- TypedNames
    Terms = {"x", "y"}
    Limits = {0, 1}
    MaxDays = 2
    MaxEntries = 2
    Docs <- Texts
    SnippetLen = 3
    Names = {1, 2}
    MaxInodes = 5
    MaxIds = 3
    MaxSweeps = 2
    Programs = {"t1", "t2"}
    BootEntries = 1
    MaxTurnsRun = 3
    MaxUsed = 1
    MaxExtras = 1
    MaxResets = 1
    MaxFailures = 1
SYMMETRY ProcSymmetry
CHECK_DEADLOCK FALSE
INVARIANTS
    FileIsOneChain
    MemoryIsKept
    EntriesAreMoved
    MemoryIsScoped
    CheckpointHolds
