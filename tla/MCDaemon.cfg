SPECIFICATION LiveSpec
CONSTANTS
    p1 = p1
    p2 = p2
    j1 = j1
    j2 = j2
    NoProc = NoProc
    NoJob = NoJob
    Procs <- Pids
    Jobs <- TwoJobs
    Kinds <- OneGood
    MaxFaults = 1
INVARIANTS
    VerdictsAreTrue
    OneDaemon
PROPERTIES
    MailIsSafe
    Settles
