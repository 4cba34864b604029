CONSTANTS
    NoRec = NoRec
    NoOwner = NoOwner
    NoJob = NoJob
    NoEntry = NoEntry
    Replica = {r1, r2}
    frontend = r1
    Job = {j1}
    Backlog = {j1}
    Creator = {}
    Halter = {}
    Deleter = {}
    Updater = {}
    Home <- MCHome
    UpdateStatus = {}
    QueueSizeLimit = 0
    Overstay = TRUE
    Faults = FALSE
    MaxCrashes = 0

SPECIFICATION Spec

INVARIANTS
    NoDoubleDeploy
