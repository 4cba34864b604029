CONSTANTS
    NoRec = NoRec
    NoOwner = NoOwner
    NoJob = NoJob
    NoEntry = NoEntry
    Replica = {r1, r2}
    frontend = r1
    Job = {j1, j2}
    Backlog = {j1}
    Creator = {c1}
    Halter = {}
    Deleter = {d1}
    Updater = {}
    Home <- MCHome
    UpdateStatus = {}
    QueueSizeLimit = 0
    Overstay = FALSE
    Faults = FALSE
    MaxCrashes = 1

SPECIFICATION FairSpec

PROPERTIES
    EntriesDrain
