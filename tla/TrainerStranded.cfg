CONSTANTS
    NoRec = NoRec
    NoOwner = NoOwner
    NoJob = NoJob
    NoEntry = NoEntry
    Replica = {r1}
    frontend = r1
    Job = {j1, j2}
    Backlog = {j1}
    Creator = {c1}
    Halter = {}
    Deleter = {}
    Updater = {}
    Home <- MCHome
    UpdateStatus = {}
    QueueSizeLimit = 0
    Overstay = FALSE
    Faults = FALSE
    MaxCrashes = 0

SPECIFICATION Spec

INVARIANTS
    QueuedJobHasEntry
