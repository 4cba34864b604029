CONSTANTS
    NoRec = NoRec
    NoOwner = NoOwner
    NoJob = NoJob
    NoEntry = NoEntry
    Replica = {r1, r2}
    frontend = r1
    Job = {j1, j2, j3, j4, j5}
    Backlog = {j1, j2, j3}
    Creator = {c1, c2}
    Halter = {}
    Deleter = {}
    Updater = {}
    Home <- MCHome
    UpdateStatus = {}
    QueueSizeLimit = 2
    Overstay = FALSE
    Faults = TRUE
    MaxCrashes = 1

SPECIFICATION Spec

INVARIANTS
    TypeOK
    NoDoubleDeploy
    UniqueEntries
    PendingHistoryDeployed
    QueueBound
SYMMETRY MCSymmetry
CHECK_DEADLOCK FALSE
