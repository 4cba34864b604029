CONSTANTS
    NoRec = NoRec
    NoOwner = NoOwner
    NoJob = NoJob
    NoEntry = NoEntry
    Replica = {r1}
    frontend = r1
    Job = {j1}
    Backlog = {j1}
    Creator = {}
    Halter = {}
    Deleter = {}
    Updater = {}
    Home <- MCHome
    UpdateStatus = {}
    QueueSizeLimit = 0
    Overstay = FALSE
    Faults = TRUE
    MaxCrashes = 0

SPECIFICATION Spec

PROPERTIES
    FailedSubmitStaysQueued
CHECK_DEADLOCK FALSE
