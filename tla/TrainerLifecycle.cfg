CONSTANTS
    NoRec = NoRec
    NoOwner = NoOwner
    NoJob = NoJob
    NoEntry = NoEntry
    Replica = {r1, r2}
    frontend = r1
    Job = {j1}
    Backlog = {j1}
    Creator = {}
    Halter = {h1}
    Deleter = {d1}
    Updater = {u1}
    Home <- MCHome
    UpdateStatus = {"COMPLETED"}
    QueueSizeLimit = 0
    Overstay = FALSE
    Faults = TRUE
    MaxCrashes = 0

SPECIFICATION Spec

INVARIANTS
    NoDoubleDeploy
    DeployedNotQueued
    QueueMutex
PROPERTIES
    NeverRequeued
    LeaseSpec
CHECK_DEADLOCK FALSE
