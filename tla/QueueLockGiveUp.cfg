CONSTANTS
    puller1 = puller1
    deleter1 = deleter1
    puller2 = puller2
    queue1 = queue1
    queue2 = queue2
    Goroutine <- MCGoroutine
    Owner <- MCOwner
    QueueID <- MCQueueID
    NoOwner = NoOwner
    Skew <- MCSkew
    LockRetries = 4
    LockRetryDelay = 1
    LockExpiration = 2
    MaxSkew = 0
    HoldBound = 1
    UniqueIndex = TRUE
    Faulty = FALSE
    MaxTime = 5

SPECIFICATION Spec

PROPERTIES
    GiveUpOnlyIfContended
CHECK_DEADLOCK FALSE
