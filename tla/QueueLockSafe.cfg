CONSTANTS
    puller1 = puller1
    deleter1 = deleter1
    puller2 = puller2
    queue1 = queue1
    queue2 = queue2
    Goroutine <- MCGoroutine
    Owner <- MCOwner
    QueueID <- MCQueueID
    NoOwner = NoOwner
    Skew <- MCSkew
    LockRetries = 2
    LockRetryDelay = 1
    LockExpiration = 2
    MaxSkew = 1
    HoldBound = 1
    UniqueIndex = TRUE
    Faulty = TRUE
    MaxTime = 3

SPECIFICATION Spec

INVARIANTS
    TypeOK
    Mutex
PROPERTIES
    LeaseSpec
CHECK_DEADLOCK FALSE
