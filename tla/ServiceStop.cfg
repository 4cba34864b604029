\* Two queues and one request at a time.
CONSTANTS
    Queue = {K80, ANY}
    Handler = {h1}
    None = None
    Left = Left
SPECIFICATION FairSpec
INVARIANTS PullerHasQueue StoppedClean
PROPERTY ShutdownEnds
CHECK_DEADLOCK FALSE
