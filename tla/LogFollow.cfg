\* A request of any kind, pages of two lines, five lines.
CONSTANTS
    Reader = {r1}
    JobStatus = {"QUEUED", "PENDING", "PROCESSING", "STORING", "COMPLETED"}
    NotFound = NotFound
    Page = 2
    MaxLines = 5
    Faults = TRUE
SPECIFICATION FairSpec
INVARIANTS TypeOK NoGaps CompleteWhenOk
PROPERTY ReadersEnd
CHECK_DEADLOCK FALSE
