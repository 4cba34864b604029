\* An upload, a deletion and a download of a job that writes two objects.
CONSTANTS
    Archive = {a1}
    ResultKey = {l1, l2}
    Dir <- MCDir
    Kinds <- MCKinds
    MaxKeys = 1
    Faults = TRUE
    Deleter = {d1}
    Reader = {g1}
    Downloader = {t1}
    Attempts = 2
    SizeLimit = 1
    Nothing = Nothing
SPECIFICATION FairSpec
INVARIANTS TypeOK AckedStays CompleteZip DownloadSurvives
PROPERTY WriterEnds
CHECK_DEADLOCK FALSE
