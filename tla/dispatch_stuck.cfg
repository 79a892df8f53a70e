SPECIFICATION FairSpec

CONSTANTS
    Batch <- OneBatch
    Size <- TwoFiles
    Handler = {h1, h2}
    Task = {t1, t2, t3, t4, t5}
    None = None
    MaxAttempts = 3
    MaxConcurrent = 1
    MaxFaults <- OneAbort

PROPERTY AcceptedRunsEnd
