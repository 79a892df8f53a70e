SPECIFICATION Spec

CONSTANTS
    Batch <- OneBatch
    Size <- TwoFiles
    Handler = {h1, h2}
    Task = {t1, t2, t3, t4, t5}
    None = None
    MaxAttempts = 2
    MaxConcurrent = 2
    MaxFaults <- EachFault
INVARIANTS DispatchConsistent OneExecutor BatchOrder HandedOn FiledAfterVerdict SuccessIsTold BatchSerial
PROPERTY NeverPendingAgain
