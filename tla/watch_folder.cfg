SPECIFICATION FairSpec
CONSTANTS
    None = None
    f1 = f1
    f2 = f2
    n1 = n1
    n2 = n2
    File = {f1, f2}
    Name = {n1, n2}
    Namings <- MCNamings
    MaxJobs = 2
    MaxFaults = 2
CHECK_DEADLOCK FALSE
INVARIANTS FolderConsistent NothingLost
PROPERTY Filed
