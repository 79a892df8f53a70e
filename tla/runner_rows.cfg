SPECIFICATION FairSpec
CONSTANTS
    r1 = r1
    r2 = r2
    k1 = k1
    k2 = k2
    Run = {r1, r2}
    Key = {k1, k2}
    None = None
    Response <- Answers
    MaxRunning = 2
    MaxDeaths = 1
INVARIANTS RunsConsistent SavedAsCounted StoredExactlyOnce ToldTheTruth
PROPERTY RunsStop
