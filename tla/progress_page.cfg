SPECIFICATION WatchedFairSpec
CONSTANTS
    r1 = r1
    k1 = k1
    Run = {r1}
    Key = {k1}
    None = None
    Response <- Answers
    MaxRunning = 1
    MaxDeaths = 1
    Watched = r1
    MaxPolls = 1
    MaxLoads = 2
    MaxBreaks = 2
INVARIANTS PageConsistent StaticPageIsComplete
PROPERTIES ShownNeverRegresses PageLearnsTheEnd
