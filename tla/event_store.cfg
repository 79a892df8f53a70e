SPECIFICATION Spec
CONSTANTS
    me = me
    other = other
    e1 = e1
    e2 = e2
    e3 = e3
    k1 = k1
    k2 = k2
    k3 = k3
    q1 = q1
    None = None
    PageSize = 2
    User <- Users
    Id <- Ids
    Key <- Keys
    DateOf <- Dates
    TypeOf <- Types3
    Request <- OneAtATime
    MaxSaves = 2
    MaxWalks = 1
    Extracts <- Extracted
    Questions <- Asked
    Bodies <- Sent
INVARIANTS AnswersConsistent WalkShowsAll
PROPERTIES OnlyAsAsked ReviewAnswerWasTrue
