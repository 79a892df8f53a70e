SPECIFICATION Spec
CONSTANTS
    q1 = q1
    q2 = q2
    Request <- TwoRequests
    None = None
    MaxGrants = 2
SYMMETRY AnyOfThem
INVARIANTS RowConsistent ProvidersAgree
PROPERTY ClearedStaysCleared
