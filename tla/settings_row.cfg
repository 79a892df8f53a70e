SPECIFICATION Spec
CONSTANTS
    None = None
    Req = {r1, r2, r3}
    Ops <- MCOps
SYMMETRY ReqSymmetry
CHECK_DEADLOCK FALSE
INVARIANTS RequestsConsistent UploadTaskHasRun
PROPERTIES NothingUndone SavedOrSeen
