SPECIFICATION Spec
CONSTANTS
    Uploads = {u1, u2, u3}
    Workers = {w1, w2}
    Size <- OneUnit
    Quota = 1
    Prompt = TRUE
    MaxFaults = 2
SYMMETRY Symmetry
INVARIANTS
    TypeOK
    QuotaOvershoot
    ListedIsStored
    CompletedStays
    DeletedForEver
    NothingLeft
CHECK_DEADLOCK FALSE
