SPECIFICATION Spec
CONSTANTS
    Uploads = {u1}
    Workers = {w1, w2}
    Contents = {c1, bad}
    Fitting = {c1, bad}
    Genuine = {c1}
    None = None
    MaxRedeliveries = 1
SYMMETRY Symmetry
INVARIANTS
    TypeOK
    VerifiedFinal
    NeverForgotten
    BoundMediaKept
PROPERTIES
    DeletedForEver
CHECK_DEADLOCK FALSE
