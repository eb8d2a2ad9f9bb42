SPECIFICATION Spec
CONSTANTS
    Uploads = {u1}
    Workers = {w1, w2}
    Contents = {c1, c2}
    Fitting = {c1, c2}
    Genuine = {c1, c2}
    None = None
    MaxRedeliveries = 1
SYMMETRY Symmetry
PROPERTIES
    CompletedImmutable
CHECK_DEADLOCK FALSE
