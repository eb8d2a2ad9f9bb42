SPECIFICATION Spec
CONSTANTS
    Web = {ann}
    Phone = {bob}
    Creator = ann
    Options = {o1, o2}
    Extra = {x1, x2}
    Deputies = {bob}
    None = None
    MaxOptions = 3
    AllowMultiple = FALSE
    AllowAddOptions = TRUE
    MaxEvents = 3
SYMMETRY Symmetry
PROPERTIES
    PhoneVotesStay
