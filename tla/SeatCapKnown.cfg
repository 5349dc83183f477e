CONSTANTS
    Subjects = {s1, s2, s3}
    Requests = {r1, r2}
    SeatLimit = 1
    Window = 3
    Threshold = 2
    None = None
SYMMETRY Symmetry
SPECIFICATION Spec
PROPERTY
    KnownNeverRejected
