CONSTANTS
    Paths = {p1, p2}
    Contents = {c1, c2}
    Mine = Mine
    Link = Link
    Outside = Outside
    Runs = {r1, r2}
    None = None
SYMMETRY Symmetry
SPECIFICATION Spec
INVARIANTS
    NothingForgotten
    CleanRunDelivers
PROPERTY
    UnmanagedUntouched
