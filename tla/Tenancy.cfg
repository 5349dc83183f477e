\* Two requests over three subjects and two seats; two admins over two
\* servers and a cap of one; a list of three rows walked a page at a time.
CONSTANTS
    Subjects = {s1, s2, s3}
    Requests = {r1, r2}
    SeatLimit = 2
    Window = 3
    Threshold = 2
    None = None
    Writers = {w1, w2}
    Ids = {1, 2}
    Names = {1, 2, 3}
    Cap = 1
    MaxVersion = 2
    MaxPending = 2
    RowIds = {1, 2, 3}
    MaxKey = 3
    MaxLimit = 2
    Batch = 2
    NoCursor = NoCursor
    Absent = Absent
    Gone = Gone
SYMMETRY Symmetry
SPECIFICATION TenancySpec
INVARIANTS
    RecentUserHoldsSeat
    NudgeCatches
    WalkComplete
PROPERTIES
    OverrunBounded
    CommitsAsIfAlone
