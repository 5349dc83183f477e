CONSTANTS
    a1 = a1  c1 = c1  c2 = c2  bad = bad  d1 = d1  d2 = d2
    Artifacts = {a1}
    Clean = {c1, c2}
    Blocked = {bad}
    Admins = {d1, d2}
    RevisionKeep = 2
    MaxRevision = 4
    None = None
SPECIFICATION Spec
SYMMETRY Symmetry
INVARIANTS UntouchedServedOnce RevisionNamesOnePayload
