\* Safety of the session cache: two principals of one subject, two requests.
CONSTANTS
    None = None
    Requests = {r1, r2}
    Keys = {k1, k2}
    Sessions = {s1, s2}
    Ids = {i1}
    TenantOf <- TwoTenants
    MaxAge = 1
    TTL = 2
    BuildBound = 1
    AgeCap = 3
SPECIFICATION Spec
SYMMETRY Symmetry
INVARIANTS
    NoLeakedSession
    CachedIsOpen
    ServedByOwnSession
PROPERTIES
    StalenessBounded
CHECK_DEADLOCK FALSE
