\* Progress: two requests that share builds, shutdown, the binding index.
CONSTANTS
    None = None
    Requests = {r1, r2}
    Keys = {k1, k2}
    Sessions = {s1}
    Ids = {i1}
    TenantOf <- OneTenant
    MaxAge = 1
    TTL = 2
    BuildBound = 1
    AgeCap = 3
SPECIFICATION FairSpec
PROPERTIES
    RequestsAnswered
    ShutdownReleases
    IndexDrains
CHECK_DEADLOCK FALSE
