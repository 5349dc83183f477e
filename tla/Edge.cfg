\* Two requests of one principal under a cap of one, and
\* three principals over a map of two buckets, a token taking two refills;
\* a build over three colliding servers and a fourth.
CONSTANTS
    None = None
    Calls = {c1, c2}
    Keys = {k1}
    Max = 1
    TTL = 1
    AgeCap = 2
    Tools = {t1, t2}
    Entitled = {t1}
    Rules = {"secret", "exec"}
    Blocking = {"secret"}
    Principals = {k1, k2, k3}
    Unit = 3
    Rate = 2
    BurstTokens = 2
    IdleTTL = 3
    MaxEntries = 2
    IdleCap = 4
    Servers = {1, 2, 3, 4}
    Active = {1, 2, 3, 4}
    SlugOf <- SharedSlugs
    BareTools = {"read", "write"}
    ToolsOf <- UpstreamTools
    EntitlementSets <- Grants
    MaxParallelDials = 2
SPECIFICATION EdgeSpec
INVARIANTS
    CapHolds
    CountExact
    OnlyClearedForwarded
    TrailTruthful
    NothingBlockedDelivered
    SweepIsTransparent
    CallsReachAuthorizedServer
    ConnectionsOwned
PROPERTIES
    ActiveKeysKept
    CallsEnd
    BuildEnds
