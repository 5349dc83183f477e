\* tools/list against the comment on rbacToolsList.
CONSTANTS
    None = None
    Servers = {1, 2, 3, 4}
    Active = {1, 2, 3, 4}
    SlugOf <- SharedSlugs
    Tools = {"read", "write"}
    ToolsOf <- UpstreamTools
    EntitlementSets <- Grants
    MaxParallelDials = 2
CHECK_DEADLOCK FALSE
SPECIFICATION Spec
INVARIANTS
    ListedIsCallable
