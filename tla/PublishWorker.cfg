\* Two changes of the catalog, two failures in a row before the failure count saturates.
CONSTANTS
    MaxFailures = 2
    Empty = Empty
    Foreign = Foreign
    Absent = Absent
    NoOrigin = NoOrigin
    MaxVersion = 2
SPECIFICATION FairSpec
INVARIANTS
    QuiescentIsPublished
PROPERTIES
    MarketplaceSpec
    Converges
