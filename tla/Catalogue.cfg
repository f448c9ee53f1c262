SPECIFICATION CatalogueSpec
CONSTANTS
    demo = demo
    second = second
    Null = Null
    TOTAL = 3
    NumTraits = 3
    AttributesOf <- MCAttributesOf
    OwnerOf <- MCOwnerOf
    SeedEntries = 2
    NumPeople = 2
    MaxRuns = 2
    MaxEntered = 1
    BackgroundOf <- MCBackgroundOf
    NameContains <- MCNameContains
    NumberIn <- MCNumberIn
    Queries <- MCQueries
INVARIANTS
    CatalogueTypeOK
    NothingTwice
    CompletedRunRepairs
    SoundUnlessDisturbed
    PagesTile
    PageWithinTotal
    WalkMissesNothing
    WalkRepeatsNothing
    FilterNeverUnderstates
CHECK_DEADLOCK FALSE
