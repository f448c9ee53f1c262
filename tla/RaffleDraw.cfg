SPECIFICATION FairSpec
CONSTANTS
    Requests = {t1, t2}
    Draws = {d1, d2}
    DrawHash <- MCDrawHash
    MaxTime = 2
    MaxNumber = 3
    MaxBlocks = 2
    Null = Null
INVARIANTS
    TypeOK
    WinnerOfSomePrefix
    CountNeverDisagrees
    SeedHiddenWhileOpen
    EntropyNotStale
    DrawInv
PROPERTIES
    PublishedResultVerifies
    ClosedRaffleIsDrawn
CHECK_DEADLOCK FALSE
