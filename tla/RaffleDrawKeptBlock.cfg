SPECIFICATION Spec
CONSTANTS
    Requests = {t1}
    Draws = {d1, d2}
    DrawHash <- MCDrawHash
    MaxTime = 2
    MaxNumber = 1
    MaxBlocks = 1
    Null = Null
INVARIANT
    HashOfPublishedBlock
CHECK_DEADLOCK FALSE
