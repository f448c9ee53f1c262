SPECIFICATION Spec
CONSTANTS
    Requests = {t1, t2}
    Draws = {d1}
    DrawHash <- MCDrawHash
    MaxTime = 2
    MaxNumber = 2
    MaxBlocks = 2
    Null = Null
INVARIANT
    DrawnVerifies
CHECK_DEADLOCK FALSE
