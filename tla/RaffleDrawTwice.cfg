SPECIFICATION Spec
CONSTANTS
    Requests = {t1, t2}
    Draws = {d1, d2}
    DrawHash <- MCDrawHash
    MaxTime = 2
    MaxNumber = 2
    MaxBlocks = 2
    Null = Null
PROPERTY
    DrawnOnce
CHECK_DEADLOCK FALSE
