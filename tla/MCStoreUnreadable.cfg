SPECIFICATION Spec
CONSTANTS
    m1 = m1
    m2 = m2
    Ids = {m1, m2}
    Returning = {}
    RemovalsOverlap = TRUE
    RevertsOverlap = TRUE
    DocValue <- TwoDocValues
    RestValue <- TwoRestValues
    MaxUpdates = 5
    MaxFaults = 0
INVARIANTS AlwaysReadable
CHECK_DEADLOCK FALSE
