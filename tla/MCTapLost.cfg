SPECIFICATION Spec
CONSTANTS
    p1 = p1
    p2 = p2
    m1 = m1
    m2 = m2
    Phones = {p1, p2}
    Docs = {m1}
    Shared = {m1}
    Scorers <- OnlyP1
    Settlers <- Nobody
    Deleters <- P1AtM1
    Editors <- OnlyP1
    Size <- Small
    MaxBody = 1024
    MaxBatch = 2
    MaxAttempts = 5
    Passes <- OnePass
    MaxClock = 5
    MaxFaults = 0

PROPERTIES ScorersRowKept
CHECK_DEADLOCK FALSE
