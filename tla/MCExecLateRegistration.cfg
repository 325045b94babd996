SPECIFICATION MCSpec
CONSTANTS
    None = None
    d1 = d1
    i1 = i1
    Ids = {i1, i2}
    Deliveries = {d1, d2}
    MaxOutputs = 1
INVARIANT NothingSurvivesDisconnect
CHECK_DEADLOCK FALSE
