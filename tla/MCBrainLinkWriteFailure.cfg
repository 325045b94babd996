SPECIFICATION FairSpec
CONSTANTS
    Handlers = {h1}
    SendCap = 1
    Burst = 1
    MinBackoff = 1
    MaxBackoff = 2
PROPERTIES
    PumpDeathReconnects
CHECK_DEADLOCK FALSE
