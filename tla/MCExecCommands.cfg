SPECIFICATION MCFairSpec
CONSTANTS
    None = None
    d1 = d1
    i1 = i1
    Ids = {i1, i2}
    Deliveries = {d1, d2}
    MaxOutputs = 1
INVARIANTS
    TypeOK
    NoDoubleClose
    RegistryLive
    Killable
    DisconnectCancels
PROPERTIES
    ImplementsProtocol
    CancelledLeaves
ACTION_CONSTRAINT OnlyD1Streams
CHECK_DEADLOCK FALSE
