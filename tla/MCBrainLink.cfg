SPECIFICATION FairSpec
CONSTANTS
    Handlers = {h1}
    SendCap = 1
    Burst = 1
    MinBackoff = 1
    MaxBackoff = 2
INVARIANTS
    TypeOK
    PongSendNeverBlocks
    LatestPongKept
    NoUnsolicitedPong
    NoLeftoverReplayed
    PongOvertakingBounded
PROPERTIES
    PingAnswered
    SessionEnds
    ReplyAccepted
    ShutdownExits
CHECK_DEADLOCK FALSE
