SPECIFICATION FairSpec
CONSTANT Pullers = {p1, p2}
INVARIANTS
    TypeOK
    PullingIsPulling
PROPERTIES
    PresentIsReady
    MissingIsPulled
