SPECIFICATION Spec
CONSTANTS
    Requests = {r1, r2}
    Commands = {k1, k2}
    None = None
    Torn = Torn
INVARIANTS
    TypeOK
    SavedWhenQuiet
    PairFileMatches
    RevokedStaysRevoked
    RevokedIsCutOff
PROPERTY OneSessionPerPairing
SYMMETRY Symmetry
CHECK_DEADLOCK FALSE
