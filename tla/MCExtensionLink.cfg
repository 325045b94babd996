SPECIFICATION FairSpec
CONSTANTS
    MaxConns = 2
    MaxCommands = 2
    None = None
INVARIANTS
    TypeOK
    OneConnection
    Agreement
PROPERTY SilentIsDropped
CONSTRAINT OneKind
ACTION_CONSTRAINT OnlyWhileOrdered
CHECK_DEADLOCK FALSE
