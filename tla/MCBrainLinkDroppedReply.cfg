SPECIFICATION Spec
CONSTANTS
    Handlers = {h1}
    SendCap = 1
    Burst = 1
    MinBackoff = 1
    MaxBackoff = 2
PROPERTY QueuedReplyIsWritten
CHECK_DEADLOCK FALSE
