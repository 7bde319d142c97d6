CONSTANTS
    e1 = e1
    e2 = e2
    e3 = e3
    NoEvent = NoEvent
    Events = {e1, e2}
    ClaimLimit = 1
    MaxBoots = 2
    MaxFailures = 1
    MaxDrops = 1
    MaxCommands = 1
SYMMETRY Symmetric
SPECIFICATION Spec
INVARIANT TypeOK
INVARIANT SentIsStored
INVARIANT MarkedIsPublished
INVARIANT ReconnectIsComplete
CHECK_DEADLOCK FALSE
