SPECIFICATION Spec
CHECK_DEADLOCK FALSE
CONSTANTS
    t1 = t1
    t2 = t2
    boot = boot
    NoPipe = NoPipe
    Callers <- MCCallers
    kMaxChannels = 2
    MaxId = 3
    MaxEvents = 5
INVARIANT
    DeletedIsGone
