SPECIFICATION Spec
CONSTANTS
    c1 = c1
    c2 = c2
    Channels <- MCChannels
    Capacities = {1, 3}
    MaxFrames = 5
    MaxBatch = 2
INVARIANTS
    Fifo
    DropsCounted
    NeverOverMaxCapacity
PROPERTIES
    KeyframesKept
    ShutdownDrains
