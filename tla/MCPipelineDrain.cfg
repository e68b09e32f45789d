SPECIFICATION DrainSpec
CONSTANTS
    N = 4
    ChannelId = 7
    Capacity <- MCCapacity
    BatchSize <- MCBatchSize
    CodecDelay <- MCCodecDelay
    DrainAttempts = 2
    MaxFrames = 3
INVARIANT
    DrainLosesNothing
