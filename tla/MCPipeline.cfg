SPECIFICATION CameraSpec
CONSTANTS
    N = 4
    ChannelId = 7
    Capacity <- MCCapacity
    BatchSize <- MCBatchSize
    CodecDelay <- MCCodecDelay
    DrainAttempts = 2
    MaxFrames = 3
INVARIANTS
    InOrder
    DropsCounted
    StoppedIsQuiet
    SourceQueueDrained
PROPERTIES
    IsFrameStream
    StopReturns
    QueuesKeepMoving
