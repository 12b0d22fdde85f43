SPECIFICATION Spec
CONSTANTS
    RingCap = 1
    QueueCap = 2
    MaxBatch = 2
    MaxParts = 2
    Frames <- MCFrames
    MaxFrames = 4
    MaxPlays = 2
    None = None
INVARIANTS TypeOK Decodable RtpInfoNotAhead
PROPERTIES ImplementsFeed ImplementsQuery NoMediaAfterTeardown
CHECK_DEADLOCK FALSE
