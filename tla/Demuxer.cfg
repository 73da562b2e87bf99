SPECIFICATION Spec
CONSTANTS
    FileLen = 3
    MIN_FRAMES = 1
    MAX_QUEUE_SIZE = 3
    PacketSize = 2
    NodeSize = 1
    PacketDuration <- MCPacketDuration
    Second = 1
    Garbage <- MCGarbage
    None = None
    MaxErrors = 1
    MaxSeeks = 1
INVARIANTS
    TypeOK
    QueueIsFileSegment
    SomeQueueShort
    LiveBounded
PROPERTIES
    FeedSpec
    VideoServedAlone
    EveryStreamServed
CHECK_DEADLOCK FALSE
