\* The queue the decoders create: init(16, 1), wrapped around twice.
CONSTANTS
    MAX_FRAME_QUEUE_SIZE = 16
    max_size = 16
    keepLast = TRUE
    NumFrames = 36
SPECIFICATION Spec
INVARIANTS
    TypeOK
    RingInv
    PeekInOrder
    NoSlotShared
    RetainedFrameIntact
    CallbackFrameIntact
    PeekNextIsSuccessor
    NoLostWakeup
PROPERTIES
    AllFramesTaken
    ChannelSpec
\* The decode thread ends with the stream.
CHECK_DEADLOCK FALSE
