\* Live streams and others, with the right indexes; only the video is taken from its
\* queue.
SPECIFICATION Spec
CONSTANTS
    FileLen = 3
    MIN_FRAMES = 1
    MAX_QUEUE_SIZE = 3
    PacketSize = 2
    NodeSize = 1
    PacketDuration <- MCPacketDuration
    Second = 1
    Garbage = {}
    None = None
    MaxErrors = 0
    MaxSeeks = 0
PROPERTIES
    LiveServedAlone
CHECK_DEADLOCK FALSE
