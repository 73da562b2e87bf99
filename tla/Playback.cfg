SPECIFICATION Spec
CONSTANTS
    FileLen = 5
    MIN_FRAMES = 1
    MAX_QUEUE_SIZE = 3
    PacketSize = 2
    NodeSize = 1
    PacketDuration <- MCPacketDuration
    Second = 1
    None = None
    MaxErrors = 1
    MaxSeeks = 1
    Corrupt = {2}
    Delay = 1
    Capacity = 1
    NodeSerials = {0, 1}
    MaxSerial = 1
INVARIANTS
    TypeOK
    OneStaleSent
    OldFramesBounded
    NothingLost
PROPERTIES
    ScreenSpec
    AllShown
CHECK_DEADLOCK FALSE
