\* Four frames, with every choice of their pts, through a queue of three slots.
CONSTANTS
    Capacity = 3
    NumFrames = 4
    NaN = NaN
    PtsValues <- MCPts
    FrameDuration = 3
    MaxFrameDuration = 4
    SyncMax = 2
    StaleChoices <- MCStale
    TimerKinds = {"number", "NaN", "Inf"}
    MaxLag = 7
SPECIFICATION Spec
INVARIANTS
    TypeOK
    NeverAhead
    CallbackFrameKept
PROPERTIES
    OnlyStaleSkipped
    AllFramesLeave
    CurrentFramesShown
