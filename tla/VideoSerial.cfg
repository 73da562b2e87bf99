\* The second slot holds another serial, as the decode thread may leave it.
CONSTANTS
    Capacity = 3
    NumFrames = 2
    NaN = NaN
    PtsValues <- MCPts
    FrameDuration = 3
    MaxFrameDuration = 4
    SyncMax = 2
    StaleChoices <- MCOneStale
    TimerKinds = {"number"}
    MaxLag = 7
SPECIFICATION Spec
PROPERTIES
    AllFramesShown
