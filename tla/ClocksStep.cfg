\* The showing thread in step mode.
CONSTANTS
    NaN = NaN
    PtsValues = {0, 20, NaN}
    Delays = {0, 1, 3}
    Speeds = {1, 2}
    FrameTimers = {0, 2, 6}
    SyncMax = 2
    StartTime = 3
    MaxTime = 9
SPECIFICATION Spec
PROPERTIES
    StepStops
