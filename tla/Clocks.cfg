\* No delay, one below the threshold and one beyond it, double speed, and room for
\* several pauses.
CONSTANTS
    NaN = NaN
    PtsValues = {0, 20, NaN}
    Delays = {0, 1, 3}
    Speeds = {1, 2}
    FrameTimers = {0, 2, 6}
    SyncMax = 2
    StartTime = 3
    MaxTime = 9
SPECIFICATION Spec
INVARIANTS
    TypeOK
    ClocksInv
PROPERTIES
    ExternalClockSpec
    ResumeKeepsPace
