CONSTANTS
    MaxPackets = 2
    Null = Null
SPECIFICATION Spec
INVARIANT PutSucceeds
CHECK_DEADLOCK FALSE
