SPECIFICATION Spec
CONSTANTS
    FrameSize = 3
    TrailerSize = 2
    BufSize = 2
    Lengths = {0, 1, 11}
    MaxFaults = 1
    Legacy = 3
INVARIANT PinHonoured
CHECK_DEADLOCK FALSE
