SPECIFICATION FairSpec
CONSTANTS
    None = None
    Cameras = {d1}
    Gige = {}
    Buffers = 2
    Faults <- NoFaults
PROPERTIES
    StopReturns
CHECK_DEADLOCK FALSE
