SPECIFICATION Spec
CONSTANTS
    None = None
    Cameras = {g1}
    Gige = {g1}
    Buffers = 2
    Faults <- NoFaults
INVARIANT StopStopsTransfer
CHECK_DEADLOCK FALSE
