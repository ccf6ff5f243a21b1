SPECIFICATION Spec
CONSTANTS
    None = None
    Cameras = {g1}
    Gige = {g1}
    Buffers = 2
    Faults <- NoFaults
INVARIANT FeatureKeepsTransfer
CHECK_DEADLOCK FALSE
