SPECIFICATION AgeSpec
CONSTANTS
    None = None
    Cameras = {d1, d2}
    Gige = {}
    Dated = d1
    Buffers = 2
    Faults <- NoFaults
INVARIANTS
    RingKept
PROPERTIES
    FreshImages
CHECK_DEADLOCK FALSE
