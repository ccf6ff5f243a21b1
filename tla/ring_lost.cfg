SPECIFICATION Spec
CONSTANTS
    None = None
    Cameras = {d1}
    Gige = {}
    Buffers = 2
    Faults <- ConvertFaults
INVARIANT RingKept
CHECK_DEADLOCK FALSE
