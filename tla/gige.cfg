SPECIFICATION FairSpec
CONSTANTS
    None = None
    Cameras = {g1}
    Gige = {g1}
    Buffers = 2
    Faults <- AllFaults
PROPERTIES
    CallsReturn
    SilenceMarked
