SPECIFICATION Spec
CONSTANTS
    None = None
    Cameras = {d1, g1}
    Gige = {g1}
    Buffers = 1
    Faults <- TestedFaults
INVARIANTS
    TypeOK
    LockOwnership
    OneThreadPerStreamer
    EndsOnlyWhenJoined
    TopicOutlivesThread
    CameraOutlivesThread
    StreamingHasStreamer
    StartPath
    CloseNeverRelocks
    StreamingMeansTransfer
    LeftoverMarked
PROPERTY ImplementsService
CHECK_DEADLOCK FALSE
