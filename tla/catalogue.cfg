SPECIFICATION FairSpec
CONSTANTS
    None = None
    picture = picture
    video = video
    webcam = webcam
    Names <- MCNames
    Images <- MCImages
    Videos <- MCVideos
    Webcam <- webcam
    Dc1394 <- MCDc1394
    Gige <- MCGige
INVARIANTS
    TypeOK
    StopFindsMedium
    MarkedWhileStreamed
PROPERTIES
    FilesDeliver
    ImplementsService
