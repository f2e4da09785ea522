SPECIFICATION FairSpec
CONSTANTS
    h1 = h1
    h2 = h2
    MaxCaptures = 2
    Cameras = {1}
    CameraOf <- OneCamera
    Framed = {1}
    Similar <- EveryPair
    Windows <- NewestOnly
    Handlers = {h1}
    Requests = {"face", "all", "camera"}
    MaxStarts = 1
    DiskFaults = TRUE
INVARIANTS
    RowHasFiles
    CleanIsSaved
    NoOrphanFiles
PROPERTIES
    KeepsGallery
    EveryoneFinishes
