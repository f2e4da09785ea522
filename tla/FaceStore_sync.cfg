SPECIFICATION Spec
CONSTANTS
    h1 = h1
    h2 = h2
    MaxCaptures = 2
    Cameras = {1}
    CameraOf <- OneCamera
    Framed = {1}
    Similar <- EveryPair
    Windows <- NewestOnly
    Handlers = {h1}
    Requests = {"face", "window", "all"}
    MaxStarts = 0
    DiskFaults = FALSE
INVARIANT
    AlwaysInSync
