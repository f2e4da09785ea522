SPECIFICATION Spec
CONSTANTS
    MaxFaces = 2
    MinHits = 2
    MaxLost = 4
    Overlaps = {0, 2, 3}
    MatchIou = 3
    Interval = 2
    MaxTracks = 2
    MaxClock = 3
CHECK_DEADLOCK FALSE
INVARIANTS
    TypeOK
    KeepsIdentity
    OneTrackPerFace
    TimerMeansShot
PROPERTY
    Spaced
