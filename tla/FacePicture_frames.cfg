SPECIFICATION Spec
CONSTANTS
    Strides = {2, 4}
    Anchors = 2
    Size = 8
    MinScore = 2
    NmsIou = 30
    MinFace = 2
    FrameSizes <- MCFrames
    Layouts <- MCLayouts
    Spots <- MCSpots
    Scores = {1, 2, 3}
    Reaches <- MCReaches
    MaxFired = 3
    Padding = 60
    Margin = 10
    Dark = 2
    Bright = 6
    Blur = 1
    MinQuality = 4500
    Lights = {2, 5, 7}
    Sharps = {0, 2}
CHECK_DEADLOCK FALSE
INVARIANTS
    DetectsRight
    CropHoldsFace
    WholeFaces
    GateFair
