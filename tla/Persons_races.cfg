SPECIFICATION Spec
CONSTANTS
    d1 = d1
    d2 = d2
    MaxEnrolments = 2
    Badge <- MCBadge
    Deleters = {d1, d2}
    MaxFaces = 1
    MaxStarts = 1
    DiskFaults = TRUE
SYMMETRY DeleterSymmetry
CHECK_DEADLOCK FALSE
INVARIANTS
    IndexAgrees
    FilesFollowRows
    LabelsTrue
PROPERTY
    KeepsGallery
