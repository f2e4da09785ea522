SPECIFICATION Spec
CONSTANTS
    Cameras = {1}
    Polygons = {"left", "right"}
    Editors = {"e1", "e2"}
    Default = "off"
    Legacy = "right"
INVARIANTS
    SurvivesRestart
    VerdictFair
