SPECIFICATION FairSpec
CONSTANTS
    Backends = {"cpu", "npu", "hailo"}
    Editors = {"e1", "e2"}
    Absent = Absent
    Torn = Torn
    Nobody = Nobody
    Defaults = {"cpu", "npu", "hailo", "gpu"}
    MaxCrashes = 1
INVARIANTS
    RestartPromise
    RunsAsShown
PROPERTIES
    ConfirmedApplies
    EngineStarts
