SPECIFICATION Spec
CONSTANTS
    MaxSockets = 2
    Clients = {1, 2}
    Publishers = {"storage"}
    QueueSize = 1
    MaxEvents = 3
    Listeners = {"page"}
CHECK_DEADLOCK FALSE
INVARIANTS
    TypeOK
    InSequence
    Complete
    KeepsListening
    HandledOnce
