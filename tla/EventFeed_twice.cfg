SPECIFICATION Spec
CONSTANTS
    MaxSockets = 3
    Clients = {1, 2, 3}
    Publishers = {"storage"}
    QueueSize = 1
    MaxEvents = 1
    Listeners = {"page"}
CHECK_DEADLOCK FALSE
INVARIANT
    NeverTwice
