CONSTANTS
    Clients = {c1, c2, c3}
    Items = {a, b}
    Calls = {"get", "front", "pop"}
    MaxLen = 2
    Idle = Idle
    Nothing = Nothing
    Thrown = Thrown
SPECIFICATION Spec
INVARIANTS TypeOK
PROPERTIES StopReleasesEveryone ImplementsQueueSafely
