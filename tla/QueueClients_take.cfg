CONSTANTS
    Clients = {c1, c2, c3}
    Items = {a, b}
    Calls = {"get", "pop"}
    MaxLen = 3
    Idle = Idle
    Nothing = Nothing
    Thrown = Thrown
SPECIFICATION Spec
INVARIANTS NoLostWakeup
PROPERTIES NoStranding ImplementsBlockingQueue
