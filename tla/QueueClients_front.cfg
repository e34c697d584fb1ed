CONSTANTS
    Clients = {c1, c2}
    Items = {a}
    Calls = {"get", "front"}
    MaxLen = 2
    Idle = Idle
    Nothing = Nothing
    Thrown = Thrown
SPECIFICATION SafeSpec
INVARIANTS NobodySleepsOnAnItem
