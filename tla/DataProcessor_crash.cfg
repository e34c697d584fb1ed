CONSTANTS
    NumWorkers = 1
    MaxItems = 1
    Free = Free
    Commands = {"shutdown", "start", "reset"}
    MaxCommands = 3
    Signals = {}
    Dataflow = "binary"
    MaxLines = 1
    DataSocket = "pubsub"
SPECIFICATION SafeSpec
INVARIANTS NoThreadDies
CHECK_DEADLOCK FALSE
