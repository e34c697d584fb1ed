CONSTANTS
    NumWorkers = 1
    MaxItems = 1
    Free = Free
    Commands = {"reset", "start"}
    MaxCommands = 2
    Signals = {}
    Dataflow = "binary"
    MaxLines = 1
    DataSocket = "pubsub"
SPECIFICATION Spec
PROPERTIES CleaningEnds
CHECK_DEADLOCK FALSE
