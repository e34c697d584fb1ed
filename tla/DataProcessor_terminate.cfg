CONSTANTS
    NumWorkers = 1
    MaxItems = 1
    Free = Free
    Commands = {"start"}
    MaxCommands = 1
    Signals = {"SIGINT", "SIGTERM"}
    Dataflow = "binary"
    MaxLines = 1
    DataSocket = "pubsub"
SPECIFICATION Spec
PROPERTIES SignalTerminates
CHECK_DEADLOCK FALSE
