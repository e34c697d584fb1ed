CONSTANTS
    NumWorkers = 1
    MaxItems = 2
    Free = Free
    Commands = {"cleanedshutdown", "reset", "start"}
    MaxCommands = 4
    Signals = {}
    Dataflow = "binary"
    MaxLines = 1
    DataSocket = "pubsub"
SPECIFICATION Spec
VIEW WithoutHistory
PROPERTIES ShutdownEnds DrainingEnds
CHECK_DEADLOCK FALSE
