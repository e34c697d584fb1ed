CONSTANTS
    NumWorkers = 1
    MaxItems = 2
    Free = Free
    Commands = {"shutdown", "cleanedshutdown", "reset", "start", "stop", "startprocessing", "stopprocessing", "startdata", "stopdata", "getstatus"}
    MaxCommands = 3
    Signals = {}
    Dataflow = "filename"
    MaxLines = 2
    DataSocket = "pubsub"
SPECIFICATION SafeSpec
INVARIANTS TypeOK StatusIsTrue OneLateMessageEach OneReadAfterStop
PROPERTIES OnlyLateDataSurvives
CHECK_DEADLOCK FALSE
