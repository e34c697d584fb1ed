CONSTANTS
    NumWorkers = 2
    MaxItems = 1
    Free = Free
    Commands = {"start", "reset"}
    MaxCommands = 2
    Signals = {"SIGTERM"}
    Dataflow = "binary"
    MaxLines = 1
    DataSocket = "pushpull"
SPECIFICATION SafeSpec
INVARIANTS ShutdownJoinsWorkers
PROPERTIES OnlyLateDataSurvives
CHECK_DEADLOCK FALSE
