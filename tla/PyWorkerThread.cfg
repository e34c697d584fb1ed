CONSTANTS
    NumWorkers = 2
    MaxItems = 3
    Free = Free
SPECIFICATION PySpec
INVARIANTS PyTypeOK PyDisorderBelowOneTurn DeathStopsWithinOneTurn
PROPERTIES PyReadersTakeTurns PyWritersTakeTurns PyEverythingIsRead WorkersStop
CHECK_DEADLOCK FALSE
