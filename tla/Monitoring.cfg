CONSTANTS
    NumWorkers = 1
    HighWater = 1
    MaxEvents = 2
    MaxChanges = 1
SPECIFICATION Spec
INVARIANTS TypeOK TotalsAreExact StoppedIsQuiet TerminatedIsFinal
PROPERTIES StopEnds ReportsCatchUp
CHECK_DEADLOCK FALSE
