CONSTANTS
    NumWorkers = 2
    MaxItems = 4
    Free = Free
SPECIFICATION Spec
INVARIANTS TypeOK RoundRobin AtMostOneOvertake DisorderBelowOneTurn
PROPERTIES OnlyCleaningStarves ReadersTakeTurns WritersTakeTurns EverythingIsRead
