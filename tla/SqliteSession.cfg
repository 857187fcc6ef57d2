SPECIFICATION Spec
CONSTANTS
    MaxWaiting = 1
    MaxAppends = 3
    MaxForks = 1
    MaxCrashes = 1
INVARIANT ReadsMatchTree
PROPERTY HistoryKept
CHECK_DEADLOCK FALSE
