CONSTANTS
    Kinds <- GatedTwice
    MaxRevisionAttempts = 1
    MaxReworks = 1
    MaxNodeRuns = 5
SPECIFICATION Spec
INVARIANTS TypeOK OneRunningNode WorkIsApproved ParkedIsQuiet RunningIsDriven
PROPERTIES HistoryIsKept
CHECK_DEADLOCK FALSE
