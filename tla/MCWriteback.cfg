CONSTANTS
    Paths = {"A", "B", "C"}
    Records = {"r1", "r2"}
    Closable = {"r1"}
    Baseline <- MCBaseline
    ChangeSets <- MCChangeSets
    UserLines <- MCUserLines
    MaxCells = 16
    MaxEdits = 1
    MaxFaults = 1
SPECIFICATION Spec
INVARIANTS TypeOK ConflictLeavesNoTrace AppliedIsComplete InFlightIsDriven
PROPERTIES EditsAreKept DeletedWritesNothing
CHECK_DEADLOCK FALSE
