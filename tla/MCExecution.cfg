CONSTANTS
    r1 = r1
    r2 = r2
    r3 = r3
    c1 = c1
    c2 = c2
    NoRun = NoRun
    RunsOf <- ModeRuns
    CallsOf <- ModeCalls
    BullMq = {"queue"}
    Workspace = {"applying"}
    MaxReworks = 1
    MaxTries = 2
    MaxGeneration = 3
SPECIFICATION Spec
SYMMETRY Symmetric
INVARIANTS TypeOK OnePipeline 
PROPERTIES StaleIsSilent
CHECK_DEADLOCK FALSE
