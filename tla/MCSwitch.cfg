CONSTANTS
    i1 = i1
    i2 = i2
    a = a
    k1 = k1
    k2 = k2
    NoInv = NoInv
    NoOp = NoOp
    NoKey = NoKey
    Invs = {i1}
    Bases = {a}
    BaseOf <- OneOp
    Restricted = {}
    Local = {}
    Internal = {}
    Corrected = {}
    MaxAttempts = 1
    MaxGeneration = 2
    MaxRestarts = 1
    MaxSyncAttempts = 1
    MaxFailures = 0
    Controls = {"pause", "switch"}
    Keys = {k1}
    Resumes = {k1}
SPECIFICATION SwitchSpec
INVARIANTS ResumedOnce GenerationFence
PROPERTIES AppliedIsStopped
CHECK_DEADLOCK FALSE
