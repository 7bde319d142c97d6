CONSTANTS
    i1 = i1
    i2 = i2
    a = a
    k1 = k1
    k2 = k2
    NoInv = NoInv
    NoOp = NoOp
    NoKey = NoKey
    Invs = {}
    Bases = {a}
    BaseOf <- OneOp
    Restricted = {}
    Local = {}
    Internal = {}
    Corrected = {}
    MaxAttempts = 1
    MaxGeneration = 2
    MaxRestarts = 0
    MaxSyncAttempts = 1
    MaxFailures = 0
    Controls = {"pause", "switch"}
    Keys = {k1, k2}
    Resumes = {}
SPECIFICATION FairSwitchSpec
PROPERTIES SwitchIsTakenUp
CHECK_DEADLOCK FALSE
