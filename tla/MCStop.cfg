CONSTANTS
    i1 = i1
    i2 = i2
    i3 = i3
    a = a
    b = b
    NoInv = NoInv
    NoOp = NoOp
    Invs = {i1, i2}
    Bases = {a, b}
    BaseOf <- TwoOps
    Restricted = {}
    Local = {i1, i2}
    Internal = {}
    Corrected = {}
    MaxAttempts = 1
    MaxGeneration = 1
    MaxRestarts = 0
    MaxSyncAttempts = 1
    MaxFailures = 0
    Controls = {"disconnect"}
SPECIFICATION FairSpec
PROPERTIES ArmedIsReleased StopIsConfirmed
CHECK_DEADLOCK FALSE
