CONSTANTS
    i1 = i1
    i2 = i2
    i3 = i3
    a = a
    b = b
    NoInv = NoInv
    NoOp = NoOp
    Invs = {i1, i2}
    Bases = {a, b}
    BaseOf <- TwoOps
    Restricted = {b}
    Local = {i1}
    Internal = {i2}
    Corrected = {}
    MaxAttempts = 1
    MaxGeneration = 1
    MaxRestarts = 1
    MaxSyncAttempts = 1
    MaxFailures = 1
    Controls = {"disconnect"}
SPECIFICATION Spec
INVARIANTS LiveIsReserved ConfirmedTargetsEnded OpenStopCoversActive
CHECK_DEADLOCK FALSE
