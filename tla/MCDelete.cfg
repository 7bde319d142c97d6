CONSTANTS
    i1 = i1
    i2 = i2
    i3 = i3
    a = a
    b = b
    NoInv = NoInv
    NoOp = NoOp
    Invs = {i1}
    Bases = {a}
    BaseOf <- OneOp
    Restricted = {}
    Local = {i1}
    Internal = {}
    Corrected = {}
    MaxAttempts = 2
    MaxGeneration = 3
    MaxRestarts = 1
    MaxSyncAttempts = 1
    MaxFailures = 0
    Controls = {"archive", "delete"}
SPECIFICATION Spec
INVARIANTS DeletedIsStopped
PROPERTIES ImplementsAdmission
CHECK_DEADLOCK FALSE
