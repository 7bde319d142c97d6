CONSTANTS
    i1 = i1
    i2 = i2
    i3 = i3
    a = a
    b = b
    NoInv = NoInv
    NoOp = NoOp
    Invs = {i1, i2}
    Bases = {a}
    BaseOf <- OneOp
    Restricted = {}
    Local = {i1}
    Internal = {}
    Corrected = {i1}
    MaxAttempts = 2
    MaxGeneration = 1
    MaxRestarts = 0
    MaxSyncAttempts = 1
    MaxFailures = 0
    Controls = {"pause"}
SPECIFICATION Spec
INVARIANTS TypeOK
PROPERTIES StopEvidenceKept ReopenIsSafe PausedNeedsResume
