CONSTANTS
    c1 = c1
    c2 = c2
    Candidates = {c1, c2}
    TaskOf <- OwnTask
    MaxRounds = 2
    MaxRequests = 3
    MaxWaiting = 1
    MaxClicks = 1
    MaxForeign = 1
    MaxCrashes = 1
SPECIFICATION Spec
SYMMETRY Symmetric
INVARIANTS TypeOK PushedIsValidated MergedIsReviewed InFlightIsDriven
CHECK_DEADLOCK FALSE
