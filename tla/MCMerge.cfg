CONSTANTS
    MaxCells = 12
    Words = {"a", "b"}
    MaxLines = 3
SPECIFICATION Spec
INVARIANTS SidesAgree EditsAdd
CHECK_DEADLOCK FALSE
