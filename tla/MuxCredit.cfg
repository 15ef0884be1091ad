SPECIFICATION Spec
CONSTANTS
    Window = 5
    MaxFrame = 3
CHECK_DEADLOCK FALSE
INVARIANTS
    Conservation NoViolation
