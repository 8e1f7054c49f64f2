SPECIFICATION Spec
CONSTANTS
    Calls = {"c1", "c2"}
    Verdicts <- MCVerdicts
    Loggers = {"l1", "l2"}
    Owner <- MCOwner
    Legacies <- NoLegacy
    NonAscii = {}
    Unrounded = {}
    MaxTime = 1
    MaxCrashes = 0
INVARIANT TrailVerifies
CHECK_DEADLOCK FALSE
