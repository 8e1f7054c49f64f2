SPECIFICATION FairSpec
CONSTANTS
    Calls = {"c1", "c2", "c3"}
    Verdicts <- MCVerdicts
    Loggers = {"l1", "l2"}
    Owner <- MCOwner
    Legacies <- MCLegacies
    NonAscii = {"c3"}
    Unrounded = {"precise"}
    MaxTime = 2
    MaxCrashes = 1
INVARIANTS TypeOK LinksBackward QuietTrailVerifies
PROPERTIES RecordedRowsAreImmutable MigrationCompletes
CHECK_DEADLOCK FALSE
