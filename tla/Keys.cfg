SPECIFICATION Spec
CONSTANTS
    Procs = {p1, p2, p3}
    MaxPairs = 3
    MaxDeaths = 2
SYMMETRY Symmetry
INVARIANTS TypeOK EveryoneSharesOnePair
CHECK_DEADLOCK FALSE
