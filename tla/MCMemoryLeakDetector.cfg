SPECIFICATION SafetySpec
CONSTANTS
    t1 = t1
    t2 = t2
    None = None
    Threads <- TwoThreads
    Addresses = {a1, a2, a3}
    Blocks = {b1, b2, b3}
    Sizes = {0, 2}
    Reporters = {t1}
SYMMETRY Symmetry
INVARIANTS WellLinked ReportIsExact
CHECK_DEADLOCK FALSE
