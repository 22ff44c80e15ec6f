SPECIFICATION Spec
CONSTANTS
    t1 = t1
    t2 = t2
    None = None
    Threads <- TwoThreads
    Addresses = {a1, a2}
    Blocks = {b1, b2}
    Sizes = {2}
    Reporters = {t1}
PROPERTIES OperatorsReturn
CHECK_DEADLOCK FALSE
