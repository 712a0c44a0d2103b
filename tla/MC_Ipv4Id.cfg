\* 16 identifiers in blocks of 2.
SPECIFICATION Spec
CONSTANTS
    Threads = {t1, t2}
    MaxId = 15
    BlockSize = 2
INVARIANT BlocksDisjoint
CHECK_DEADLOCK FALSE
