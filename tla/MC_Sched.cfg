\* The schedulers with two threads.
SPECIFICATION Spec
CONSTANTS
    q1 = q1 q2 = q2
    Threads = {t1, t2}
    NoQueue = NoQueue
SYMMETRY Symmetry
INVARIANTS
    OneToken TokenFindable OrderKept OrderLockInOrder
    FreshTable  AutoGroups OneCommand
CHECK_DEADLOCK FALSE
