\* IPsec, crypto, timers and initialization with two threads of each kind.
SPECIFICATION Spec
CONSTANTS
    Ctls = {c1, c2}
    Workers = {w1, w2}
    t1 = t1 t2 = t2 e1 = e1 e2 = e2 q1 = q1 q2 = q2 None = None
SYMMETRY Symmetry
INVARIANTS
    SaLifecycle LookupComplete NoReplay   OwnResult
    EventInOnePlace TickingIsPending AsLastSet 
CHECK_DEADLOCK FALSE
