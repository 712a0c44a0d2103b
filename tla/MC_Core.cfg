\* Rings, lock-free queue, and traffic manager with its timer wheel.
SPECIFICATION CoreSpec
CONSTANTS
    Threads = {u1, u2}
    Data = {a, b}
    Tokens = {x1, x2, x3}
    Size = 2
    CounterMod = 16
    MaxBurst = 2
    Start = 14
    MaxEnq = 3
    Others = {o1, o2}
    q1 = q1 q2 = q2 q3 = q3
    node1 = node1 node2 = node2 root = root None = None
SYMMETRY Symmetry
INVARIANTS
    TypesOK NoSlotConflict 
     TreeExact  Punctual RequestExclusive LfFifo
PROPERTIES ZeroIsJustified RefinesFifo
CHECK_DEADLOCK FALSE
