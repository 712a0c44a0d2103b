\* A ring of two slots whose counters wrap, with single items.
SPECIFICATION LiveSpec
CONSTANTS
    Threads = {t1, t2}
    Data = {a}
    Size = 2
    CounterMod = 8
    Start = 6
    MaxBurst = 1
    MaxEnq = 2
    q1 = q1 q2 = q2 timer = timer event = event node1 = node1 root = root
    c1 = c1 c2 = c2 w1 = w1
    NoQueue = NoQueue
PROPERTIES WaitsEnd AllServed CancelEnds DisableEnds 
CHECK_DEADLOCK FALSE
