\* Weak fairness of all threads; two threads pass the barrier three times.
SPECIFICATION LiveSpec
CONSTANTS
    Threads = {t1, t2}
    MaxRounds = 3
    q1 = q1 q2 = q2
    NoQueue = NoQueue
INVARIANT NobodyEarly
PROPERTIES
    RoundEnds EventsScheduled OrderWaitEnds DestroyedIsFreed MemberServed
CHECK_DEADLOCK FALSE
