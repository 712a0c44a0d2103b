\* A group created with the default levels.
SPECIFICATION Spec
CONSTANTS
    NumThreads = 1
    NumGroups = 6
    NumSpread = 2
    NumPrio = 2
    Configs <- OneConfig
    Params <- AnyParams
    Queues = {}
    Calls = {"create", "destroy"}
    q1 = q1 q2 = q2
    MaxEpoch = 8
INVARIANT GlobalRange
CHECK_DEADLOCK FALSE
