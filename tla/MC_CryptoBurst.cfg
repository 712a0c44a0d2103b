SPECIFICATION Spec
CONSTANTS
    Threads = {0, 1}
    Devices = {1, 2}
    NumQpairs = 1
    OpPool = 5
    Confs <- Shared
    Bursts <- TwoAndOne
    MaxCalls = 2
INVARIANT OwnResult
CHECK_DEADLOCK FALSE
