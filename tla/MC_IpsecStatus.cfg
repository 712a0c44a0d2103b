SPECIFICATION FairSpec
CONSTANTS
    NumSa = 1
    Ctls = {c1}
    Workers = {w1}
    Params <- OneSa
    Pkts <- OnePkt
    Modes = {FALSE}
    MaxCreate = 1
PROPERTY StatusEventComes
CHECK_DEADLOCK FALSE
