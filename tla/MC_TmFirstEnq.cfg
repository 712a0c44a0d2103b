\* Two threads whose first enqueues overlap.
SPECIFICATION FairSpec
CONSTANTS
    Enqueuers = {e1, e2}
    Requesters = {r1}
    RingSize = 2
    MaxEnq = 1
    MaxReq = 1
PROPERTY CallsReturn
CHECK_DEADLOCK FALSE
