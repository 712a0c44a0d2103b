SPECIFICATION FairSpec
CONSTANTS
    q1 = q1 q2 = q2
    Threads = {t1, t2}
    Queues = {q1}
    NoQueue = NoQueue
    NumPrio = 1
    NumSpread = 1
    SpreadThrs <- OneSpread
    LoadBalance = FALSE
    Params <- SharedParams
    Boot <- SharedBoot
    QueueSize = 2
    BurstDefault = 1
    BurstMax = 1
    MaxNum = 1
    OrderStashSize = 1
    MaxEvents = 1
    Calls = {"pktio_start", "pktio_stop"}
PROPERTY EventsScheduled
