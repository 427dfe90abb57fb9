\* Two pods share two partitions, one message each, under fair
\* scheduling.
SPECIFICATION FairSpec
CONSTANTS
    c1 = c1
    c2 = c2
    p1 = p1
    p2 = p2
    NoPod = NoPod
    Pod <- TwoPods
    Partition = {p1, p2}
    LogEnd <- OneMessage
    Malformed <- FirstMalformed
    MaxDisruptions = 1
PROPERTIES
    EventuallyCommitted
    SignalStopsPod
