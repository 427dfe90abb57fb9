\* Two pods compete for one partition of two messages.
SPECIFICATION Spec
CONSTANTS
    c1 = c1
    c2 = c2
    p1 = p1
    p2 = p2
    NoPod = NoPod
    Pod <- TwoPods
    Partition = {p1}
    LogEnd <- TwoMessages
    Malformed <- SecondMalformed
    MaxDisruptions = 3
SYMMETRY PodSymmetry
INVARIANTS
    TypeOK
    CommittedHandled
    CommittedNotRedelivered
    SessionInv
PROPERTIES
    ContractSpec
