\* One pod that may be signalled while it reports an error.
SPECIFICATION Spec
CONSTANTS
    c1 = c1
    c2 = c2
    p1 = p1
    p2 = p2
    NoPod = NoPod
    Pod = {c1}
    Partition = {p1}
    LogEnd <- TwoMessages
    Malformed <- SecondMalformed
    MaxDisruptions = 2
PROPERTIES
    NoMarkAfterCancel
