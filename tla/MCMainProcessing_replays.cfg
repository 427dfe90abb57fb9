\* Two consumers, one takeover: a host updated between two cluster states, one
\* rejected with its hosts, and all kinds of messages.
SPECIFICATION Spec
CONSTANTS
    c1 = c1
    c2 = c2
    b1 = b1
    b2 = b2
    k1 = k1
    h1 = h1
    h2 = h2
    Nothing = Nothing
    Consumer <- TwoConsumers
    Bucket <- TwoBuckets
    Cluster = {k1}
    Host <- TwoHosts
    Logs <- AllLogs
    MaxTakeovers = 1
SYMMETRY Symmetry
INVARIANTS
    TypeOK
    CommittedProjected
    StoreKeepsLatest
    HostsIncluded
    DivergenceTraced
PROPERTY StoreSpec
