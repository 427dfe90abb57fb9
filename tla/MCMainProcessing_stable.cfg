\* The same cluster state is pushed again.
SPECIFICATION Spec
CONSTANTS
    c1 = c1
    c2 = c2
    b1 = b1
    b2 = b2
    k1 = k1
    h1 = h1
    h2 = h2
    Nothing = Nothing
    Consumer <- TwoConsumers
    Bucket <- TwoBuckets
    Cluster = {k1}
    Host <- TwoHosts
    Logs <- PushedAgainOnly
    MaxTakeovers = 0
PROPERTIES
    StableContent
