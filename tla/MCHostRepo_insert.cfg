\* The expiry race: two workers and two hosts, with a TTL of three seconds and
\* a half.
SPECIFICATION Spec
CONSTANTS
    w1 = w1
    w2 = w2
    h1 = h1
    h2 = h2
    Worker <- Workers
    Host <- Hosts
    Cluster = {k1}
    Expiration = 7
    UnitsPerSecond = 2
SYMMETRY Symmetry
INVARIANT InsertAndRead
