\* Two workers write the two hosts of a cluster; the TTL is three seconds and a
\* half.
SPECIFICATION Spec
CONSTANTS
    w1 = w1
    w2 = w2
    h1 = h1
    h2 = h2
    Worker <- Workers
    Host <- Hosts
    Cluster = {k1}
    Expiration = 7
    UnitsPerSecond = 2
SYMMETRY Symmetry
INVARIANTS
    TypeOK
    LostOnlyByExpiryRace
    TtlCoversWrites
    NoForgottenKey
PROPERTY StoreSpec
