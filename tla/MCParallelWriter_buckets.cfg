\* The three outputs of openshift/processing.yaml, a message written twice.
SPECIFICATION FairSpec
CONSTANTS
    b1 = b1
    b2 = b2
    b3 = b3
    Bucket = {b1, b2, b3}
    MaxAttempts = 2
INVARIANTS
    TypeOK
    NilMeansEverywhere
    RootCause
    BucketsAgree
PROPERTIES
    CallEnds
\* No further attempt is made once the bound is reached.
CHECK_DEADLOCK FALSE
