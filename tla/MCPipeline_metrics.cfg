\* Three deliveries, each of any kind and with any outcome, whose context may
\* be cancelled at any point.
SPECIFICATION FairSpec
CONSTANTS
    MaxDeliveries = 3
    MaxAttempt = 0
INVARIANTS
    TypeOK
    DeliveriesAddUp
    MetricsAddUp
    RetryableNotReported
PROPERTIES
    CancelEndsDelivery
