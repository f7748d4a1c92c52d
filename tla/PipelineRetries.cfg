\* A batch that lands in the DLQ as often as it can, unconfirmed retries, lost
\* failure rows, a crash.
CONSTANTS
    r1 = r1
    r2 = r2
    None = None
    Request = {r1}
    Sale <- MCSale
    Batch <- PairBatch
    UuidOf <- MCUuidOf
    HashOf <- MCHashOf
    MaxRetries = 1
    Faults = {"dead letter", "retry timeout", "failure write"}
    MaxMessages = 0
    MaxCrashes = 1
SPECIFICATION FairSpec
INVARIANTS
    TypeOK
    AcceptedNotLost
PROPERTIES
    QueuesDrain
