\* Two requests for one uuid, broken connections, timeouts, refusals,
\* lost failure rows, a crash, a start without the broker.
CONSTANTS
    r1 = r1
    r2 = r2
    None = None
    Request = {r1, r2}
    Sale <- MCSale
    Batch <- RepeatedBatch
    UuidOf <- MCUuidOf
    HashOf <- MCHashOf
    MaxRetries = 1
    Faults = {"publish timeout", "disconnect", "refusal",
              "failure write", "degraded start"}
    MaxMessages = 2
    MaxCrashes = 1
SPECIFICATION FairSpec
INVARIANTS
    AcceptedNotLost
PROPERTIES
    AcceptedIsTraced
    StatusHolds
