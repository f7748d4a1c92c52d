\* Crossed and refused sales, with every fault.
CONSTANTS
    m1 = m1
    m2 = m2
    m3 = m3
    None = None
    Message = {m1, m2}
    Batch <- FaultyBatch
    Sale = {"ab", "ba", "bad", "lost", "ghost"}
    Uuid <- MCUuid
    Device <- MCDevice
    Line <- MCLine
    UuidOf <- MCUuidOf
    DeviceOf <- MCDeviceOf
    LinesOf <- MCLinesOf
    Sound <- MCSound
    Product <- MCProduct
    Catalog <- MCCatalog
    KnownDevice <- MCKnownDevice
    InitialStock <- MCStock
    SystemUser = {TRUE, FALSE}
    Faults = {"timeout", "failure write"}
    MaxCrashes = 1
SPECIFICATION FairSpec
INVARIANTS
    NoOversell
    StockMatchesLedger
PROPERTY EveryMessageAcked
