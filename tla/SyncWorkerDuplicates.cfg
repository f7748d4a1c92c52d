\* One sale published twice and two that compete with it, one process crash.
CONSTANTS
    m1 = m1
    m2 = m2
    m3 = m3
    None = None
    Message = {m1, m2, m3}
    Batch <- DuplicateBatch
    Sale = {"ab", "b", "other"}
    Uuid <- MCUuid
    Device <- MCDevice
    Line <- MCLine
    UuidOf <- MCUuidOf
    DeviceOf <- MCDeviceOf
    LinesOf <- MCLinesOf
    Sound <- MCSound
    Product <- MCProduct
    Catalog <- MCCatalog
    KnownDevice <- MCKnownDevice
    InitialStock <- MCStock
    SystemUser = {TRUE}
    Faults = {}
    MaxCrashes = 1
SPECIFICATION Spec
INVARIANTS
    Inductive
    OneRowPerUuid
    AckedMeansRecorded
    RejectedForCause
PROPERTY ImplementsSaleLedger
