\* A sale with two lines for one product.
CONSTANTS
    m1 = m1
    m2 = m2
    m3 = m3
    None = None
    Message = {m1, m2}
    Batch <- RepeatedLineBatch
    Sale = {"twice", "b"}
    Uuid <- MCUuid
    Device <- MCDevice
    Line <- MCLine
    UuidOf <- MCUuidOf
    DeviceOf <- MCDeviceOf
    LinesOf <- MCLinesOf
    Sound <- MCSound
    Product <- MCProduct
    Catalog <- MCCatalog
    KnownDevice <- MCKnownDevice
    InitialStock <- MCStock
    SystemUser = {TRUE}
    Faults = {}
    MaxCrashes = 0
SPECIFICATION Spec
INVARIANT NoOversell
