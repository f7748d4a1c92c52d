\* Two requests at a time.
CONSTANTS
    None = None
    Request = {r1, r2}
    Hardware = {h1, h2}
    Code = {c1, c2}
    MaxDevices = 3
SPECIFICATION Spec
CHECK_DEADLOCK FALSE
INVARIANTS
    TypeOK
    OneTillPerDevice
    RevokedStaysRevoked
    OneDevicePerTill
