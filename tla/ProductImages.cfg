\* Two calls at a time on two products that compete for two SKUs.
CONSTANTS
    r1 = r1
    r2 = r2
    p1 = p1
    p2 = p2
    s1 = s1
    s2 = s2
    None = None
    Request = {r1, r2}
    Product = {p1, p2}
    Sku = {s1, s2}
    File <- MCFile
    Type <- MCType
    TypeOf <- MCTypeOf
SPECIFICATION Spec
CHECK_DEADLOCK FALSE
SYMMETRY MCSymmetry
INVARIANTS
    ShowsLatest
    NamedIsStored
    NoOrphans
