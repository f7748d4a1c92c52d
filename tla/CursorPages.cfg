\* A client reads GET /transactions or GET /products to the end.
CONSTANTS
    NoCursor = NoCursor
    Limit = {1, 2}
    ByNextCursor = {"transactions", "products"}
    ByLastItem = {"transactions", "products"}
    MaxRows = 5
    MaxPages = 3
SPECIFICATION PagesSpec
CHECK_DEADLOCK FALSE
INVARIANTS
    NoneSkipped
    NoneTwice
