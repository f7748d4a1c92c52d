\* The transactions by the last item of each page, as documented, and the
\* products by next_cursor, as returned.
CONSTANTS
    NoCursor = NoCursor
    Limit = {1, 2}
    ByNextCursor = {"products"}
    ByLastItem = {"transactions"}
    MaxRows = 5
    MaxPages = 3
SPECIFICATION PagesSpec
CHECK_DEADLOCK FALSE
INVARIANTS
    EachRowOnce
