\* Two crossed sales, a correction, a resolution and an adjustment at once.
CONSTANTS
    None = None
    Job <- MCJob
    Kind <- MCKind
    Old <- MCOld
    New <- MCNew
    Product <- MCProduct
    InitialStock <- MCStock
SPECIFICATION Spec
INVARIANT SingleLineNeverFails
PROPERTIES
    ImplementsStockBook
    EveryJobEnds
