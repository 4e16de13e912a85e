CONSTANTS
    Null = Null
    Int64Literal = Int64Literal
    TypeError = TypeError
    Vals = {1, 2}
    BVals = {1}
    Indexes <- NoIndexes
    Preds <- HeapPreds
    Orders <- MCOrders
    MaxInsertRows = 1
    PageCapacity = 38
    SlotSize = 4
    MaxPages = 2
VIEW Canonical
INIT HInit
NEXT HNext
INVARIANT PagesAccounted
PROPERTY ImplementsTableContents
