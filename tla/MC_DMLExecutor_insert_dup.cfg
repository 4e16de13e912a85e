CONSTANTS
    Null = Null
    Int64Literal = Int64Literal
    TypeError = TypeError
    Vals = {1, 2}
    BVals = {1}
    Indexes <- IndexOnA
    Preds <- MCPreds
    Orders <- MCOrders
    MaxInsertRows = 1
    PageCapacity = 30
    SlotSize = 4
    MaxPages = 3
VIEW Canonical
INIT Init
NEXT NextWithoutTruncate
INVARIANT IndexComplete
