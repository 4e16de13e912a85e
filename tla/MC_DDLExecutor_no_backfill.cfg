CONSTANTS
    Null = Null
    T = T
    U = U
    A = A
    B = B
    C = C
    TableNames = {T}
    ColNames = {A, B}
    IndexNames = {1}
    PkName <- MCPkName
    TableDefs <- PlainTableDefs
    AddDefs <- MCAddDefs
    Vals = {1}
    UniqueChoices = {FALSE}
    MaxColumns = 2
    MaxTableId = 2
    MaxIndexId = 2
    MaxSchemaVersion = 3
    AllowImplicitNullFill = TRUE
    PageCapacity = 21
    SlotSize = 4
    MaxPages = 3
VIEW StateView
INIT Init
NEXT Next
INVARIANTS
    IndexCoversRows
