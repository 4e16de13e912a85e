CONSTANTS
    Keys <- MCKeys
    Rids <- MCRids
    UniqueChoices = {FALSE, TRUE}
    Null = Null
    MaxKeys = 2
SPECIFICATION Spec
INVARIANTS
    TypeOK
    WellFormed
    LeafChainConsistent
    ParentLinksConsistent
    SearchAgreesWithContents
    ScanRangeAgreesWithContents
VIEW tree
PROPERTIES
    ImplementsKeyRidMap
