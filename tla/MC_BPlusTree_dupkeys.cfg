CONSTANTS
    Keys <- MCKeys
    Rids <- MCRids
    UniqueChoices = {FALSE}
    Null = Null
    Null = Null
    MaxKeys = 2
SPECIFICATION Spec
PROPERTIES
    ImplementsIndexMap
