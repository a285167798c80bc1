SPECIFICATION Spec
CONSTANTS
    INTEGER_BIT_SIZE = 4
    KeyNames = {0, 1, 2, 3, 4, 5, 6}
    SetNames = {0, 1, 2}
    AttrNames = {}
    Data <- StoreData
    Layouts <- StoreLayouts
    maxKeyCount = 4
    maxSetSize = 1
    maxAttrSize = 1
    KeyBound = 6
INVARIANT TypeOK
INVARIANT IndexesDistinct
CHECK_DEADLOCK FALSE
