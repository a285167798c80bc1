SPECIFICATION Spec
CONSTANTS
    INTEGER_BIT_SIZE = 2
    KeyNames = {1, 2}
    SetNames = {1}
    AttrNames = {1}
    Data <- StoreData
    Layouts <- TypeLayouts
    maxKeyCount = 2
    maxSetSize = 1
    maxAttrSize = 1
    KeyBound = 2
INVARIANT TextsTerminated
CHECK_DEADLOCK FALSE
