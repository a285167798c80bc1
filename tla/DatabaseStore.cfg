SPECIFICATION Spec
CONSTANTS
    INTEGER_BIT_SIZE = 2
    KeyNames = {1, 2, 3}
    SetNames = {1, 2}
    AttrNames = {1, 2}
    Data <- StoreData
    Layouts <- StoreLayouts
    maxKeyCount = 2
    maxSetSize = 2
    maxAttrSize = 2
    KeyBound = 3
INVARIANT OnlyKeysStored
PROPERTY ImplementsSetStore
CHECK_DEADLOCK FALSE
