SPECIFICATION LoadSpec
CONSTANTS
    INTEGER_BIT_SIZE = 2
    KeyNames = {}
    SetNames = {}
    AttrNames = {}
    Data = {}
    Layouts = {}
    maxKeyCount = 2
    maxSetSize = 2
    maxAttrSize = 3
    KeyBound = 2
    DB_MAX_STRING_LENGTH = 8
    Universes <- Files
INVARIANT LoadFaithful
INVARIANT PartialLoadTrue
INVARIANT LoadStaysInBounds
CHECK_DEADLOCK FALSE
