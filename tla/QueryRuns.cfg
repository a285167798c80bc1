SPECIFICATION QuerySpec
CONSTANTS
    INTEGER_BIT_SIZE = 3
    KeyNames = {1, 2, 3}
    SetNames = {1, 2}
    AttrNames = {1, 2, 3}
    Data = {}
    Layouts = {}
    maxKeyCount = 3
    maxSetSize = 2
    maxAttrSize = 3
    KeyBound = 3
    Texts <- MessagesAsked
    Open = Open
    Close = Close
    Comma = Comma
    Semicolon = Semicolon
    SelectWord = SelectWord
    FromWord = FromWord
    ComplementWord = ComplementWord
    UnionWord = UnionWord
    IntersectionWord = IntersectionWord
    DifferenceWord = DifferenceWord
INVARIANT ParseExact
INVARIANT QueryExact
INVARIANT QuerySafe
CHECK_DEADLOCK FALSE
