SPECIFICATION Spec
CONSTANTS
    Animal = Animal  Bird = Bird  Fish = Fish
    a = a  b = b  Words = {a, b, 7, 8}  Numbers = {7, 8}
    Open = Open  Close = Close  Comma = Comma  Colon = Colon
    Quote = Quote  Backslash = Backslash
    NULL = NULL
    UniverseName = Animal
    Files <- FilesRead
INVARIANT RowsWhole
INVARIANT SetsCounted
INVARIANT FileFaithful
INVARIANT LegalFileRead
CHECK_DEADLOCK FALSE
