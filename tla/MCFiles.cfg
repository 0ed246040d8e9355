CONSTANTS
    Entries = 8
    Image <- MCImage
    Slots = 2
    Letter <- MCLetter
    Typed <- MCTyped
    FBUFFER_MAX = 2
    Written = {"w"}
    Reset = 1
    MaxPtr = 1
SPECIFICATION Spec
INVARIANTS
    TypeOK
    CallsEnd
    ChainsStayWhole
    TreeMirrorsDirectory
PROPERTIES
    DataIsKept
