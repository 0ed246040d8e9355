CONSTANTS
    Entries = 8
    Image <- MCImage
    Slots = 3
    Letter <- MCLetter
    Typed <- MCTyped
    FBUFFER_MAX = 1
    Written = {"w"}
    Reset = 1
    MaxPtr = 1
SPECIFICATION Spec
PROPERTIES
    CopyOwnsItsChain
