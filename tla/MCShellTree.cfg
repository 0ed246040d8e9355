\* Every disk of up to five entries.
SPECIFICATION Spec
CONSTANTS
    WordSize = 64
    MaxEntries = 5
    CMD_MAX = 2
    Typing <- TypingImage
    Letter <- Names
    Command = {"cat", "rm"}
INVARIANTS
    TreeStaysBelow
