SPECIFICATION Spec
CONSTANTS
    WordSize = 4096
    MaxEntries = 5
    CMD_MAX = 3
    Typing <- TypingImage
    Letter <- Names
    Command = {"cat", "cp", "rm"}
INVARIANTS
    LineIsShown
    CommandEnds
    TreeIsPreorder
    NumbersAgree
PROPERTIES
    CdGoesWhereShown
