CONSTANTS
    KB_BUFFER_MAX = 3
    Scancode <- MCScancode
    Pages <- MCPages
    KEY_CTRL = 29
    KEY_ALT = 56
    FunctionKey <- MCFunctionKey
    Reader <- MCReader
    video_page <- MCVideoPage
    MaxTyped = 4
SPECIFICATION Spec
INVARIANTS
    TypeOK
    NothingLeftOver
PROPERTIES
    FifoSpec
    TakenWhereVisible
    NoKeyLingers
