\* Two shells and a program (or a shell, its child and its grandchild).
CONSTANTS
    MaxTasks = 4
    Shells = 2
SPECIFICATION FairSpec
INVARIANTS
    TypeOK
    RingIsOneCycle
    ChildrenCountLedger
    NoLiveOrphans
    SiblingsShareParent
PROPERTIES
    DeadStaysOff
    ContextsSurvive
    ReadyRuns
    ExitCompletes
