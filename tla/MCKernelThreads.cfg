\* main and two threads it forks, two messages.
CONSTANTS
    MaxTasks = 3
    Shells = 0
    MaxMessages = 2
SPECIFICATION KFairSpec
INVARIANTS
    KTypeOK
    RegisterIsFresh
    ForkedCount
PROPERTIES
    MailSpec
    WaitOutlivesChildren
    ThreadsEnd
