\* main and one child.
CONSTANTS
    MaxTasks = 2
    Shells = 0
    MaxMessages = 1
SPECIFICATION KFairSpec
PROPERTY WaitEnds
