\* What the tests of kernel/lab.c expect of wait, under fair scheduling.
CONSTANTS
    MaxTasks = 3
    Shells = 1
SPECIFICATION FairSpec
PROPERTIES
    WaitReturns
