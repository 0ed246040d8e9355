\* main and two shells on pages 1 and 2, which print up to two characters each.
CONSTANTS
    MaxTasks = 3
    Shells = 2
    MaxPrinted = 2
    MaxStruck = 1
SPECIFICATION BFairSpec
INVARIANTS
    BTypeOK
    RequestsHaveGates
    StopsOnlyInWindows
    CursorsStay
    TextsStay
    ShellPages
PROPERTIES
    ShellsRun
