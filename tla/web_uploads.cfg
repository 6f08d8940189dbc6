SPECIFICATION FairSpec
CONSTANTS
    Tasks = {t1, t2}
    File <- TwoFiles
    SkipExisting = {t1}
    Parts = {1}
    Runs = {1, 2, 3}
    Sessions = {1}
    FileSlots = 2
    PartSlots = 1
    MaxEpoch = 1
    MaxFaults = 1
INVARIANTS
    TasksAreTrue
PROPERTIES
    TasksSettle
CHECK_DEADLOCK FALSE
