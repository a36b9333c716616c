SPECIFICATION FairSpec
CONSTANTS
    MaxTasks = 2
    MaxRestarts = 0
    OutOfMemory = TRUE
PROPERTIES
    EveryTaskFinishes
    EveryRequestAnswered
CHECK_DEADLOCK FALSE
