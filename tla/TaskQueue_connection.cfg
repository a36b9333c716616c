SPECIFICATION Spec
CONSTANTS
    MaxTasks = 1
    MaxRestarts = 0
    OutOfMemory = FALSE
INVARIANTS
    OneThreadPerConnection
