SPECIFICATION Spec
CONSTANTS
    MaxTasks = 2
    MaxRestarts = 0
    OutOfMemory = FALSE
INVARIANTS
    RowShowsItsOwnTask
