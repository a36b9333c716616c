\* Two tasks let one be finished or running while the other waits; one restart
\* puts rows of an earlier daemon into the table.
SPECIFICATION Spec
CONSTANTS
    MaxTasks = 2
    MaxRestarts = 1
    OutOfMemory = TRUE
INVARIANTS
    TypeOK
    MutualExclusion
    WorkedInOrder
    CommandsRunOnce
    HookTellsOutcome
    AlignedRowNeverAhead
    NewestTailIsOwn
PROPERTIES
    StatusNeverGoesBack
    ImplementsService
\* A lost lock stops both threads.
CHECK_DEADLOCK FALSE
