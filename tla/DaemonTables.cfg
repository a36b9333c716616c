\* Four requests move a task out of a status and back again; two reinforce a row and
\* ask for it; two daemons race and a third takes over.
SPECIFICATION Spec
CONSTANTS
    MaxRequests = 4
    Words <- MCWords
    agent = agent
    cover = cover
    Names <- MCNames
    Project <- MCProject
    Edges <- MCEdges
    Agents <- MCAgents
    Full = 2
    strength_min = 1
    visibility_threshold = 2
    MaxAge = 1
    ListRoom = 1
    OutRoom = 1
    MaxRows <- MCMaxRows
    MaxQueries = 2
    Pids = {p1, p2}
    Terminals = {t1, t2}
    MaxStarts = 3
    MaxCrashes = 1
INVARIANTS
    BoardTypeOK
    EventsReplay
    StampsMatchEvents
    EvapTypeOK
    LogTellsTruth
    OwnDaemonInTurn
    RaceLeavesOneReachable
PROPERTIES
    StartedOnce
    OnlyReinforcementRevives
    ContextWhole
    RowsFade
