SPECIFICATION Spec
CONSTANTS
    f1 = f1
    f2 = f2
    a = a
    b = b
    Absent = Absent
    r1 = r1
    r2 = r2
    Runs = {r1, r2}
    Names <- MCNames
    Lines <- MCLines
    Contents <- TwoFiles
    Walk <- FlatWalk
    StdinCap = 1
    StdoutCap = 1
    MaxRuns = 3
    MaxEdits = 1
    MaxFaults = 1
INVARIANTS TypeOK CleanRunShowsFiles OrderedRelationsWired RelationsTrue
CHECK_DEADLOCK FALSE
