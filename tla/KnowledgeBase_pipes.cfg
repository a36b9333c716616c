SPECIFICATION FairSpec
CONSTANTS
    f1 = f1
    f2 = f2
    a = a
    b = b
    Absent = Absent
    r1 = r1
    r2 = r2
    Runs = {r1}
    Names <- MCNames
    Lines <- MCLines
    Contents <- TwoFiles
    Walk <- DefaultWalk
    StdinCap = 1
    StdoutCap = 1
    MaxRuns = 2
    MaxEdits = 1
    MaxFaults = 1
PROPERTIES EveryRunEnds
CHECK_DEADLOCK FALSE
