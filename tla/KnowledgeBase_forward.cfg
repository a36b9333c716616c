SPECIFICATION Spec
CONSTANTS
    f1 = f1
    f2 = f2
    a = a
    b = b
    Absent = Absent
    r1 = r1
    r2 = r2
    Runs = {r1}
    Names <- MCNames
    Lines <- MCLines
    Contents <- ForwardFiles
    Walk <- FlatWalk
    StdinCap = 1
    StdoutCap = 1
    MaxRuns = 2
    MaxEdits = 0
    MaxFaults = 0
INVARIANTS FollowUpWires
CHECK_DEADLOCK FALSE
