SPECIFICATION Spec
CONSTANTS
    Tables = {t1, t2}
    Keys = {1, 2}
    MaxKey = 2
    Cols = {colA, colB}
    Vals = {v0, v1}
    Undefined = Undefined
    Absent = Absent
    Databases <- SmallDatabases
    MaxCommits = 2
    MaxSessions = 2
    v0 = v0  v1 = v1  v2 = v2  v3 = v3
    colA = colA  colB = colB
    t1 = t1  t2 = t2  t3 = t3
INVARIANTS
    RecordReplays
    UntouchedRowsRight
    SessionUndone
