SPECIFICATION FileSpec
CONSTANTS
    Tables = {t1}
    Keys = {1, 2, 3, 4}
    MaxKey = 4
    Cols = {colA, colB}
    Vals = {v0, v1}
    Undefined = Undefined
    Absent = Absent
    Inputs = {}
    TimestampCols = {}
    Versions <- SmallVersions
    Foreign <- AnyRow
    MaxForeign = 1
    MaxCalls = 2
    v0 = v0  v1 = v1  v2 = v2  v3 = v3
    colA = colA  colB = colB
    t1 = t1  t2 = t2  t3 = t3
INVARIANTS
    FileTypeOK
    SuccessIsMerge
    RebaseAllOrNothing
    DirectInStages
    RepeatedCallChangesNothing
    ForeignEditsKept
CHECK_DEADLOCK FALSE
