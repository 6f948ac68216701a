SPECIFICATION Spec
CONSTANTS
    Tables = {t1, t2}
    Keys = {1, 2, 3, 4, 5, 6}
    MaxKey = 6
    Cols = {colA, colB}
    Vals = {v0, v1, v2}
    Undefined = Undefined
    Absent = Absent
    Inputs <- SingleInputs
    TimestampCols <- Timestamps
    v0 = v0  v1 = v1  v2 = v2  v3 = v3
    colA = colA  colB = colB
    t1 = t1  t2 = t2  t3 = t3
INVARIANTS
    RebasedKeysFree
CHECK_DEADLOCK FALSE
