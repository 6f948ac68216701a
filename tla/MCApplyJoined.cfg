SPECIFICATION Spec
CONSTANTS
    Tables = {t1}
    Keys = {1, 2}
    MaxKey = 2
    Cols = {colA}
    Vals = {v0, v1, v2}
    Undefined = Undefined
    Absent = Absent
    Situations <- AppendedSituations
    Admitted <- Unique
    Referential <- Database
    Skipped <- SystemTables
    Triggers <- UserTriggers
    MayFail = FALSE
    v0 = v0  v1 = v1  v2 = v2  v3 = v3
    colA = colA  colB = colB
    t1 = t1  t2 = t2  t3 = t3
INVARIANTS
    AppendedReachesTarget
