SPECIFICATION Spec
CONSTANTS
    Tables = {t1, t2, t3}
    Keys = {1, 2, 3}
    MaxKey = 3
    Cols = {colA, colB}
    Vals = {v0, v1, v2, v3}
    Undefined = Undefined
    Absent = Absent
    Situations <- AllSituations
    Admitted <- Unique
    Referential <- Referring
    Skipped <- SystemTables
    Triggers <- UserTriggers
    MayFail = TRUE
    v0 = v0  v1 = v1  v2 = v2  v3 = v3
    colA = colA  colB = colB
    t1 = t1  t2 = t2  t3 = t3
INVARIANTS
    TypeOK
    SuccessMeansInOrder
    ReachesTarget
PROPERTIES
    ImplementsAtomicApply
    CallsReturn
