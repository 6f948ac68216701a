------------------------------- MODULE MCApply -------------------------------
(***************************************************************************)
(* Instances of Apply: in t1, colA is declared UNIQUE; a row of t2 refers  *)
(* to the row of t1 with its key; t3 is a system table of a GeoPackage.    *)
(***************************************************************************)
EXTENDS Apply, MCDatabases

UniqueColA(d) ==
    \A j, k \in Keys : j # k /\ d[t1][j] # Absent /\ d[t1][k] # Absent
        => d[t1][j][colA] # d[t1][k][colA]

References(d) == \A k \in Keys : d[t2][k] # Absent => d[t1][k] # Absent

Unique == {d \in Database : UniqueColA(d)}
Referring == {d \in Database : References(d)}

DiffsFrom(From, S) ==
    {[from |-> b, to |-> m, log |-> CreateChangeset(b, m)] : b \in From, m \in S}

Diffs(S) == DiffsFrom(S, S)

Resolvables(C) == {c \in C : Resolvable(c.log, c.from)}

-----------------------------------------------------------------------------
(* Two rows with a UNIQUE column *)

TwoRows == {d \in Small({t1}, {1, 2}, {colA}, {v0, v1, v2}) : UniqueColA(d)}
TwoRowDiffs == Diffs(TwoRows)

\* Any changeset applied to any of the databases.
AnyTarget == {[call |-> c, rows |-> d] : c \in TwoRowDiffs, d \in TwoRows}

-----------------------------------------------------------------------------
(* Changesets that can be applied to the database they were made from *)

ThreeRows == {d \in Small({t1}, {1, 2, 3}, {colA}, {v0, v1, v2, v3}) : UniqueColA(d)}

\* Up to the names of the values, the only database with all three.
Full == {CHOOSE d \in ThreeRows : \A k \in {1, 2, 3} : d[t1][k] # Absent}

\* Chains of updates, which take several rounds.
Chains == Resolvables(DiffsFrom(Full, ThreeRows))

PartialRows == Small({t1}, {1}, {colA, colB}, {v0, v1, v2})

ReferringRows ==
    {d \in Small({t1, t2}, {1, 2}, {colA}, {v0, v1}) :
        /\ UniqueColA(d) /\ References(d)
        /\ \A k \in Keys : d[t2][k] # Absent => d[t2][k][colA] = v0}

SystemRows == Small({t1, t3}, {1}, {}, {})

TargetDiffs ==
    Chains \cup Diffs(PartialRows) \cup Resolvables(Diffs(ReferringRows))
    \cup Diffs(SystemRows)

\* Each applied to the database it was made from.
OnItsBase(C) == {[call |-> c, rows |-> c.from] : c \in C}

\* They are what ReachesTarget is about. (MCApplyJoined has the first table only.)
ASSUME LegalAssumption ==
    {t1, t2, t3} \subseteq Tables => \A c \in TargetDiffs : Legal(c)

-----------------------------------------------------------------------------
(* Two changesets in one file, the second made where the first leads: several *)
(* entries of a row, of which the first may be put off                        *)

Joined(C, S) ==
    UNION {{[from |-> c.from, to |-> d.to, log |-> ConcatChanges(c.log, d.log)]
                : d \in DiffsFrom({c.to}, S)} : c \in C}

\* Two columns, one of them UNIQUE, the other edited in one row.
BothColumns ==
    {d \in Small({t1}, {1, 2}, {colA, colB}, {v0, v1, v2}) :
        /\ UniqueColA(d)
        /\ d[t1][1] # Absent => d[t1][1][colB] # v2
        /\ d[t1][2] # Absent => d[t1][2][colB] = v0}

BothRows == {CHOOSE d \in BothColumns : \A k \in {1, 2} : d[t1][k] # Absent}

JoinedDiffs ==
    Joined(TwoRowDiffs, TwoRows)
    \cup Joined(DiffsFrom(BothRows, BothColumns), BothColumns)

AllSituations == AnyTarget \cup OnItsBase(TargetDiffs \cup JoinedDiffs)

SystemTables == {t3}
UserTriggers == {"log_edits"}
=============================================================================
