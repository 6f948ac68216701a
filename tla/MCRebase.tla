------------------------------ MODULE MCRebase ------------------------------
(***************************************************************************)
(* Instances of Rebase: the inputs are every pair of changesets made from  *)
(* small databases. Keys leaves room above theirs for renumbered rows.     *)
(***************************************************************************)
EXTENDS Rebase, MCDatabases

ManyKeys == Small({t1}, {1, 2, 3}, {colA}, {v0, v1})
FewKeys == Small({t1}, {1, 2}, {colA}, {v0, v1})
ManyValues == Small({t1}, {1}, {colA, colB}, {v0, v1, v2})
FewValues == Small({t1}, {1}, {colA, colB}, {v0, v1})
TwoTables == Small({t1, t2}, {1}, {colA}, {v0, v1})

\* Both sides made one changeset from BASE.
Single(S) ==
    {[base |-> b, theirs |-> CreateChangeset(b, t), ours |-> CreateChangeset(b, o)]
        : b \in S, t \in S, o \in S}

SingleInputs == Single(ManyKeys) \cup Single(ManyValues) \cup Single(TwoTables)

\* Both sides appended two changesets, as ConcatChanges does.
Appended(S) ==
    LET from(b) == {ConcatChanges(CreateChangeset(b, d), CreateChangeset(d, e)) : d \in S, e \in S}
    IN  UNION {[base : {b}, theirs : from(b), ours : from(b)] : b \in S}

AppendedInputs == Appended(FewKeys) \cup Appended(FewValues)

AllInputs == SingleInputs \cup AppendedInputs

Timestamps == {<<t1, colB>>}
=============================================================================
