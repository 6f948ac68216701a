------------------------------ MODULE MCConcat ------------------------------
(***************************************************************************)
(* Instances of Concat: one row with two columns of three values, on which *)
(* every merge of every two entries can happen; and two rows in each of    *)
(* two tables, over which the maps are walked in every order.              *)
(***************************************************************************)
EXTENDS Concat, MCDatabases

\* The entries that hold only rows the databases D have under their key.
EntriesOver(D) ==
    LET rows(e) == {d[e.table][e.pk] : d \in D} \ {Absent}
    IN  {e \in Readable : /\ rows(e) # {}
                          /\ e.op = "insert" => e.new \in rows(e)
                          /\ e.op = "delete" => e.old \in rows(e)
                          /\ e.op = "update" => \E x, y \in rows(e) :
                                e = UpdateEntry(e.table, e.pk, x, y)}

ScopeOf(D) == [databases |-> D, entries |-> EntriesOver(D)]

OneRow == Small({t1}, {1}, {colA, colB}, {v0, v1, v2})
FourRows == Small({t1, t2}, {1, 2}, {}, {v0})

RowsAndOrder == {ScopeOf(OneRow), ScopeOf(FourRows)}
=============================================================================
