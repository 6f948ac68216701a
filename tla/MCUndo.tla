-------------------------------- MODULE MCUndo --------------------------------
(* Instances of Undo: two rows of one table, one row with two
   columns of another. *)
EXTENDS Undo, MCDatabases

SmallDatabases ==
    {[t \in Tables |-> IF t = t1 THEN d[t] ELSE e[t]] :
        d \in Small({t1}, {1, 2}, {}, {v0}),
        e \in Small({t2}, {1}, {colA, colB}, {v0, v1})}
=============================================================================
