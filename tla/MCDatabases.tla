----------------------------- MODULE MCDatabases -----------------------------
(* The small databases the instances are built from. *)
EXTENDS Changeset

CONSTANTS
    v0, v1, v2, v3,  \* column values
    colA, colB,      \* columns
    t1, t2, t3       \* tables

\* Databases with rows in the tables T, under the keys K, whose columns C hold
\* any value of V and whose other columns hold v0.
Small(T, K, C, V) ==
    LET rows == {[c \in Cols |-> IF c \in C THEN r[c] ELSE v0] : r \in [C -> V]}
    IN  {[t \in Tables |-> [k \in Keys |->
            IF t \in T /\ k \in K THEN d[t][k] ELSE Absent]]
            : d \in [T -> [K -> rows \cup {Absent}]]}
=============================================================================
