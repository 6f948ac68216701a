---------------------------- MODULE MCRebaseFile ----------------------------
(* Instances of RebaseFile: two rows, or two columns, and room for two more rows. *)
EXTENDS RebaseFile, MCDatabases

SmallVersions == Small({t1}, {1, 2}, {colA}, {v0, v1}) \cup Small({t1}, {1}, {colA, colB}, {v0, v1})

\* Another program writes or deletes one of the two rows.
AnyRow == {t1} \X {1, 2} \X (Row \cup {Absent})
=============================================================================
