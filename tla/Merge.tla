-------------------------------- MODULE Merge --------------------------------
(***************************************************************************)
(* mergeEntriesForRow of changeset/concat.go: two entries of one row made  *)
(* one.  e is the entry kept so far, later the one just read.              *)
(***************************************************************************)
EXTENDS Changeset

NoEntry == Absent

\* Fault: a row deleted and inserted again is not supported.
UnsupportedReinsert == {<<"insert", "insert">>, <<"update", "insert">>,
                        <<"delete", "update">>, <<"delete", "delete">>,
                        <<"delete", "insert">>}

Unsupported == {<<"insert", "insert">>, <<"update", "insert">>,
                <<"delete", "update">>, <<"delete", "delete">>}

\* Fault: columns that end as they began are kept.
MergeUpdateAll(e, old, new) ==
    IF old = new THEN NoEntry ELSE [e EXCEPT !.op = "update", !.old = old, !.new = new]

\* mergeUpdate: columns that end as they began are dropped, and the entry with
\* the last of them.
MergeUpdate(e, old, new) ==
    IF old = new THEN NoEntry
    ELSE [e EXCEPT !.op = "update",
                   !.old = [c \in Cols |-> IF old[c] = new[c] THEN Undefined ELSE old[c]],
                   !.new = [c \in Cols |-> IF old[c] = new[c] THEN Undefined ELSE new[c]]]

\* A row without an entry keeps the one read. An unsupported pair is discarded,
\* both entries of it. mergeValue is Overlay: the second value when defined.
MergeEntries(e, later) ==
    CASE e = NoEntry -> later
      [] e # NoEntry /\ <<e.op, later.op>> \in Unsupported -> NoEntry
      [] e # NoEntry /\ <<e.op, later.op>> = <<"insert", "delete">> -> NoEntry
      [] e # NoEntry /\ <<e.op, later.op>> = <<"insert", "update">> ->
            [e EXCEPT !.new = Overlay(later.new, e.new)]
      [] e # NoEntry /\ <<e.op, later.op>> = <<"update", "update">> ->
            MergeUpdate(e, Overlay(e.old, later.old), Overlay(later.new, e.new))
      [] e # NoEntry /\ <<e.op, later.op>> = <<"update", "delete">> ->
            [e EXCEPT !.op = "delete", !.old = Overlay(e.old, later.old), !.new = Blank]
      [] e # NoEntry /\ <<e.op, later.op>> = <<"delete", "insert">> ->
            MergeUpdate(e, e.old, later.new)
=============================================================================
