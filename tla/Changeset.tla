----------------------------- MODULE Changeset -----------------------------
(***************************************************************************)
(* The data every other module is about: tables of rows, the entries of a  *)
(* changeset, the changeset two databases yield (CreateChangeset), its     *)
(* inverse (InvertChangeset) and what one entry does to a table when the   *)
(* SQLite driver executes it.                                              *)
(*                                                                         *)
(* A row is the values of its non-key columns; the integer primary key is  *)
(* the index of the row.  A column value is opaque, and the changeset      *)
(* value "undefined" (column not touched) is none of the column values.    *)
(* A SQL NULL is an ordinary member of Vals: the driver compares with IS.  *)
(***************************************************************************)
EXTENDS Integers, Sequences, FiniteSets, SequencesExt

CONSTANTS
    Tables,     \* tables with a primary key, as both databases list them
    Keys,       \* primary keys the databases have room for
    MaxKey,     \* a bound of Keys
    Cols,       \* the non-key columns
    Vals,       \* the values a column can hold
    Undefined,  \* changeset.TypeUndefined
    Absent      \* no row, or no entry, has this key

Row == [Cols -> Vals]

ASSUME KeysAssumption == MaxKey \in Nat /\ Keys \subseteq 0..MaxKey
ASSUME TablesAssumption == IsFiniteSet(Tables)
ASSUME UndefinedAssumption == Undefined \notin Vals

-----------------------------------------------------------------------------
(* Databases and entries *)

Database == [Tables -> [Keys -> Row \cup {Absent}]]

Operations == {"insert", "update", "delete"}

EntryValues == [Cols -> Vals \cup {Undefined}]

Blank == [c \in Cols |-> Undefined]

\* Keys in an entry are any integer: the rebase writes keys of its own.
Entry == [op : Operations, table : Tables, pk : Int,
          old : EntryValues, new : EntryValues]

ASSUME AbsentAssumption == Absent \notin Row /\ Absent \notin Entry /\ Absent \notin Database

InsertEntry(t, k, row) ==
    [op |-> "insert", table |-> t, pk |-> k, old |-> Blank, new |-> row]

DeleteEntry(t, k, row) ==
    [op |-> "delete", table |-> t, pk |-> k, old |-> row, new |-> Blank]

\* Fault: the two databases of the query are mixed up.
UpdateEntrySwapped(t, k, was, is) ==
    [op |-> "update", table |-> t, pk |-> k,
     old |-> [c \in Cols |-> IF was[c] = is[c] THEN Undefined ELSE is[c]],
     new |-> [c \in Cols |-> IF was[c] = is[c] THEN Undefined ELSE was[c]]]

\* Only the columns that differ carry an old and a new value.
UpdateEntry(t, k, was, is) ==
    [op |-> "update", table |-> t, pk |-> k,
     old |-> [c \in Cols |-> IF was[c] = is[c] THEN Undefined ELSE was[c]],
     new |-> [c \in Cols |-> IF was[c] = is[c] THEN Undefined ELSE is[c]]]

\* What changesets hold: an insert or a delete carries the whole row, an update
\* the old and the new value of the columns it changes.
WellFormed(e) ==
    /\ e.op = "insert" => e.old = Blank /\ e.new \in Row
    /\ e.op = "delete" => e.old \in Row /\ e.new = Blank
    /\ e.op = "update" =>
        /\ e.new # Blank
        /\ \A c \in Cols : \/ e.old[c] = Undefined /\ e.new[c] = Undefined
                           \/ /\ e.old[c] # Undefined /\ e.new[c] # Undefined
                              /\ e.old[c] # e.new[c]

-----------------------------------------------------------------------------
(* CreateChangeset: per table the inserts, the deletes, then the updates *)

\* The elements of s at the positions in I.
Picked(s, I) ==
    LET picked[n \in 0..Len(s)] ==
            IF n = 0 THEN <<>>
            ELSE IF n \in I THEN Append(picked[n - 1], s[n]) ELSE picked[n - 1]
    IN  picked[Len(s)]

InKeyOrder(S) == Picked([i \in 1..(MaxKey + 1) |-> i - 1], {k + 1 : k \in S})

InsertedKeys(was, is) == {k \in Keys : was[k] = Absent /\ is[k] # Absent}

ModifiedKeys(was, is) ==
    {k \in Keys : was[k] # Absent /\ is[k] # Absent /\ was[k] # is[k]}

\* The three queries of a table, and the entries made of the rows they return.
Inserted(t, was, is) ==
    LET keys == InKeyOrder(InsertedKeys(was, is))
    IN  [i \in DOMAIN keys |-> InsertEntry(t, keys[i], is[keys[i]])]

Deleted(t, was, is) ==
    LET keys == InKeyOrder(InsertedKeys(is, was))
    IN  [i \in DOMAIN keys |-> DeleteEntry(t, keys[i], was[keys[i]])]

Updated(t, was, is) ==
    LET keys == InKeyOrder(ModifiedKeys(was, is))
    IN  [i \in DOMAIN keys |-> UpdateEntry(t, keys[i], was[keys[i]], is[keys[i]])]

TableDiff(t, was, is) == Inserted(t, was, is) \o Deleted(t, was, is) \o Updated(t, was, is)

TableOrder == SetToSeq(Tables)

CreateChangeset(was, is) ==
    FlattenSeq([i \in DOMAIN TableOrder |->
                    TableDiff(TableOrder[i], was[TableOrder[i]], is[TableOrder[i]])])

-----------------------------------------------------------------------------
(* InvertChangeset: entry by entry, in the order of the input *)

\* Fault: an update keeps its old values.
InvertEntryHalf(e) ==
    CASE e.op = "insert" -> [e EXCEPT !.op = "delete", !.old = e.new, !.new = Blank]
      [] e.op = "delete" -> [e EXCEPT !.op = "insert", !.new = e.old, !.old = Blank]
      [] e.op = "update" -> [e EXCEPT !.new = e.old]

InvertEntry(e) ==
    CASE e.op = "insert" -> [e EXCEPT !.op = "delete", !.old = e.new, !.new = Blank]
      [] e.op = "delete" -> [e EXCEPT !.op = "insert", !.new = e.old, !.old = Blank]
      [] e.op = "update" -> [e EXCEPT !.old = e.new, !.new = e.old]

InvertChangeset(log) == [i \in DOMAIN log |-> InvertEntry(log[i])]

\* geodiff.ConcatChanges of two files: one after the other, entry by entry.
ConcatChanges(first, second) == first \o second

-----------------------------------------------------------------------------
(* One entry executed on a database *)

\* applyUpdate's SET list: the defined new values.
Overlay(new, row) == [c \in Cols |-> IF new[c] = Undefined THEN row[c] ELSE new[c]]

\* The WHERE clause: the key and every defined old value.
Matches(e, row) ==
    /\ row # Absent
    /\ \A c \in Cols : e.old[c] # Undefined => row[c] = e.old[c]

\* Fault: an update sets every column.
RowAfterWhole(e, row) ==
    CASE e.op = "insert" -> e.new
      [] e.op = "update" -> e.new
      [] e.op = "delete" -> Absent

\* The row of e's key after e, when the statement is executed and affects it.
RowAfter(e, row) ==
    CASE e.op = "insert" -> e.new
      [] e.op = "update" -> Overlay(e.new, row)
      [] e.op = "delete" -> Absent

\* Fault: the WHERE clause has the key only.
EffectiveByKey(e, row) == (e.op = "insert") = (row = Absent)

\* Key uniqueness for an insert; a matching row for the others; an update
\* with nothing to set is never sent to the database.
Effective(e, row) ==
    CASE e.op = "insert" -> row = Absent
      [] e.op = "update" -> Matches(e, row) /\ e.new # Blank
      [] e.op = "delete" -> Matches(e, row)

\* db with the row of e's key changed; Absent when e has no effect there.
DatabaseAfter(e, db) ==
    IF db # Absent /\ e.pk \in Keys /\ Effective(e, db[e.table][e.pk])
    THEN [db EXCEPT ![e.table][e.pk] = RowAfter(e, @)]
    ELSE Absent

\* The databases a log leads through.
Stages(log, db) ==
    LET stage[i \in 0..Len(log)] ==
            IF i = 0 THEN db ELSE DatabaseAfter(log[i], stage[i - 1])
    IN  stage

\* Where it leads; Absent once an entry has no effect.
Replay(log, db) == Stages(log, db)[Len(log)]
=============================================================================
