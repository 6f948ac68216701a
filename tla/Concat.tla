-------------------------------- MODULE Concat --------------------------------
(***************************************************************************)
(* changeset.ConcatChangesets: read changeset files one after another,     *)
(* keep one entry per row and merge each later entry of the row into it,   *)
(* then write what is left.  Both Go maps (tables, rows of a table) are    *)
(* written in no fixed order.                                              *)
(*                                                                         *)
(* The files are not variables: the next entry is any entry of Readable,   *)
(* so that the runs cover logs of every length.  base, current and         *)
(* consistent are ghosts: what applying the entries one by one, in the     *)
(* order they are read, makes of a database.                               *)
(***************************************************************************)
EXTENDS Merge

CONSTANT
    Scopes  \* bounds: the databases and the entries a behaviour may draw from

VARIABLES
    phase,       \* "read", "write", "done", or "error": reading a file failed
    entries,     \* concatTable.entries, per table: the merged entry of a row
    writing,     \* the table whose rows are written, NoTable between tables
    unwritten,   \* keys of it still to write
    left,        \* tables not begun yet
    output,      \* the entries in the output file
    base,        \* ghost: the database before the first file
    current,     \* ghost: base with the entries read so far applied
    consistent,  \* ghost: each of them took effect
    scope        \* ghost: the scope of this behaviour, which never changes

file == <<writing, unwritten, left, output>>
ghost == <<base, current, consistent, scope>>
vars == <<phase, entries, file, ghost>>

NoTable == Absent

ASSUME NoTableAssumption == NoTable \notin Tables

\* What the files may hold: entries some pair of databases yields.
Readable ==
    {InsertEntry(t, k, r) : t \in Tables, k \in Keys, r \in Row}
    \cup {DeleteEntry(t, k, r) : t \in Tables, k \in Keys, r \in Row}
    \cup {UpdateEntry(x[1], x[2], x[3], x[4]) :
            x \in {y \in Tables \X Keys \X Row \X Row : y[3] # y[4]}}

-----------------------------------------------------------------------------
Init ==
    /\ phase = "read"
    /\ entries = [t \in Tables |-> [k \in Keys |-> NoEntry]]
    /\ writing = NoTable /\ unwritten = {} /\ left = {} /\ output = <<>>
    /\ scope \in Scopes
    /\ base \in Database /\ base \in scope.databases
    /\ current = base
    /\ consistent = TRUE

ReadEntry(e) ==
    /\ phase = "read" /\ e \in scope.entries
    /\ entries' = [entries EXCEPT ![e.table][e.pk] = MergeEntries(@, e)]
    /\ IF consistent /\ Effective(e, current[e.table][e.pk])
       THEN /\ current' = [current EXCEPT ![e.table][e.pk] = RowAfter(e, @)]
            /\ UNCHANGED consistent
       ELSE /\ consistent' = FALSE
            /\ UNCHANGED current
    /\ UNCHANGED <<phase, file, base, scope>>

\* A file that cannot be opened, parsed, created or written ends the call; what
\* the output has by then stays.
Fail ==
    /\ phase \in {"read", "write"}
    /\ phase' = "error"
    /\ UNCHANGED <<entries, file, ghost>>

KeysOf(t) == {k \in Keys : entries[t][k] # NoEntry}

StartWrite ==
    /\ phase = "read"
    /\ phase' = "write"
    /\ left' = {t \in Tables : KeysOf(t) # {}}
    /\ UNCHANGED <<entries, writing, unwritten, output, ghost>>

\* Fault: rows whose entries cancelled out are written too.
BeginTableAll(t) ==
    /\ phase = "write" /\ writing = NoTable /\ t \in left
    /\ writing' = t
    /\ unwritten' = Keys
    /\ left' = left \ {t}
    /\ UNCHANGED <<phase, entries, output, ghost>>

\* Fault: the loop over the tables ends after the first.
BeginOnlyTable(t) ==
    /\ phase = "write" /\ writing = NoTable /\ t \in left
    /\ writing' = t
    /\ unwritten' = KeysOf(t)
    /\ left' = {}
    /\ UNCHANGED <<phase, entries, output, ghost>>

\* One turn of `for _, ct := range result`.
BeginTable(t) ==
    /\ phase = "write" /\ writing = NoTable /\ t \in left
    /\ writing' = t
    /\ unwritten' = KeysOf(t)
    /\ left' = left \ {t}
    /\ UNCHANGED <<phase, entries, output, ghost>>

\* One turn of `for _, e := range ct.entries`.
WriteEntry(k) ==
    /\ phase = "write" /\ writing # NoTable /\ k \in unwritten
    /\ output' = Append(output, entries[writing][k])
    /\ unwritten' = unwritten \ {k}
    /\ writing' = IF unwritten = {k} THEN NoTable ELSE writing
    /\ UNCHANGED <<phase, entries, left, ghost>>

CloseOutput ==
    /\ phase = "write" /\ writing = NoTable /\ left = {}
    /\ phase' = "done"
    /\ UNCHANGED <<entries, file, ghost>>

Next ==
    \/ \E e \in Readable : ReadEntry(e)
    \/ Fail
    \/ StartWrite
    \/ \E t \in Tables : BeginTable(t)
    \/ \E k \in Keys : WriteEntry(k)
    \/ CloseOutput

Spec == Init /\ [][Next]_vars

-----------------------------------------------------------------------------
(* Properties *)

\* The maps hold at most one entry per row, filed under its table and key.
TypeOK ==
    /\ phase \in {"read", "write", "done", "error"}
    /\ entries \in [Tables -> [Keys -> Entry \cup {NoEntry}]]
    /\ \A t \in Tables : \A k \in Keys :
        entries[t][k] # NoEntry => entries[t][k].table = t /\ entries[t][k].pk = k
    /\ writing \in Tables \cup {NoTable}
    /\ unwritten \subseteq Keys
    /\ left \subseteq Tables
    /\ output \in Seq(Entry)
    /\ base \in Database
    /\ current \in Database
    /\ consistent \in BOOLEAN

\* However the files contradict each other, mergeEntriesForRow leaves entries
\* the writer can write and a reader understands.
KeptEntriesWellFormed ==
    \A t \in Tables : \A k \in KeysOf(t) : WellFormed(entries[t][k])

\* The merged entry of a row tells its whole story: it takes effect on the row
\* of the first database and gives the row that applying the files one by one
\* gives; no entry means no net change.
EntriesCompose ==
    consistent =>
        \A t \in Tables : \A k \in Keys :
            IF entries[t][k] = NoEntry
            THEN current[t][k] = base[t][k]
            ELSE /\ Effective(entries[t][k], base[t][k])
                 /\ current[t][k] = RowAfter(entries[t][k], base[t][k])

\* Applying the output "is the same as applying the input files sequentially",
\* in whatever order the maps were walked.
OutputEquivalent ==
    phase = "done" /\ consistent => Replay(output, base) = current

\* InvertChangeset of the output leads back, entry by entry in the same order:
\* each row has one entry, so the order does not matter.
InverseRestoresBase ==
    phase = "done" /\ consistent => Replay(InvertChangeset(output), current) = base
=============================================================================
