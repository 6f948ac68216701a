--------------------------- MODULE ChangesetFile ---------------------------
(***************************************************************************)
(* Changeset files byte by byte: the writer (writer.go), the reader        *)
(* (reader.go), and the two operations that stream files from one to the   *)
(* other, geodiff.ConcatChanges (api.go) and InvertChangeset (utils.go).   *)
(*                                                                         *)
(* Two files are written; the second loses any number of its last bytes,   *)
(* as when its writer dies or the disk fills; then a job copies them, or   *)
(* the inverse of the second, to an output file, and may fail at any byte  *)
(* of that file as well.                                                   *)
(*                                                                         *)
(* A value is its type and the bytes after it: eight for a number, any     *)
(* for a text or a blob, none for null and undefined.                      *)
(***************************************************************************)
EXTENDS Varint, FiniteSets, SequencesExt

CONSTANTS
    Entries,    \* the entries a program writes, each with its table
    MaxRecords, \* bound: table headers and entries of each of the input files
    Jobs        \* the jobs that may run: "concat", "invert"

Insert == 18
Update == 23
Delete == 9
TableMark == 84                             \* 'T'

NumberTypes == {1, 2}                       \* TypeInt, TypeDouble
LengthTypes == {3, 4}                       \* TypeText, TypeBlob
Undefined == [type |-> 0, bytes |-> <<>>]
Null == [type |-> 5, bytes |-> <<>>]

Columns(t) == Len(t.pks)
MostColumns == 65536                        \* that readTableRecord takes
NoTable == [name |-> <<>>, pks |-> <<>>]    \* the zero ChangesetTable

\* What a value of the program may be: an integer or a double has eight bytes, a
\* text or a blob as many as a length of 32 bits can say.
IsValue(v) ==
    /\ v = [type |-> v.type, bytes |-> v.bytes] /\ v.bytes \in Seq(Byte)
    /\ \/ v.type \in NumberTypes /\ Len(v.bytes) = 8
       \/ v.type \in LengthTypes /\ Len(v.bytes) \div 16 < Weight[5]
       \/ v \in {Null, Undefined}

\* A table has a name, without a zero byte, and columns, no more than can be read.
IsTable(t) ==
    /\ t = [name |-> t.name, pks |-> t.pks]
    /\ t.name \in Seq(Byte \ {0}) /\ t.name # <<>>
    /\ t.pks \in Seq(BOOLEAN) /\ Columns(t) \in 1..MostColumns

\* A row has a value in each column, and those of its key that say which row it is.
IsRow(t, row) ==
    /\ DOMAIN row = 1..Columns(t) /\ row = [i \in 1..Columns(t) |-> row[i]]
    /\ \A i \in 1..Columns(t) : IsValue(row[i])

KeyGiven(t, row) == \A i \in 1..Columns(t) : t.pks[i] => row[i] # Undefined

IsEntry(e) ==
    /\ e = [op |-> e.op, table |-> e.table, old |-> e.old, new |-> e.new]
    /\ e.op \in {Insert, Update, Delete} /\ IsTable(e.table)
    /\ IF e.op = Insert THEN e.old = <<>> ELSE IsRow(e.table, e.old) /\ KeyGiven(e.table, e.old)
    /\ IF e.op = Delete THEN e.new = <<>> ELSE IsRow(e.table, e.new)
    /\ e.op = Insert => KeyGiven(e.table, e.new)

ASSUME EntriesAssumption == \A e \in Entries : IsEntry(e)
ASSUME JobsAssumption == Jobs \subseteq {"concat", "invert"}

-----------------------------------------------------------------------------
(* The writer *)

Header(t) ==
    <<TableMark>> \o PutVarint(Columns(t))
    \o [i \in 1..Columns(t) |-> IF t.pks[i] THEN 1 ELSE 0]
    \o t.name \o <<0>>

ValueBytes(v) ==
    <<v.type>>
    \o (IF v.type \in LengthTypes THEN PutVarint(Len(v.bytes)) ELSE <<>>)
    \o v.bytes

RowBytes(row) == FlattenSeq([i \in DOMAIN row |-> ValueBytes(row[i])])

\* An entry without a row, as an insert has no old one, has none to write.
EntryBytes(e) == <<e.op, 0>> \o RowBytes(e.old) \o RowBytes(e.new)

\* Fault: an entry of another width is written all the same.
WriteEntryUnchecked(columns, e) == [ok |-> TRUE, bytes |-> EntryBytes(e)]

\* WriteEntry for a current table of so many columns: what it appends and
\* whether it succeeds.  Both rows of an entry have one width; one of another
\* width than the table is refused when the first bytes are there.
WriteEntry(columns, e) ==
    LET fits == /\ e.op # Insert => Len(e.old) = columns
                /\ e.op # Delete => Len(e.new) = columns
    IN  [ok |-> fits, bytes |-> IF fits THEN EntryBytes(e) ELSE <<e.op, 0>>]

-----------------------------------------------------------------------------
(* The reader: what is read at an offset *)

\* One read after the other, the first that fails failing the rest.
Then(read, Rest(_, _)) == IF read.ok THEN Rest(read.value, read.at) ELSE Nothing

ReadByte(buf, at) == IF at < Len(buf) THEN Got(buf[at + 1], at + 1) ELSE Nothing

\* Fault: bytes that are not there are not missed.
ReadBytesShort(buf, at, n) ==
    Got(SubSeq(buf, at + 1, IF at + n <= Len(buf) THEN at + n ELSE Len(buf)), at + n)

ReadBytes(buf, at, n) ==
    IF at + n <= Len(buf) THEN Got(SubSeq(buf, at + 1, at + n), at + n) ELSE Nothing

\* Fault: the end of the file ends a string, too.
ReadStringLoose(buf, at) ==
    IF \E z \in (at + 1)..Len(buf) : buf[z] = 0
    THEN LET end == CHOOSE z \in (at + 1)..Len(buf) :
                        buf[z] = 0 /\ \A y \in (at + 1)..(z - 1) : buf[y] # 0
         IN  Got(SubSeq(buf, at + 1, end - 1), end)
    ELSE Got(SubSeq(buf, at + 1, Len(buf)), Len(buf))

\* readNullTerminatedString: up to the first zero byte.
ReadString(buf, at) ==
    LET Zeros == {z \in (at + 1)..Len(buf) : buf[z] = 0}
    IN  IF Zeros = {} THEN Nothing
        ELSE LET end == CHOOSE z \in Zeros : \A y \in Zeros : z <= y
             IN  Got(SubSeq(buf, at + 1, end - 1), end)

\* The number of bytes after a type and, if it is stored, after itself.
ReadLength(buf, at, type) ==
    CASE type \in NumberTypes -> Got(8, at)
      [] type \in LengthTypes -> GetVarint(buf, at)
      [] type \in {Null.type, Undefined.type} -> Got(0, at)
      [] OTHER -> Nothing

ReadValue(buf, at) ==
    Then(ReadByte(buf, at), LAMBDA type, p :
        Then(ReadLength(buf, p, type), LAMBDA length, q :
            Then(ReadBytes(buf, q, length), LAMBDA bytes, r :
                Got([type |-> type, bytes |-> bytes], r))))

\* The values read so far, and one more.
NextValue(buf, row) ==
    Then(row, LAMBDA values, p :
        Then(ReadValue(buf, p), LAMBDA v, q : Got(Append(values, v), q)))

ReadRow(buf, at, columns) ==
    LET row[i \in 0..columns] == IF i = 0 THEN Got(<<>>, at) ELSE NextValue(buf, row[i - 1])
    IN  row[columns]

\* readTableRecord, after the mark.
ReadHeader(buf, at) ==
    Then(GetVarint(buf, at), LAMBDA columns, p :
        IF columns > MostColumns THEN Nothing
        ELSE Then(ReadBytes(buf, p, columns), LAMBDA flags, q :
            Then(ReadString(buf, q), LAMBDA name, r :
                Got([name |-> name, pks |-> [i \in DOMAIN flags |-> flags[i] # 0]], r))))

\* The rows of an entry of table t, after its type.
ReadEntry(buf, at, op, t) ==
    LET Row(there, p) == IF there THEN ReadRow(buf, p, Columns(t)) ELSE Got(<<>>, p)
    IN  Then(ReadByte(buf, at), LAMBDA flag, p :
            Then(Row(op # Insert, p), LAMBDA old, q :
                Then(Row(op # Delete, q), LAMBDA new, r :
                    Got([op |-> op, table |-> t, old |-> old, new |-> new], r))))

Reader == [at : Nat, table : [name : Seq(Byte), pks : Seq(BOOLEAN)]]
NewReader == [at |-> 0, table |-> NoTable]

\* One turn of NextEntry's loop: a table header, which the reader keeps and goes on, an
\* entry to return, "eof" exactly at the end, or an error.
Turn(buf, r) ==
    LET mark == buf[r.at + 1]
        Skip(header) ==
            IF ~header.ok THEN [kind |-> "error"]
            ELSE [kind |-> "table", reader |-> [at |-> header.at, table |-> header.value]]
        Return(entry) ==
            IF ~entry.ok THEN [kind |-> "error"]
            ELSE [kind |-> "entry", entry |-> entry.value, reader |-> [r EXCEPT !.at = entry.at]]
    IN  IF r.at >= Len(buf) THEN [kind |-> "eof"]
        ELSE CASE mark = TableMark -> Skip(ReadHeader(buf, r.at + 1))
               [] mark \in {Insert, Update, Delete} ->
                    Return(ReadEntry(buf, r.at + 1, mark, r.table))
               [] OTHER -> [kind |-> "error"]

-----------------------------------------------------------------------------
(* The jobs *)

VARIABLES
    files,   \* the bytes of the two input files
    written, \* ghost: the entries each was written with
    ends,    \* ghost: the lengths at which the second file ended in a record, and
             \* the number of entries up to there
    header,  \* the table the writer of an input file has begun
    records, \* how many records each input file has
    job,     \* "writing" the inputs, or the job that runs
    input,   \* the input file the job reads
    reader,  \* its reader
    last,    \* the name of the last table begun in the output
    width,   \* the columns of the current table of the output's writer
    out,     \* the bytes of the output file
    result   \* "running", "ok" or "error"

vars == <<files, written, ends, header, records, job, input, reader, last, width,
          out, result>>

inputs == <<files, written, ends, header, records>>
copying == <<job, input, reader, last, width, out, result>>

Init ==
    /\ files = <<<<>>, <<>>>>
    /\ written = <<<<>>, <<>>>>
    /\ ends = {<<0, 0>>}
    /\ header = <<NoTable, NoTable>>
    /\ records = <<0, 0>>
    /\ job = "writing"
    /\ input = 0
    /\ reader = NewReader
    /\ last = <<>>
    /\ width = 0
    /\ out = <<>>
    /\ result = "running"

\* One more record in file i; the first file is complete before the second.
Extend(i, bytes, entries) ==
    /\ job = "writing"
    /\ records[i] < MaxRecords[i]
    /\ i = 1 => records[2] = 0
    /\ files' = [files EXCEPT ![i] = @ \o bytes]
    /\ written' = [written EXCEPT ![i] = @ \o entries]
    /\ records' = [records EXCEPT ![i] = @ + 1]
    /\ ends' = IF i = 2 THEN ends \cup {<<Len(files'[2]), Len(written'[2])>>} ELSE ends
    /\ UNCHANGED copying

\* A program begins a table (bound: the first file has one) ...
BeginTable(i, t) ==
    /\ t # header[i] /\ (i = 1 => records[1] = 0)
    /\ Extend(i, Header(t), <<>>)
    /\ header' = [header EXCEPT ![i] = t]

\* ... and writes entries of it.
AppendEntry(i, e) ==
    /\ e.table = header[i]
    /\ Extend(i, WriteEntry(Columns(e.table), e).bytes, <<e>>)
    /\ UNCHANGED header

FirstInput(j) == IF j = "concat" THEN 1 ELSE 2

\* The second file keeps its first n bytes; job j opens its first input and
\* creates its output.  Bounds: the cut is in the last record, as to cut off
\* more is to cut a shorter file; the first file is empty if j ignores it.
Start(j) ==
    /\ job = "writing"
    /\ j = "invert" => records[1] = 0
    /\ job' = j
    /\ \E n \in 0..Len(files[2]) :
        /\ \A c \in ends : c[1] <= n \/ c[1] = Len(files[2])
        /\ files' = [files EXCEPT ![2] = SubSeq(@, 1, n)]
    /\ input' = FirstInput(j)
    /\ UNCHANGED <<written, ends, header, records, reader, last, width, out, result>>

\* Fault: the old key column is left as the swap leaves it.
InvertedSwapped(e) ==
    CASE e.op = Insert -> [e EXCEPT !.op = Delete, !.old = e.new, !.new = <<>>]
      [] e.op = Delete -> [e EXCEPT !.op = Insert, !.new = e.old, !.old = <<>>]
      [] e.op = Update -> [e EXCEPT !.old = e.new, !.new = e.old]

\* The switch of InvertChangeset; a key column an update gives once stays old.
Inverted(e) ==
    LET once == {i \in DOMAIN e.new : e.table.pks[i] /\ e.new[i] = Undefined}
    IN  CASE e.op = Insert -> [e EXCEPT !.op = Delete, !.old = e.new, !.new = <<>>]
          [] e.op = Delete -> [e EXCEPT !.op = Insert, !.new = e.old, !.old = <<>>]
          [] e.op = Update ->
                [e EXCEPT !.old = [i \in DOMAIN e.new |-> (IF i \in once THEN e.old ELSE e.new)[i]],
                          !.new = [i \in DOMAIN e.new |-> (IF i \in once THEN e.new ELSE e.old)[i]]]

Output(e) == IF job = "invert" THEN Inverted(e) ELSE e

\* Fault: the output gets the first table's header only.
HeaderOnce(e) == IF last = <<>> THEN Header(e.table) ELSE <<>>

\* A header before an entry of a table of another name than the last.
HeaderFor(e) == IF e.table.name # last THEN Header(e.table) ELSE <<>>

\* The width of the output's current table when e is written.
WidthFor(e) == IF HeaderFor(e) = <<>> THEN width ELSE Columns(e.table)

Reading(kind) ==
    /\ job # "writing" /\ result = "running"
    /\ Turn(files[input], reader).kind = kind

\* NextEntry goes on behind a table header.
SkipTable ==
    /\ Reading("table")
    /\ reader' = Turn(files[input], reader).reader
    /\ UNCHANGED <<inputs, job, input, last, width, out, result>>

\* The loop's body: one entry from the reader to the writer.
CopyEntry ==
    /\ Reading("entry")
    /\ LET next == Turn(files[input], reader)
           write == WriteEntry(WidthFor(next.entry), Output(next.entry))
       IN  /\ out' = out \o HeaderFor(next.entry) \o write.bytes
           /\ width' = WidthFor(next.entry)
           /\ last' = next.entry.table.name
           /\ reader' = next.reader
           /\ result' = IF write.ok THEN "running" ELSE "error"
    /\ UNCHANGED <<inputs, job, input>>

\* The same step when the disk fills: some first part of its bytes is there.
\* Bound: one fault, so both input files are whole.
WriteFails ==
    /\ Reading("entry")
    /\ \A c \in ends : c[1] <= Len(files[2])
    /\ LET e == Turn(files[input], reader).entry
           bytes == HeaderFor(e) \o WriteEntry(WidthFor(e), Output(e)).bytes
       IN  \E n \in 0..(Len(bytes) - 1) : out' = out \o SubSeq(bytes, 1, n)
    /\ result' = "error"
    /\ UNCHANGED <<inputs, job, input, reader, last, width>>

\* The end of a file: the next input with a reader of its own, or done.
NextInput ==
    /\ Reading("eof")
    /\ IF input = 1
       THEN input' = 2 /\ reader' = NewReader /\ UNCHANGED result
       ELSE result' = "ok" /\ UNCHANGED <<input, reader>>
    /\ UNCHANGED <<inputs, job, last, width, out>>

\* A file that cannot be read on.
ReadFails ==
    /\ Reading("error")
    /\ result' = "error"
    /\ UNCHANGED <<inputs, job, input, reader, last, width, out>>

Next ==
    \/ \E i \in 1..2, e \in Entries : BeginTable(i, e.table) \/ AppendEntry(i, e)
    \/ \E j \in Jobs : Start(j)
    \/ SkipTable
    \/ CopyEntry
    \/ WriteFails
    \/ NextInput
    \/ ReadFails

Spec == Init /\ [][Next]_vars

-----------------------------------------------------------------------------
(* Properties *)

\* What has been read of a file, and how the reading stands after one more turn.
AfterTurn(buf, state) ==
    LET turn == Turn(buf, state.reader)
    IN  CASE turn.kind = "table" -> [state EXCEPT !.reader = turn.reader]
          [] turn.kind = "entry" -> [state EXCEPT !.reader = turn.reader,
                                                  !.entries = Append(@, turn.entry)]
          [] OTHER -> [state EXCEPT !.kind = turn.kind]

\* The turns of the reader from the start of a file; each takes a byte at least.
Turns(buf) ==
    LET after[n \in 0..(Len(buf) + 1)] ==
            IF n = 0 THEN [reader |-> NewReader, entries |-> <<>>, kind |-> "reading"]
            ELSE AfterTurn(buf, after[n - 1])
    IN  after

\* What such turns end with, at the end of the file or at an error.
Stopped(after) ==
    LET stop == CHOOSE n \in DOMAIN after : after[n].kind # "reading"
    IN  [entries |-> after[stop].entries, ok |-> after[stop].kind = "eof"]

\* Every NextEntry of a new reader, to the end.
Read(buf) == Stopped(Turns(buf))

\* The entries of the second file that are there in full.
Kept == SubSeq(written[2], 1, Max({c[2] : c \in {d \in ends : d[1] <= Len(files[2])}}))

\* What the job is to write.
Wanted == IF job = "invert" THEN [i \in DOMAIN Kept |-> Inverted(Kept[i])]
          ELSE written[1] \o Kept

\* No two tables of one name and width differ in their key columns.
FlagsAgree ==
    \A s, t \in {e.table : e \in Range(written[1]) \cup Range(written[2])} :
        s.name = t.name /\ Columns(s) = Columns(t) => s = t

\* The input files, which do not change any more, before the job's first step.
Started == job # "writing" /\ out = <<>> /\ reader = NewReader

\* The files are files of bytes, and the reader is inside the file it reads.
TypeOK ==
    /\ files \in [1..2 -> Seq(Byte)] /\ out \in Seq(Byte)
    /\ written \in [1..2 -> Seq(Entries)]
    /\ job \in Jobs \cup {"writing"} /\ input \in 0..2
    /\ reader \in Reader /\ (input # 0 => reader.at <= Len(files[input]))
    /\ width = 0 \/ \E e \in Entries : width = Columns(e.table) /\ last = e.table.name
    /\ result \in {"running", "ok", "error"}

\* A file cut off anywhere yields exactly the entries that are in it in full,
\* with their tables: NextEntry never returns a garbled one (a payload may hold
\* bytes that look like marks) and never misses one; a whole file reads back.
CutFileYieldsPrefix ==
    Started => /\ Read(files[1]).entries = written[1]
               /\ Read(files[2]).entries = Kept

\* NextEntry reports the end of a file, not an error, if and only if the file
\* ends where a record ends.  A file cut inside a record is never accepted, a
\* file cut between two of them always is.
EndOnlyBetweenRecords ==
    Started => /\ Read(files[1]).ok
               /\ Read(files[2]).ok <=> \E c \in ends : c[1] = Len(files[2])

\* A job that succeeds has read its files to the end, and its output reads back
\* as their entries one after the other, or as the inverses: no entry slides
\* under the header of another table, in whichever file it was.
OutputReadsBack ==
    result = "ok" /\ FlagsAgree => Read(out) = [entries |-> Wanted, ok |-> TRUE]

\* Whatever fails, and at whichever byte of the output, what can be read of the
\* output is a first part of what was to be written.
PartialOutputIsPrefix ==
    FlagsAgree => IsPrefix(Read(out).entries, Wanted)

\* InvertChangeset keeps the key of every row where the apply looks for it, and
\* to invert an inverse gives back the entries of the file.
InverseKeepsKeys ==
    Started /\ job = "invert" =>
        \A i \in 1..Len(Kept) :
            LET e == Kept[i]
                inverse == Inverted(e)
            IN  /\ Inverted(inverse) = e
                /\ \A c \in DOMAIN e.table.pks :
                        e.table.pks[c] /\ e.op # Delete => inverse.old[c] # Undefined
=============================================================================
