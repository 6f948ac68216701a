----------------------------- MODULE ConcatProofs -----------------------------
(***************************************************************************)
(* What ConcatChangesets keeps of a row, proved for every set of tables,   *)
(* keys, columns and values and for files of every length.                 *)
(***************************************************************************)
EXTENDS Concat, ChangesetProofs

\* The entry of table t and key k.
EntryOf(t, k, e) ==
    /\ e \in Entry
    /\ e.table = t /\ e.pk = k
    /\ WellFormed(e)

\* The step of one row: what is kept of it, and the row before and after.
Composes(e, was, is) ==
    IF e = NoEntry THEN is = was
    ELSE Effective(e, was) /\ is = RowAfter(e, was)

\* TypeOK alone is not enough for EntriesCompose: merging an update with a
\* delete takes the old values of the columns the update left alone from the
\* delete, which is right only of well-formed updates.
\* And an entry is written only while the maps hold it.
WrittenAreKept ==
    /\ phase = "read" => writing = NoTable
    /\ writing # NoTable => unwritten \subseteq KeysOf(writing)

IInv == TypeOK /\ KeptEntriesWellFormed /\ EntriesCompose /\ WrittenAreKept

LEMMA BlankType == Blank \in EntryValues
BY DEF Blank, EntryValues

LEMMA RowType == Row \subseteq EntryValues
BY DEF Row, EntryValues

LEMMA NoEntryIsNone == Absent \notin Row
BY AbsentAssumption

LEMMA ReadableEntries ==
    ASSUME NEW e \in Readable
    PROVE  e.table \in Tables /\ e.pk \in Keys /\ EntryOf(e.table, e.pk, e)
<1>1. Keys \subseteq Int
  BY KeysAssumption
<1>2. CASE e \in {InsertEntry(t, k, r) : t \in Tables, k \in Keys, r \in Row}
  <2>1. PICK t \in Tables, k \in Keys, r \in Row : e = InsertEntry(t, k, r)
    BY <1>2
  <2> QED
    BY <2>1, <1>1, BlankType, RowType
       DEF InsertEntry, EntryOf, Entry, Operations, WellFormed
<1>3. CASE e \in {DeleteEntry(t, k, r) : t \in Tables, k \in Keys, r \in Row}
  <2>1. PICK t \in Tables, k \in Keys, r \in Row : e = DeleteEntry(t, k, r)
    BY <1>3
  <2> QED
    BY <2>1, <1>1, BlankType, RowType
       DEF DeleteEntry, EntryOf, Entry, Operations, WellFormed
<1>4. CASE e \in {UpdateEntry(x[1], x[2], x[3], x[4]) :
                    x \in {y \in Tables \X Keys \X Row \X Row : y[3] # y[4]}}
  <2>1. PICK x \in {y \in Tables \X Keys \X Row \X Row : y[3] # y[4]} :
                e = UpdateEntry(x[1], x[2], x[3], x[4])
    BY <1>4
  <2>2. x[1] \in Tables /\ x[2] \in Keys /\ x[3] \in Row /\ x[4] \in Row /\ x[3] # x[4]
    BY <2>1
  <2>3. PICK c \in Cols : x[3][c] # x[4][c]
    BY <2>2 DEF Row
  <2>4. e.old \in EntryValues /\ e.new \in EntryValues
    BY <2>1, <2>2 DEF UpdateEntry, EntryValues, Row
  <2>5. e.new # Blank
    BY <2>1, <2>2, <2>3, UndefinedAssumption DEF UpdateEntry, Blank, Row
  <2>6. \A d \in Cols : \/ e.old[d] = Undefined /\ e.new[d] = Undefined
                        \/ /\ e.old[d] # Undefined /\ e.new[d] # Undefined
                           /\ e.old[d] # e.new[d]
    BY <2>1, <2>2, UndefinedAssumption DEF UpdateEntry, Row
  <2>7. e \in Entry /\ e.op = "update" /\ e.table = x[1] /\ e.pk = x[2]
    BY <2>1, <2>2, <2>4, <1>1 DEF UpdateEntry, Entry, Operations
  <2> QED
    BY <2>2, <2>5, <2>6, <2>7 DEF EntryOf, WellFormed
<1> QED
  BY <1>2, <1>3, <1>4 DEF Readable

LEMMA OverlayType ==
    ASSUME NEW a \in EntryValues, NEW b \in EntryValues
    PROVE  /\ Overlay(a, b) \in EntryValues
           /\ b \in Row => Overlay(a, b) \in Row
BY UndefinedAssumption DEF Overlay, EntryValues, Row

\* The merge of two well-formed entries of a row is one of that row, or none.
LEMMA MergeUpdateEntry ==
    ASSUME NEW t, NEW k, NEW e, EntryOf(t, k, e),
           NEW old \in EntryValues, NEW new \in EntryValues,
           \A c \in Cols : old[c] = Undefined <=> new[c] = Undefined
    PROVE  \/ old = new /\ MergeUpdate(e, old, new) = NoEntry
           \/ old # new /\ EntryOf(t, k, MergeUpdate(e, old, new))
<1>1. CASE old = new
  BY <1>1 DEF MergeUpdate
<1>2. CASE old # new
  <2> DEFINE m == MergeUpdate(e, old, new)
  <2>1. m = [e EXCEPT !.op = "update",
                !.old = [c \in Cols |-> IF old[c] = new[c] THEN Undefined ELSE old[c]],
                !.new = [c \in Cols |-> IF old[c] = new[c] THEN Undefined ELSE new[c]]]
    BY <1>2 DEF MergeUpdate
  <2>2. /\ e \in Entry /\ e.table = t /\ e.pk = k
        /\ old \in [Cols -> Vals \cup {Undefined}]
        /\ new \in [Cols -> Vals \cup {Undefined}]
    BY DEF EntryOf, EntryValues
  <2>3. /\ m.op = "update" /\ m.table = t /\ m.pk = k
        /\ m.old = [c \in Cols |-> IF old[c] = new[c] THEN Undefined ELSE old[c]]
        /\ m.new = [c \in Cols |-> IF old[c] = new[c] THEN Undefined ELSE new[c]]
    BY <2>1, <2>2 DEF Entry
  <2>4. m.old \in EntryValues /\ m.new \in EntryValues
    BY <2>2, <2>3 DEF EntryValues
  <2>5. m \in Entry
    BY <2>1, <2>2, <2>4, <2>3 DEF Entry, Operations, EntryValues
  <2>6. PICK d \in Cols : old[d] # new[d]
    BY <1>2, <2>2
  <2>7. m.new # Blank
    BY <2>3, <2>6 DEF Blank
  <2>8. \A c \in Cols : \/ m.old[c] = Undefined /\ m.new[c] = Undefined
                        \/ /\ m.old[c] # Undefined /\ m.new[c] # Undefined
                           /\ m.old[c] # m.new[c]
    BY <2>3
  <2>9. EntryOf(t, k, m)
    BY <2>3, <2>5, <2>7, <2>8 DEF EntryOf, WellFormed
  <2> QED
    BY <1>2, <2>9
<1> QED
  BY <1>1, <1>2

LEMMA MergedEntry ==
    ASSUME NEW t, NEW k, NEW e, NEW later, EntryOf(t, k, later),
           e = NoEntry \/ EntryOf(t, k, e)
    PROVE  MergeEntries(e, later) = NoEntry \/ EntryOf(t, k, MergeEntries(e, later))
<1> DEFINE m == MergeEntries(e, later)
<1>1. CASE e = NoEntry
  BY <1>1 DEF MergeEntries
<1>2. CASE e # NoEntry /\ <<e.op, later.op>> \in Unsupported \cup {<<"insert", "delete">>}
  BY <1>2 DEF MergeEntries, Unsupported
<1>3. ASSUME e # NoEntry, e.op = "insert", later.op = "update"
      PROVE  EntryOf(t, k, m)
  <2>1. m = [e EXCEPT !.new = Overlay(later.new, e.new)]
    BY <1>3 DEF MergeEntries, Unsupported
  <2>2. EntryOf(t, k, e)
    BY <1>3
  <2>3. Overlay(later.new, e.new) \in Row
    BY <2>2, <1>3, OverlayType, RowType DEF EntryOf, Entry, WellFormed
  <2> QED
    BY <2>1, <2>2, <2>3, <1>3, RowType DEF EntryOf, Entry, WellFormed
<1>4. ASSUME e # NoEntry, e.op = "update", later.op = "update"
      PROVE  m = NoEntry \/ EntryOf(t, k, m)
  <2>1. m = MergeUpdate(e, Overlay(e.old, later.old), Overlay(later.new, e.new))
    BY <1>4 DEF MergeEntries, Unsupported
  <2>2. EntryOf(t, k, e)
    BY <1>4
  <2>3. /\ Overlay(e.old, later.old) \in EntryValues
        /\ Overlay(later.new, e.new) \in EntryValues
    BY <2>2, OverlayType DEF EntryOf, Entry
  <2>4. \A c \in Cols : Overlay(e.old, later.old)[c] = Undefined
                         <=> Overlay(later.new, e.new)[c] = Undefined
    BY <2>2, <1>4 DEF Overlay, EntryOf, WellFormed
  <2> QED
    BY <2>1, <2>2, <2>3, <2>4, MergeUpdateEntry
<1>5. ASSUME e # NoEntry, e.op = "update", later.op = "delete"
      PROVE  EntryOf(t, k, m)
  <2>1. m = [e EXCEPT !.op = "delete", !.old = Overlay(e.old, later.old), !.new = Blank]
    BY <1>5 DEF MergeEntries, Unsupported
  <2>2. EntryOf(t, k, e)
    BY <1>5
  <2>3. Overlay(e.old, later.old) \in Row
    BY <2>2, <1>5, OverlayType, RowType DEF EntryOf, Entry, WellFormed
  <2> QED
    BY <2>1, <2>2, <2>3, BlankType, RowType DEF EntryOf, Entry, WellFormed, Operations
<1>6. ASSUME e # NoEntry, e.op = "delete", later.op = "insert"
      PROVE  m = NoEntry \/ EntryOf(t, k, m)
  <2>1. m = MergeUpdate(e, e.old, later.new)
    BY <1>6 DEF MergeEntries, Unsupported
  <2>2. EntryOf(t, k, e)
    BY <1>6
  <2>3. e.old \in Row /\ later.new \in Row
    BY <2>2, <1>6 DEF EntryOf, WellFormed
  <2>4. e.old \in EntryValues /\ later.new \in EntryValues
    BY <2>3, RowType
  <2>5. \A c \in Cols : e.old[c] = Undefined <=> later.new[c] = Undefined
    BY <2>3, UndefinedAssumption DEF Row
  <2> QED
    BY <2>1, <2>2, <2>4, <2>5, MergeUpdateEntry
<1>7. later.op \in Operations /\ (e # NoEntry => e.op \in Operations)
  BY DEF EntryOf, Entry
<1> QED
  BY <1>1, <1>2, <1>3, <1>4, <1>5, <1>6, <1>7 DEF Operations, Unsupported

-----------------------------------------------------------------------------
\* What an update which takes effect leaves in a row is a row of the table.
LEMMA RowAfterType ==
    ASSUME NEW t, NEW k, NEW e, EntryOf(t, k, e),
           NEW row \in Row \cup {Absent}, Effective(e, row)
    PROVE  RowAfter(e, row) \in Row \cup {Absent}
<1>1. e.op \in Operations /\ e.new \in EntryValues
  BY DEF EntryOf, Entry
<1>2. CASE e.op = "insert"
  BY <1>2 DEF EntryOf, WellFormed, RowAfter
<1>3. CASE e.op = "delete"
  BY <1>3 DEF RowAfter
<1>4. CASE e.op = "update"
  <2>1. row \in Row
    BY <1>4 DEF Effective, Matches
  <2>2. Overlay(e.new, row) \in Row
    BY <2>1, <1>1, OverlayType, RowType
  <2> QED
    BY <2>2, <1>4 DEF RowAfter
<1> QED
  BY <1>1, <1>2, <1>3, <1>4 DEF Operations

\* The update MergeUpdate makes of the values a row had and has in the columns
\* old and new name.
LEMMA MergeUpdateComposes ==
    ASSUME NEW t, NEW k, NEW e, EntryOf(t, k, e),
           NEW old \in EntryValues, NEW new \in EntryValues,
           \A c \in Cols : old[c] = Undefined <=> new[c] = Undefined,
           NEW was \in Row, NEW is \in Row,
           \A c \in Cols : IF old[c] = Undefined THEN is[c] = was[c]
                           ELSE was[c] = old[c] /\ is[c] = new[c]
    PROVE  Composes(MergeUpdate(e, old, new), was, is)
<1>1. was \in [Cols -> Vals] /\ is \in [Cols -> Vals]
  BY DEF Row
<1>2. CASE old = new
  <2>1. is = was
    BY <1>1, <1>2
  <2> QED
    BY <1>2, <2>1 DEF Composes, MergeUpdate
<1>3. CASE old # new
  <2> DEFINE m == MergeUpdate(e, old, new)
  <2>1. EntryOf(t, k, m)
    BY <1>3, MergeUpdateEntry
  <2>2. m # NoEntry
    BY <2>1, AbsentAssumption DEF NoEntry, EntryOf
  <2>3. m = [e EXCEPT !.op = "update",
                !.old = [c \in Cols |-> IF old[c] = new[c] THEN Undefined ELSE old[c]],
                !.new = [c \in Cols |-> IF old[c] = new[c] THEN Undefined ELSE new[c]]]
    BY <1>3 DEF MergeUpdate
  <2>4. /\ m.op = "update"
        /\ m.old = [c \in Cols |-> IF old[c] = new[c] THEN Undefined ELSE old[c]]
        /\ m.new = [c \in Cols |-> IF old[c] = new[c] THEN Undefined ELSE new[c]]
    BY <2>3 DEF EntryOf, Entry
  <2>5. Matches(m, was)
    <3>1. was # Absent
      BY AbsentAssumption
    <3>2. \A c \in Cols : m.old[c] # Undefined => was[c] = m.old[c]
      BY <2>4
    <3> QED
      BY <3>1, <3>2 DEF Matches
  <2>6. m.new # Blank
    BY <2>1, <2>4 DEF EntryOf, WellFormed
  <2>7. Effective(m, was)
    BY <2>4, <2>5, <2>6 DEF Effective
  <2>8. is = Overlay(m.new, was)
    <3>1. Overlay(m.new, was) = [c \in Cols |-> IF m.new[c] = Undefined
                                               THEN was[c] ELSE m.new[c]]
      BY DEF Overlay
    <3>2. \A c \in Cols : is[c] = IF m.new[c] = Undefined THEN was[c] ELSE m.new[c]
      BY <2>4
    <3> QED
      BY <3>1, <3>2, <1>1
  <2>9. is = RowAfter(m, was)
    BY <2>4, <2>8 DEF RowAfter
  <2> QED
    BY <2>2, <2>7, <2>9 DEF Composes
<1> QED
  BY <1>2, <1>3

\* Merging composes: the kept entry led from was to is, the later one leads on.
LEMMA MergeComposes ==
    ASSUME NEW t, NEW k, NEW e, NEW later, EntryOf(t, k, later),
           e = NoEntry \/ EntryOf(t, k, e),
           NEW was \in Row \cup {Absent}, NEW is \in Row \cup {Absent},
           Composes(e, was, is), Effective(later, is)
    PROVE  Composes(MergeEntries(e, later), was, RowAfter(later, is))
<1> DEFINE m == MergeEntries(e, later)
<1>1. later # NoEntry /\ later.op \in Operations
  BY AbsentAssumption DEF EntryOf, NoEntry, Entry
<1>2. CASE e = NoEntry
  BY <1>1, <1>2 DEF MergeEntries, Composes
<1>3. ASSUME e # NoEntry, e.op = "insert"
      PROVE  Composes(m, was, RowAfter(later, is))
  <2>1. EntryOf(t, k, e) /\ was = Absent /\ is = e.new /\ e.new \in Row
    BY <1>3 DEF Composes, Effective, RowAfter, EntryOf, WellFormed
  <2>2. is # Absent
    BY <2>1, AbsentAssumption
  <2>3. CASE later.op = "insert"
    BY <2>2, <2>3 DEF Effective
  <2>4. CASE later.op = "delete"
    <3>1. m = NoEntry
      BY <1>3, <2>4 DEF MergeEntries, Unsupported
    <3> QED
      BY <3>1, <2>1, <2>4 DEF Composes, RowAfter
  <2>5. CASE later.op = "update"
    <3>1. m = [e EXCEPT !.new = Overlay(later.new, e.new)]
      BY <1>3, <2>5 DEF MergeEntries, Unsupported
    <3>2. EntryOf(t, k, m) \/ m = NoEntry
      BY MergedEntry
    <3>3. m.op = "insert" /\ m.new = Overlay(later.new, e.new)
      BY <3>1, <2>1, <1>3 DEF EntryOf, Entry
    <3>4. m # NoEntry
      <4>1. Overlay(later.new, e.new) \in EntryValues
        BY <2>1, RowType, OverlayType DEF EntryOf, Entry
      <4>2. m \in Entry
        BY <3>1, <4>1, <2>1 DEF EntryOf, Entry
      <4> QED
        BY <4>2, AbsentAssumption DEF NoEntry
    <3> QED
      BY <3>3, <3>4, <2>1, <2>5 DEF Composes, Effective, RowAfter
  <2> QED
    BY <1>1, <2>3, <2>4, <2>5 DEF Operations
<1>4. ASSUME e # NoEntry, e.op = "delete"
      PROVE  Composes(m, was, RowAfter(later, is))
  <2>1. EntryOf(t, k, e) /\ Matches(e, was) /\ is = Absent
    BY <1>4 DEF Composes, Effective, RowAfter
  <2>2. CASE later.op \in {"update", "delete"}
    BY <2>1, <2>2 DEF Effective, Matches
  <2>3. CASE later.op = "insert"
    <3>1. m = MergeUpdate(e, e.old, later.new)
      BY <1>4, <2>3 DEF MergeEntries, Unsupported
    <3>2. e.old \in Row /\ later.new \in Row
      BY <2>1, <2>3, <1>4 DEF EntryOf, WellFormed
    <3>3. was \in Row
      BY <2>1 DEF Matches
    <3>4. RowAfter(later, is) = later.new
      BY <2>3 DEF RowAfter
    <3>5. \A c \in Cols : e.old[c] # Undefined /\ later.new[c] # Undefined
      BY <3>2, UndefinedAssumption DEF Row
    <3>6. \A c \in Cols : was[c] = e.old[c]
      BY <2>1, <3>5 DEF Matches
    <3>7. e.old \in EntryValues /\ later.new \in EntryValues
      BY <3>2, RowType
    <3> HIDE DEF m
    <3> QED
      BY <3>1, <3>2, <3>3, <3>4, <3>5, <3>6, <3>7, <2>1, MergeUpdateComposes
  <2> QED
    BY <1>1, <2>2, <2>3 DEF Operations
<1>5. ASSUME e # NoEntry, e.op = "update"
      PROVE  Composes(m, was, RowAfter(later, is))
  <2>1. EntryOf(t, k, e) /\ Matches(e, was) /\ is = Overlay(e.new, was)
    BY <1>5 DEF Composes, Effective, RowAfter
  <2>2. was \in Row /\ was \in [Cols -> Vals]
    BY <2>1 DEF Matches, Row
  <2>3. e.old \in EntryValues /\ e.new \in EntryValues
    BY <2>1 DEF EntryOf, Entry
  <2>4. is \in Row /\ is # Absent
    BY <2>1, <2>2, <2>3, OverlayType, RowType, AbsentAssumption
  <2>5. \A c \in Cols : is[c] = IF e.new[c] = Undefined THEN was[c] ELSE e.new[c]
    BY <2>1 DEF Overlay
  <2>6. \A c \in Cols : /\ e.old[c] = Undefined <=> e.new[c] = Undefined
                        /\ e.old[c] # Undefined => was[c] = e.old[c]
    BY <2>1, <1>5 DEF EntryOf, WellFormed, Matches
  <2>7. later.old \in EntryValues /\ later.new \in EntryValues
    BY DEF EntryOf, Entry
  <2>8. CASE later.op = "insert"
    BY <2>4, <2>8 DEF Effective
  <2>9. CASE later.op = "update"
    <3> DEFINE old == Overlay(e.old, later.old)
               new == Overlay(later.new, e.new)
               end == Overlay(later.new, is)
    <3>1. m = MergeUpdate(e, old, new)
      BY <1>5, <2>9 DEF MergeEntries, Unsupported
    <3>2. RowAfter(later, is) = end
      BY <2>9 DEF RowAfter
    <3>3. old \in EntryValues /\ new \in EntryValues /\ end \in Row
      <4>1. old \in EntryValues
        BY <2>3, <2>7, OverlayType
      <4>2. new \in EntryValues
        BY <2>3, <2>7, OverlayType
      <4>3. end \in Row
        BY <2>4, <2>7, OverlayType, RowType
      <4> QED
        BY <4>1, <4>2, <4>3
    <3>4. \A c \in Cols : /\ later.old[c] = Undefined <=> later.new[c] = Undefined
                          /\ later.old[c] # Undefined => is[c] = later.old[c]
      BY <2>9 DEF EntryOf, WellFormed, Effective, Matches
    <3>5. \A c \in Cols :
             /\ old[c] = IF e.old[c] = Undefined THEN later.old[c] ELSE e.old[c]
             /\ new[c] = IF later.new[c] = Undefined THEN e.new[c] ELSE later.new[c]
             /\ end[c] = IF later.new[c] = Undefined THEN is[c] ELSE later.new[c]
      BY DEF Overlay
    <3> HIDE DEF old, new, end, m
    <3>6. \A c \in Cols : old[c] = Undefined <=> new[c] = Undefined
      <4> TAKE c \in Cols
      <4>1. /\ e.old[c] = Undefined <=> e.new[c] = Undefined
            /\ later.old[c] = Undefined <=> later.new[c] = Undefined
        BY <2>6, <3>4
      <4>2. /\ old[c] = IF e.old[c] = Undefined THEN later.old[c] ELSE e.old[c]
            /\ new[c] = IF later.new[c] = Undefined THEN e.new[c] ELSE later.new[c]
        BY <3>5
      <4> QED
        BY <4>1, <4>2
    <3>7. \A c \in Cols : IF old[c] = Undefined THEN end[c] = was[c]
                          ELSE was[c] = old[c] /\ end[c] = new[c]
      <4> TAKE c \in Cols
      <4>1. /\ e.old[c] = Undefined <=> e.new[c] = Undefined
            /\ e.old[c] # Undefined => was[c] = e.old[c]
            /\ later.old[c] = Undefined <=> later.new[c] = Undefined
            /\ later.old[c] # Undefined => is[c] = later.old[c]
            /\ is[c] = IF e.new[c] = Undefined THEN was[c] ELSE e.new[c]
        BY <2>5, <2>6, <3>4
      <4>2. /\ old[c] = IF e.old[c] = Undefined THEN later.old[c] ELSE e.old[c]
            /\ new[c] = IF later.new[c] = Undefined THEN e.new[c] ELSE later.new[c]
            /\ end[c] = IF later.new[c] = Undefined THEN is[c] ELSE later.new[c]
        BY <3>5
      <4> QED
        BY <4>1, <4>2
    <3>8. Composes(MergeUpdate(e, old, new), was, end)
      BY <3>3, <3>6, <3>7, <2>1, <2>2, MergeUpdateComposes
    <3> QED
      BY <3>1, <3>2, <3>8
  <2>10. CASE later.op = "delete"
    <3>1. m = [e EXCEPT !.op = "delete", !.old = Overlay(e.old, later.old), !.new = Blank]
      BY <1>5, <2>10 DEF MergeEntries, Unsupported
    <3>2. /\ m.op = "delete"
          /\ m.old = Overlay(e.old, later.old)
      BY <3>1, <2>1 DEF EntryOf, Entry
    <3>3. m # NoEntry
      <4>1. Overlay(e.old, later.old) \in EntryValues
        BY <2>3, <2>7, OverlayType
      <4>2. m \in Entry
        BY <3>1, <4>1, <2>1, BlankType DEF EntryOf, Entry, Operations
      <4> QED
        BY <4>2, AbsentAssumption DEF NoEntry
    <3>4. \A c \in Cols : m.old[c] # Undefined => was[c] = m.old[c]
      <4>1. \A c \in Cols : later.old[c] # Undefined => is[c] = later.old[c]
        BY <2>10 DEF Effective, Matches
      <4>2. \A c \in Cols :
               m.old[c] = IF e.old[c] = Undefined THEN later.old[c] ELSE e.old[c]
        BY <3>2 DEF Overlay
      <4> TAKE c \in Cols
      <4>3. /\ e.old[c] = Undefined <=> e.new[c] = Undefined
            /\ e.old[c] # Undefined => was[c] = e.old[c]
            /\ is[c] = IF e.new[c] = Undefined THEN was[c] ELSE e.new[c]
        BY <2>5, <2>6
      <4>4. /\ later.old[c] # Undefined => is[c] = later.old[c]
            /\ m.old[c] = IF e.old[c] = Undefined THEN later.old[c] ELSE e.old[c]
        BY <4>1, <4>2
      <4> HIDE DEF m
      <4> QED
        BY <4>3, <4>4
    <3>5. Matches(m, was)
      BY <3>4, <2>1 DEF Matches
    <3> QED
      BY <3>2, <3>3, <3>5, <2>10 DEF Composes, Effective, RowAfter
  <2> QED
    BY <1>1, <2>8, <2>9, <2>10 DEF Operations
<1>6. e # NoEntry => e.op \in Operations
  BY DEF EntryOf, Entry
<1> QED
  BY <1>2, <1>3, <1>4, <1>5, <1>6 DEF Operations

-----------------------------------------------------------------------------
LEMMA KeptEntry ==
    ASSUME TypeOK, KeptEntriesWellFormed, NEW t \in Tables, NEW k \in Keys
    PROVE  entries[t][k] = NoEntry \/ EntryOf(t, k, entries[t][k])
BY DEF TypeOK, KeptEntriesWellFormed, KeysOf, EntryOf

LEMMA InitIInv == Init => IInv
<1> SUFFICES ASSUME Init PROVE IInv
  OBVIOUS
<1>1. TypeOK
  BY DEF Init, TypeOK, Database
<1>2. \A t \in Tables : \A k \in Keys : entries[t][k] = NoEntry
  BY DEF Init
<1>3. KeptEntriesWellFormed /\ EntriesCompose /\ WrittenAreKept
  BY <1>2 DEF Init, KeptEntriesWellFormed, EntriesCompose, WrittenAreKept, KeysOf
<1> QED
  BY <1>1, <1>3 DEF IInv

\* Reading an entry changes the map, and the ghost database, at one row.
LEMMA ReadKeepsIInv ==
    ASSUME IInv, NEW e \in Readable, ReadEntry(e)
    PROVE  IInv'
<1> DEFINE t == e.table
           k == e.pk
           kept == entries[t][k]
           m == MergeEntries(kept, e)
<1>1. t \in Tables /\ k \in Keys /\ EntryOf(t, k, e)
  BY ReadableEntries
<1>2. TypeOK /\ KeptEntriesWellFormed
  BY DEF IInv
<1>3. kept = NoEntry \/ EntryOf(t, k, kept)
  BY <1>1, <1>2, KeptEntry
<1>4. m = NoEntry \/ EntryOf(t, k, m)
  BY <1>1, <1>3, MergedEntry
<1>5. entries' = [entries EXCEPT ![t][k] = m] /\ UNCHANGED <<phase, file, base>>
  BY DEF ReadEntry
<1> HIDE DEF m, kept
<1>6. /\ entries \in [Tables -> [Keys -> Entry \cup {NoEntry}]]
      /\ base \in Database /\ current \in Database
  BY <1>2 DEF TypeOK
<1>7. \A u \in Tables, j \in Keys :
         entries'[u][j] = IF u = t /\ j = k THEN m ELSE entries[u][j]
  BY <1>1, <1>5, <1>6
<1>8. entries' \in [Tables -> [Keys -> Entry \cup {NoEntry}]]
  BY <1>1, <1>4, <1>5, <1>6 DEF EntryOf
<1>9. \A u \in Tables, j \in Keys :
         entries'[u][j] = NoEntry \/ EntryOf(u, j, entries'[u][j])
  BY <1>2, <1>4, <1>7, KeptEntry
<1>10. base[t][k] \in Row \cup {Absent} /\ current[t][k] \in Row \cup {Absent}
  BY <1>1, <1>6 DEF Database
<1>11. CASE consistent /\ Effective(e, current[t][k])
  <2> DEFINE after == RowAfter(e, current[t][k])
  <2>1. current' = [current EXCEPT ![t][k] = after] /\ consistent' = consistent
    BY <1>11 DEF ReadEntry
  <2>2. after \in Row \cup {Absent}
    BY <1>1, <1>10, <1>11, RowAfterType
  <2>3. Composes(kept, base[t][k], current[t][k])
    BY <1>1, <1>11 DEF IInv, EntriesCompose, Composes, kept
  <2>4. Composes(m, base[t][k], after)
    BY <1>1, <1>3, <1>10, <1>11, <2>3, MergeComposes DEF m
  <2> HIDE DEF after
  <2>5. current' \in Database
    BY <1>1, <1>6, <2>1, <2>2 DEF Database
  <2>6. \A u \in Tables, j \in Keys :
           current'[u][j] = IF u = t /\ j = k THEN after ELSE current[u][j]
    BY <1>1, <1>6, <2>1 DEF Database
  <2>7. ASSUME NEW u \in Tables, NEW j \in Keys
        PROVE  Composes(entries'[u][j], base[u][j], current'[u][j])
    <3>1. CASE u = t /\ j = k
      BY <1>7, <2>4, <2>6, <3>1
    <3>2. CASE ~(u = t /\ j = k)
      <4>1. Composes(entries[u][j], base[u][j], current[u][j])
        BY <1>11 DEF IInv, EntriesCompose, Composes
      <4> QED
        BY <1>7, <2>6, <3>2, <4>1
    <3> QED
      BY <3>1, <3>2
  <2>8. EntriesCompose'
    BY <1>5, <2>7 DEF EntriesCompose, Composes
  <2>9. TypeOK'
    BY <1>2, <1>5, <1>8, <1>9, <2>1, <2>5 DEF TypeOK, EntryOf, file
  <2> QED
    BY <1>5, <1>9, <2>8, <2>9
       DEF IInv, KeptEntriesWellFormed, KeysOf, EntryOf, WrittenAreKept, ReadEntry, file
<1>12. CASE ~(consistent /\ Effective(e, current[t][k]))
  <2>1. current' = current /\ consistent' = FALSE
    BY <1>12 DEF ReadEntry
  <2>2. TypeOK'
    BY <1>2, <1>5, <1>8, <1>9, <2>1 DEF TypeOK, EntryOf, file
  <2> QED
    BY <1>5, <1>9, <2>1, <2>2
       DEF IInv, KeptEntriesWellFormed, KeysOf, EntryOf, EntriesCompose,
           WrittenAreKept, ReadEntry, file
<1> QED
  BY <1>11, <1>12

LEMMA NextIInv == IInv /\ [Next]_vars => IInv'
<1> SUFFICES ASSUME IInv, [Next]_vars PROVE IInv'
  OBVIOUS
<1> USE DEF IInv
<1>1. ASSUME NEW e \in Readable, ReadEntry(e) PROVE IInv'
  BY <1>1, ReadKeepsIInv
<1>2. CASE Fail
  BY <1>2 DEF Fail, file, ghost, TypeOK, KeptEntriesWellFormed, EntriesCompose,
              WrittenAreKept, KeysOf
<1>3. CASE StartWrite
  BY <1>3 DEF StartWrite, ghost, TypeOK, KeptEntriesWellFormed, EntriesCompose,
              WrittenAreKept, KeysOf
<1>4. ASSUME NEW t \in Tables, BeginTable(t) PROVE IInv'
  BY <1>4 DEF BeginTable, ghost, TypeOK, KeptEntriesWellFormed, EntriesCompose,
              WrittenAreKept, KeysOf
<1>5. ASSUME NEW k \in Keys, WriteEntry(k) PROVE IInv'
  <2>1. writing \in Tables /\ entries[writing][k] \in Entry
    BY <1>5 DEF WriteEntry, TypeOK, WrittenAreKept, KeysOf
  <2>2. output' \in Seq(Entry) /\ unwritten' \subseteq unwritten
    BY <1>5, <2>1 DEF WriteEntry, TypeOK
  <2>3. writing' \in {writing, NoTable}
    BY <1>5 DEF WriteEntry
  <2> QED
    BY <1>5, <2>1, <2>2, <2>3 DEF WriteEntry, ghost, TypeOK, KeptEntriesWellFormed,
       EntriesCompose, WrittenAreKept, KeysOf
<1>6. CASE CloseOutput
  BY <1>6 DEF CloseOutput, file, ghost, TypeOK, KeptEntriesWellFormed, EntriesCompose,
              WrittenAreKept, KeysOf
<1>7. CASE UNCHANGED vars
  BY <1>7 DEF vars, file, ghost, TypeOK, KeptEntriesWellFormed, EntriesCompose,
              WrittenAreKept, KeysOf
<1> QED
  BY <1>1, <1>2, <1>3, <1>4, <1>5, <1>6, <1>7 DEF Next

\* The inductive invariant holds throughout, whatever files are concatenated.
THEOREM Invariance == Spec => []IInv
BY InitIInv, NextIInv, PTL DEF Spec

\* The maps, the writer's state and the ghosts stay within their types: an entry
\* is filed under its own table and key.
THEOREM TypeCorrect == Spec => []TypeOK
<1>1. IInv => TypeOK
  BY DEF IInv
<1> QED
  BY <1>1, Invariance, PTL

\* mergeEntriesForRow never leaves an entry which a reader would misread, even
\* of files that contradict each other.
THEOREM KeptWellFormed == Spec => []KeptEntriesWellFormed
<1>1. IInv => KeptEntriesWellFormed
  BY DEF IInv
<1> QED
  BY <1>1, Invariance, PTL

\* Of files that apply one after the other, the entry kept for a row takes it in
\* one step from where they start to where they end.
THEOREM MergingComposes == Spec => []EntriesCompose
<1>1. IInv => EntriesCompose
  BY DEF IInv
<1> QED
  BY <1>1, Invariance, PTL

-----------------------------------------------------------------------------
(* Inverting *)

\* What is kept of a row is what InvertChangeset can invert.
LEMMA KeptInvertible ==
    ASSUME NEW t, NEW k, NEW e, EntryOf(t, k, e)
    PROVE  Invertible(e)
  BY DEF EntryOf, WellFormed, Invertible

\* The inverse of what is kept of each row leads from where the files end back
\* to where they start.
InverseComposes ==
    consistent =>
        \A t \in Tables : \A k \in KeysOf(t) :
            /\ Effective(InvertEntry(entries[t][k]), current[t][k])
            /\ RowAfter(InvertEntry(entries[t][k]), current[t][k]) = base[t][k]

\* ConcatChangesets followed by InvertChangeset undoes files that apply one
\* after the other, row by row.
THEOREM InvertingUndoes == Spec => []InverseComposes
<1>1. ASSUME IInv PROVE InverseComposes
  <2> SUFFICES ASSUME consistent, NEW t \in Tables, NEW k \in KeysOf(t)
               PROVE  /\ Effective(InvertEntry(entries[t][k]), current[t][k])
                      /\ RowAfter(InvertEntry(entries[t][k]), current[t][k]) = base[t][k]
    BY DEF InverseComposes
  <2> DEFINE e == entries[t][k]
  <2>1. k \in Keys /\ e # NoEntry
    BY DEF KeysOf
  <2>2. EntryOf(t, k, e)
    BY <1>1, <2>1, KeptEntry DEF IInv
  <2>3. base[t][k] \in Row \cup {Absent}
    BY <1>1, <2>1 DEF IInv, TypeOK, Database
  <2>4. Effective(e, base[t][k]) /\ current[t][k] = RowAfter(e, base[t][k])
    BY <1>1, <2>1 DEF IInv, EntriesCompose
  <2> HIDE DEF e
  <2>5. /\ Effective(InvertEntry(e), current[t][k])
        /\ RowAfter(InvertEntry(e), current[t][k]) = base[t][k]
    BY <2>2, <2>3, <2>4, KeptInvertible, InverseUndoesEntry
  <2> QED
    BY <2>5 DEF e
<1>2. IInv => InverseComposes
  BY <1>1
<1> QED
  BY <1>2, Invariance, PTL

-----------------------------------------------------------------------------
(* The output *)

InOutput(t, k) == \E i \in 1..Len(output) : output[i].table = t /\ output[i].pk = k

\* The row's turn to be written is still to come.
Outstanding(t, k) == t \in left \/ (t = writing /\ k \in unwritten)

\* The output holds the entry kept for a row once, when its turn is over.
OutputIsKept ==
    /\ phase = "read" => output = <<>>
    /\ \A i \in 1..Len(output) : \E t \in Tables : \E k \in KeysOf(t) :
        output[i] = entries[t][k]
    /\ \A i, j \in 1..Len(output) : SameRow(output[i], output[j]) => i = j
    /\ writing \notin left
    /\ phase \in {"write", "done"} =>
        \A t \in Tables : \A k \in KeysOf(t) : InOutput(t, k) <=> ~Outstanding(t, k)
    /\ phase = "done" => writing = NoTable /\ left = {}

LEMMA InitOutput == Init => OutputIsKept
  BY NoTableAssumption DEF Init, OutputIsKept

\* One more entry in the output.
LEMMA WriteEntryOutput ==
    ASSUME IInv, OutputIsKept, NEW k \in Keys, WriteEntry(k)
    PROVE  OutputIsKept'
<1> DEFINE e == entries[writing][k]
<1>1. /\ phase = "write" /\ writing # NoTable /\ k \in unwritten
      /\ output' = Append(output, e)
      /\ unwritten' = unwritten \ {k}
      /\ writing' = IF unwritten = {k} THEN NoTable ELSE writing
      /\ UNCHANGED <<phase, entries, left>>
  BY DEF WriteEntry
<1>2. writing \in Tables /\ left \subseteq Tables /\ output \in Seq(Entry) /\ k \in KeysOf(writing)
  BY <1>1 DEF IInv, TypeOK, WrittenAreKept
<1>3. e \in Entry /\ e.table = writing /\ e.pk = k
  BY <1>2 DEF IInv, TypeOK, KeysOf
<1> HIDE DEF e
<1>4. /\ Len(output) \in Nat /\ Len(output') = Len(output) + 1
      /\ \A i \in 1..Len(output) : output'[i] = output[i]
      /\ output'[Len(output) + 1] = e
  BY <1>1, <1>2, <1>3
<1>5. \A t \in Tables : KeysOf(t)' = KeysOf(t)
  BY <1>1 DEF KeysOf
<1>6. ~InOutput(writing, k)
  BY <1>1, <1>2 DEF OutputIsKept, Outstanding
<1>7. \A i \in 1..Len(output') : \E t \in Tables : \E l \in KeysOf(t)' :
        output'[i] = entries'[t][l]
  <2> TAKE i \in 1..Len(output')
  <2>1. CASE i \in 1..Len(output)
    <3>1. PICK t \in Tables : \E l \in KeysOf(t) : output[i] = entries[t][l]
      BY <2>1 DEF OutputIsKept
    <3> QED
      BY <1>1, <1>4, <1>5, <2>1, <3>1
  <2>2. CASE i = Len(output) + 1
    <3>1. output'[i] = entries'[writing][k]
      BY <1>1, <1>4, <2>2 DEF e
    <3> QED
      BY <1>2, <1>5, <3>1
  <2> QED
    BY <1>4, <2>1, <2>2
<1>8. \A i, j \in 1..Len(output') : SameRow(output'[i], output'[j]) => i = j
  <2>1. \A i \in 1..Len(output) : ~SameRow(output[i], e) /\ ~SameRow(e, output[i])
    BY <1>3, <1>6 DEF InOutput, SameRow
  <2> QED
    BY <1>4, <2>1 DEF OutputIsKept
<1>9. writing' \notin left'
  BY <1>1, <1>2, NoTableAssumption DEF OutputIsKept
<1>10. ASSUME NEW t \in Tables, NEW l \in KeysOf(t) PROVE InOutput(t, l)' <=> ~Outstanding(t, l)'
  <2>1. InOutput(t, l) <=> ~Outstanding(t, l)
    BY <1>1 DEF OutputIsKept
  <2>2. CASE t = writing /\ l = k
    <3>1. InOutput(t, l)'
      BY <1>3, <1>4, <2>2 DEF InOutput
    <3>2. ~Outstanding(t, l)'
      BY <1>1, <2>2 DEF Outstanding, OutputIsKept
    <3> QED
      BY <3>1, <3>2
  <2>3. CASE ~(t = writing /\ l = k)
    <3>1. InOutput(t, l)' = InOutput(t, l)
      BY <1>3, <1>4, <2>3 DEF InOutput
    <3>2. Outstanding(t, l)' = Outstanding(t, l)
      BY <1>1, <1>2, <2>3, NoTableAssumption DEF Outstanding
    <3> QED
      BY <2>1, <3>1, <3>2
  <2> QED
    BY <2>2, <2>3
<1> QED
  BY <1>1, <1>5, <1>7, <1>8, <1>9, <1>10 DEF OutputIsKept

\* The steps that write nothing.
LEMMA KeptOutput ==
    ASSUME OutputIsKept, UNCHANGED <<entries, writing, unwritten, left, output>>,
           \/ phase' = phase
           \/ phase' = "error"
           \/ phase = "write" /\ phase' = "done" /\ writing = NoTable /\ left = {}
    PROVE  OutputIsKept'
<1>1. \A t \in Tables : KeysOf(t)' = KeysOf(t)
  BY DEF KeysOf
<1>2. \A t \in Tables, k \in Keys : /\ InOutput(t, k)' = InOutput(t, k)
                                   /\ Outstanding(t, k)' = Outstanding(t, k)
  BY DEF InOutput, Outstanding
<1>3. \A t \in Tables : KeysOf(t) \subseteq Keys
  BY DEF KeysOf
<1> QED
  BY <1>1, <1>2, <1>3 DEF OutputIsKept

LEMMA NextOutput == IInv /\ OutputIsKept /\ [Next]_vars => OutputIsKept'
<1> SUFFICES ASSUME IInv, OutputIsKept, [Next]_vars PROVE OutputIsKept'
  OBVIOUS
<1>1. ASSUME NEW e \in Readable, ReadEntry(e) PROVE OutputIsKept'
  <2>1. phase = "read" /\ phase' = "read" /\ UNCHANGED file
    BY <1>1 DEF ReadEntry
  <2>2. output' = <<>> /\ Len(output') = 0 /\ writing' \notin left'
    BY <2>1 DEF OutputIsKept, file
  <2> QED
    BY <2>1, <2>2 DEF OutputIsKept
<1>2. CASE Fail
  <2>1. phase' = "error" /\ UNCHANGED <<entries, writing, unwritten, left, output>>
    BY <1>2 DEF Fail, file
  <2> QED
    BY <2>1, KeptOutput
<1>3. CASE StartWrite
  <2>1. /\ phase = "read" /\ phase' = "write" /\ output = <<>> /\ output' = <<>>
        /\ left' = {t \in Tables : KeysOf(t) # {}}
        /\ entries' = entries /\ writing' = writing /\ writing = NoTable
    BY <1>3 DEF StartWrite, OutputIsKept, IInv, WrittenAreKept
  <2>2. Len(output') = 0
    BY <2>1
  <2>3. ASSUME NEW t \in Tables, NEW k \in KeysOf(t)' PROVE InOutput(t, k)' <=> ~Outstanding(t, k)'
    <3>1. k \in KeysOf(t)
      BY <2>1 DEF KeysOf
    <3>2. Outstanding(t, k)'
      BY <2>1, <3>1 DEF Outstanding
    <3>3. ~InOutput(t, k)'
      BY <2>2 DEF InOutput
    <3> QED
      BY <3>2, <3>3 DEF InOutput, Outstanding
  <2> QED
    BY <2>1, <2>2, <2>3, NoTableAssumption DEF OutputIsKept
<1>4. ASSUME NEW t \in Tables, BeginTable(t) PROVE OutputIsKept'
  <2>1. /\ phase = "write" /\ phase' = "write" /\ writing = NoTable /\ t \in left
        /\ writing' = t /\ unwritten' = KeysOf(t) /\ left' = left \ {t}
        /\ entries' = entries /\ output' = output
    BY <1>4 DEF BeginTable, ghost
  <2>2. ASSUME NEW u \in Tables, NEW k \in KeysOf(u)' PROVE InOutput(u, k)' <=> ~Outstanding(u, k)'
    <3>1. k \in KeysOf(u) /\ InOutput(u, k)' = InOutput(u, k)
      BY <2>1 DEF KeysOf, InOutput
    <3>2. Outstanding(u, k)' = Outstanding(u, k)
      BY <2>1, <3>1, NoTableAssumption DEF Outstanding
    <3> QED
      BY <2>1, <3>1, <3>2 DEF OutputIsKept
  <2>3. \A u \in Tables : KeysOf(u)' = KeysOf(u)
    BY <2>1 DEF KeysOf
  <2> QED
    BY <2>1, <2>2, <2>3 DEF OutputIsKept
<1>5. ASSUME NEW k \in Keys, WriteEntry(k) PROVE OutputIsKept'
  BY <1>5, WriteEntryOutput
<1>6. CASE CloseOutput
  <2>1. /\ phase = "write" /\ phase' = "done" /\ writing = NoTable /\ left = {}
        /\ UNCHANGED <<entries, writing, unwritten, left, output>>
    BY <1>6 DEF CloseOutput, file
  <2> QED
    BY <2>1, KeptOutput
<1>7. CASE UNCHANGED vars
  <2>1. UNCHANGED <<phase, entries, writing, unwritten, left, output>>
    BY <1>7 DEF vars, file
  <2> QED
    BY <2>1, KeptOutput
<1> QED
  BY <1>1, <1>2, <1>3, <1>4, <1>5, <1>6, <1>7 DEF Next

\* A finished output of consistent files is a log of one entry per row, each of
\* which would take effect at the start.
LEMMA OutputOfDistinctRows ==
    ASSUME IInv, OutputIsKept, phase = "done", consistent
    PROVE  /\ output \in Seq(Entry) /\ base \in Database /\ current \in Database
           /\ \A i \in 1..Len(output) : Invertible(output[i]) /\ TakesEffect(output[i], base)
           /\ \A i, j \in 1..Len(output) : SameRow(output[i], output[j]) => i = j
<1>1. output \in Seq(Entry) /\ base \in Database /\ current \in Database
  BY DEF IInv, TypeOK
<1>2. ASSUME NEW i \in 1..Len(output)
      PROVE  Invertible(output[i]) /\ TakesEffect(output[i], base)
  <2> DEFINE e == output[i]
  <2>1. e.table \in Tables /\ e.pk \in KeysOf(e.table) /\ e = entries[e.table][e.pk]
    BY DEF OutputIsKept, IInv, TypeOK, KeysOf
  <2> HIDE DEF e
  <2>2. e.pk \in Keys /\ e # NoEntry
    BY <2>1 DEF KeysOf
  <2>3. EntryOf(e.table, e.pk, e)
    BY <2>1, <2>2, KeptEntry DEF IInv
  <2>4. /\ Effective(e, base[e.table][e.pk])
        /\ current[e.table][e.pk] = RowAfter(e, base[e.table][e.pk])
    BY <2>1, <2>2 DEF IInv, EntriesCompose
  <2>5. current[e.table][e.pk] \in Row \cup {Absent}
    BY <1>1, <2>1, <2>2 DEF Database
  <2>6. TakesEffect(e, base)
    BY <2>1, <2>2, <2>4, <2>5 DEF TakesEffect
  <2> QED
    BY <2>3, <2>6, KeptInvertible DEF e
<1> QED
  BY <1>1, <1>2 DEF OutputIsKept

LEMMA OutputReplays ==
    ASSUME IInv, OutputIsKept, phase = "done", consistent
    PROVE  Replay(output, base) = current
<1>1. Len(output) \in Nat /\ base \in Database /\ current \in Database
  BY OutputOfDistinctRows
<1> DEFINE is == Replay(output, base)
<1>2. RowsAfter(output, base, Len(output), is)
  BY <1>1, OutputOfDistinctRows, ReplayOfDistinctRows
<1> HIDE DEF is
<1>3. ASSUME NEW t \in Tables, NEW k \in Keys PROVE is[t][k] = current[t][k]
  <2>1. CASE entries[t][k] = NoEntry
    <3>1. About(output, Len(output), t, k) = {}
      BY <2>1 DEF About, OutputIsKept, KeysOf, IInv, TypeOK
    <3>2. current[t][k] = base[t][k]
      BY <2>1 DEF IInv, EntriesCompose
    <3> QED
      BY <1>2, <3>1, <3>2 DEF RowsAfter
  <2>2. CASE entries[t][k] # NoEntry
    <3>1. k \in KeysOf(t)
      BY <2>2 DEF KeysOf
    <3>2. ~Outstanding(t, k)
      BY NoTableAssumption DEF OutputIsKept, Outstanding
    <3>3. PICK i \in 1..Len(output) : output[i].table = t /\ output[i].pk = k
      BY <3>1, <3>2 DEF OutputIsKept, InOutput
    <3>4. i \in About(output, Len(output), t, k) /\ output[i] = entries[t][k]
      BY <3>3 DEF About, OutputIsKept, IInv, TypeOK, KeysOf
    <3>5. is[t][k] = RowAfter(entries[t][k], base[t][k])
      BY <1>2, <3>4 DEF RowsAfter
    <3> QED
      BY <2>2, <3>5 DEF IInv, EntriesCompose
  <2> QED
    BY <2>1, <2>2
<1> QED
  BY <1>1, <1>2, <1>3, DatabasesAreFunctions DEF RowsAfter, is

\* What CloseOutput leaves is what the maps held: every row that was kept, once,
\* with the entry kept for it, however the map loops run.
THEOREM OutputInvariance == Spec => []OutputIsKept
BY InitOutput, NextOutput, Invariance, PTL DEF Spec

\* "The same as applying the input files sequentially": for files of any length
\* that apply one after the other, and in whatever order the maps are walked,
\* the output leads where they lead.
THEOREM ConcatenationEquivalent == Spec => []OutputEquivalent
<1>1. IInv /\ OutputIsKept => OutputEquivalent
  BY OutputReplays DEF OutputEquivalent
<1> QED
  BY <1>1, Invariance, OutputInvariance, PTL

\* InvertChangeset of the output leads back to where the files start.
THEOREM InversionRestores == Spec => []InverseRestoresBase
<1>1. ASSUME IInv, OutputIsKept, phase = "done", consistent
      PROVE  Replay(InvertChangeset(output), current) = base
  BY <1>1, OutputReplays, OutputOfDistinctRows, InverseReplays
<1>2. IInv /\ OutputIsKept => InverseRestoresBase
  BY <1>1 DEF InverseRestoresBase
<1> QED
  BY <1>2, Invariance, OutputInvariance, PTL
=============================================================================
