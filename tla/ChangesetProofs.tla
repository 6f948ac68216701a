--------------------------- MODULE ChangesetProofs ---------------------------
(***************************************************************************)
(* What executing a log, entry by entry, makes of a database: facts about  *)
(* Replay for every log, by induction over its length.  The induction is   *)
(* on a set of naturals, those for which a statement holds.  The last part *)
(* is about entries executed in another order than the log's.              *)
(***************************************************************************)
EXTENDS Changeset, TLAPS, WellFoundedInduction, FiniteSetTheorems

\* Induction over the naturals.
LEMMA AllNaturals ==
    ASSUME NEW T, 0 \in T, \A n \in Nat : n \in T => n + 1 \in T
    PROVE  Nat \subseteq T
<1> DEFINE B == {n \in Nat : n \notin T}
           R == OpToRel(<, Nat)
<1>1. SUFFICES ASSUME B # {} PROVE FALSE
  OBVIOUS
<1>2. PICK m \in B : \A n \in B : ~(<<n, m>> \in R)
  <2>1. B \subseteq Nat
    OBVIOUS
  <2> HIDE DEF B, R
  <2> QED
    BY <1>1, <2>1, NatLessThanWellFounded, WFMin DEF R
<1>3. \A n \in B : ~(n < m)
  BY <1>2 DEF OpToRel
<1>4. m \in Nat /\ m # 0 /\ m \notin T
  OBVIOUS
<1>5. m - 1 \in Nat /\ m - 1 < m /\ (m - 1) + 1 = m
  BY <1>4
<1>6. m - 1 \in T
  BY <1>3, <1>5
<1> QED
  BY <1>4, <1>5, <1>6

\* The same up to a bound.
LEMMA UpTo ==
    ASSUME NEW N \in Nat, NEW T, 0 \in T, \A n \in 0..(N - 1) : n \in T => n + 1 \in T
    PROVE  0..N \subseteq T
<1> DEFINE U == {n \in Nat : n <= N => n \in T}
<1>1. 0 \in U /\ \A n \in Nat : n \in U => n + 1 \in U
  OBVIOUS
<1> HIDE DEF U
<1>2. Nat \subseteq U
  BY <1>1, AllNaturals
<1> QED
  BY <1>2 DEF U

-----------------------------------------------------------------------------
(* The recursion of Stages *)

StagesUpTo(log, db, N, stage) ==
    stage = [i \in 0..N |-> IF i = 0 THEN db ELSE DatabaseAfter(log[i], stage[i - 1])]

LEMMA StagesExist ==
    ASSUME NEW log, NEW db, NEW N \in Nat
    PROVE  \E stage : StagesUpTo(log, db, N, stage)
<1> DEFINE T == {n \in Nat : \E stage : StagesUpTo(log, db, n, stage)}
<1>1. 0 \in T
  <2> DEFINE first == [i \in 0..0 |-> db]
  <2>1. StagesUpTo(log, db, 0, first)
    BY DEF StagesUpTo
  <2> QED
    BY <2>1
<1>2. ASSUME NEW n \in Nat, n \in T PROVE n + 1 \in T
  <2>1. PICK f : StagesUpTo(log, db, n, f)
    BY <1>2
  <2> DEFINE g == [i \in 0..(n + 1) |-> IF i = n + 1 THEN DatabaseAfter(log[n + 1], f[n])
                                        ELSE f[i]]
  <2>2. g[n + 1] = DatabaseAfter(log[n + 1], f[n]) /\ \A i \in 0..n : g[i] = f[i]
    OBVIOUS
  <2>3. f = [i \in 0..n |-> IF i = 0 THEN db ELSE DatabaseAfter(log[i], f[i - 1])]
    BY <2>1 DEF StagesUpTo
  <2>4. ASSUME NEW i \in 0..(n + 1)
        PROVE  g[i] = IF i = 0 THEN db ELSE DatabaseAfter(log[i], g[i - 1])
    <3>1. CASE i = n + 1
      BY <2>2, <3>1
    <3>2. CASE i = 0
      BY <2>2, <2>3, <3>2
    <3>3. CASE i \in 1..n
      <4>1. i - 1 \in 0..n /\ i \in 0..n /\ i # 0
        BY <3>3
      <4>2. f[i] = DatabaseAfter(log[i], f[i - 1])
        BY <2>3, <4>1
      <4> QED
        BY <2>2, <4>1, <4>2
    <3> QED
      BY <3>1, <3>2, <3>3
  <2>5. StagesUpTo(log, db, n + 1, g)
    <3>1. g = [i \in 0..(n + 1) |-> g[i]]
      OBVIOUS
    <3> HIDE DEF g
    <3> QED
      BY <2>4, <3>1 DEF StagesUpTo
  <2> QED
    BY <2>5
<1> HIDE DEF T
<1>3. Nat \subseteq T
  BY <1>1, <1>2, AllNaturals
<1> QED
  BY <1>3 DEF T

LEMMA StagesDef ==
    ASSUME NEW log, Len(log) \in Nat, NEW db
    PROVE  StagesUpTo(log, db, Len(log), Stages(log, db))
<1> DEFINE N == Len(log)
<1>1. \E stage : StagesUpTo(log, db, N, stage)
  BY StagesExist
<1>2. Stages(log, db) = CHOOSE stage : StagesUpTo(log, db, N, stage)
  BY DEF Stages, StagesUpTo
<1> QED
  BY <1>1, <1>2

\* The equations of a replay: where it starts, and one entry more.
LEMMA StageEquations ==
    ASSUME NEW log, Len(log) \in Nat, NEW db
    PROVE  /\ Stages(log, db)[0] = db
           /\ \A i \in 1..Len(log) :
                Stages(log, db)[i] = DatabaseAfter(log[i], Stages(log, db)[i - 1])
<1> DEFINE s == Stages(log, db)
<1>1. s = [i \in 0..Len(log) |-> IF i = 0 THEN db ELSE DatabaseAfter(log[i], s[i - 1])]
  BY StagesDef DEF StagesUpTo
<1> HIDE DEF s
<1>2. s[0] = db
  BY <1>1
<1>3. ASSUME NEW i \in 1..Len(log) PROVE s[i] = DatabaseAfter(log[i], s[i - 1])
  <2>1. i \in 0..Len(log) /\ i # 0
    OBVIOUS
  <2> QED
    BY <1>1, <2>1
<1> QED
  BY <1>2, <1>3 DEF s

-----------------------------------------------------------------------------
(* One entry, and a log that names every row at most once *)

SameRow(e, f) == e.table = f.table /\ e.pk = f.pk

\* A row an entry can be about, and the entry takes effect on it.
TakesEffect(e, db) ==
    /\ e.table \in Tables /\ e.pk \in Keys
    /\ Effective(e, db[e.table][e.pk])
    /\ RowAfter(e, db[e.table][e.pk]) \in Row \cup {Absent}

LEMMA DatabaseAfterRow ==
    ASSUME NEW db \in Database, NEW e, TakesEffect(e, db)
    PROVE  /\ DatabaseAfter(e, db) \in Database
           /\ \A t \in Tables, k \in Keys :
                DatabaseAfter(e, db)[t][k] =
                    IF t = e.table /\ k = e.pk THEN RowAfter(e, db[t][k]) ELSE db[t][k]
<1> DEFINE r == RowAfter(e, db[e.table][e.pk])
<1>1. db # Absent
  BY AbsentAssumption
<1>2. e.table \in Tables /\ e.pk \in Keys /\ r \in Row \cup {Absent}
  BY DEF TakesEffect
<1>3. DatabaseAfter(e, db) = [db EXCEPT ![e.table][e.pk] = r]
  BY <1>1, <1>2 DEF DatabaseAfter, TakesEffect, Database
<1> HIDE DEF r
<1>4. [db EXCEPT ![e.table][e.pk] = r] \in Database
  BY <1>2 DEF Database
<1>5. ASSUME NEW t \in Tables, NEW k \in Keys
      PROVE  [db EXCEPT ![e.table][e.pk] = r][t][k] =
                IF t = e.table /\ k = e.pk THEN r ELSE db[t][k]
  BY <1>2 DEF Database
<1> QED
  BY <1>3, <1>4, <1>5 DEF r

\* The entries of the first n that are about a row.
About(log, n, t, k) == {i \in 1..n : log[i].table = t /\ log[i].pk = k}

\* After n entries the rows they name are as their one entry leaves them, and
\* the others as they were.
RowsAfter(log, db, n, d) ==
    /\ d \in Database
    /\ \A t \in Tables, k \in Keys :
        /\ About(log, n, t, k) = {} => d[t][k] = db[t][k]
        /\ \A i \in About(log, n, t, k) : d[t][k] = RowAfter(log[i], db[t][k])

\* One more entry, of a row no earlier entry names.
LEMMA OneMoreRow ==
    ASSUME NEW log, NEW db \in Database, NEW n \in Nat, NEW d, RowsAfter(log, db, n, d),
           \A i \in 1..n : ~SameRow(log[i], log[n + 1]),
           TakesEffect(log[n + 1], db)
    PROVE  RowsAfter(log, db, n + 1, DatabaseAfter(log[n + 1], d))
<1> DEFINE e == log[n + 1]
           d2 == DatabaseAfter(e, d)
<1>1. About(log, n, e.table, e.pk) = {}
  BY DEF About, SameRow
<1>2. TakesEffect(e, db) /\ n + 1 \in 1..(n + 1) /\ 1..(n + 1) = 1..n \cup {n + 1}
  OBVIOUS
<1>3. \A t \in Tables, k \in Keys :
        IF t = e.table /\ k = e.pk THEN About(log, n + 1, t, k) = {n + 1}
        ELSE About(log, n + 1, t, k) = About(log, n, t, k)
  BY <1>1, <1>2 DEF About
<1> HIDE DEF e
<1>4. d \in Database /\ d[e.table][e.pk] = db[e.table][e.pk] /\ e.table \in Tables /\ e.pk \in Keys
  BY <1>1, <1>2 DEF RowsAfter, TakesEffect
<1>5. TakesEffect(e, d)
  BY <1>2, <1>4 DEF TakesEffect
<1>6. /\ d2 \in Database
      /\ \A t \in Tables, k \in Keys :
            d2[t][k] = IF t = e.table /\ k = e.pk THEN RowAfter(e, d[t][k]) ELSE d[t][k]
  BY <1>4, <1>5, DatabaseAfterRow
<1> HIDE DEF d2
<1>7. ASSUME NEW t \in Tables, NEW k \in Keys
      PROVE  /\ About(log, n + 1, t, k) = {} => d2[t][k] = db[t][k]
             /\ \A i \in About(log, n + 1, t, k) : d2[t][k] = RowAfter(log[i], db[t][k])
  <2>1. CASE t = e.table /\ k = e.pk
    <3>1. About(log, n + 1, t, k) = {n + 1}
      BY <1>3, <2>1
    <3>2. d2[t][k] = RowAfter(e, db[t][k])
      BY <1>4, <1>6, <2>1
    <3> QED
      BY <3>1, <3>2 DEF e
  <2>2. CASE ~(t = e.table /\ k = e.pk)
    <3>1. About(log, n + 1, t, k) = About(log, n, t, k)
      BY <1>3, <2>2
    <3>2. d2[t][k] = d[t][k]
      BY <1>6, <2>2
    <3> QED
      BY <3>1, <3>2 DEF RowsAfter
  <2> QED
    BY <2>1, <2>2
<1> QED
  BY <1>6, <1>7 DEF RowsAfter, d2, e

LEMMA NothingExecuted == ASSUME NEW log, NEW db \in Database PROVE RowsAfter(log, db, 0, db)
<1>1. \A t \in Tables, k \in Keys : About(log, 0, t, k) = {}
  BY DEF About
<1> QED
  BY <1>1 DEF RowsAfter

\* A log of one entry per row whose entries would each take effect at the start
\* replays to the end, in whatever order it has them.
THEOREM ReplayOfDistinctRows ==
    ASSUME NEW log, Len(log) \in Nat, NEW db \in Database,
           \A i \in 1..Len(log) : TakesEffect(log[i], db),
           \A i, j \in 1..Len(log) : SameRow(log[i], log[j]) => i = j
    PROVE  RowsAfter(log, db, Len(log), Replay(log, db))
<1> DEFINE stage == Stages(log, db)
           N == Len(log)
           T == {n \in 0..N : RowsAfter(log, db, n, stage[n])}
<1>1. 0 \in T
  <2>1. stage[0] = db
    BY StageEquations
  <2> HIDE DEF stage
  <2> QED
    BY <2>1, NothingExecuted
<1>2. ASSUME NEW n \in 0..(N - 1), n \in T PROVE n + 1 \in T
  <2>1. n \in Nat /\ n + 1 \in 1..N /\ n + 1 \in 0..N /\ (n + 1) - 1 = n
    OBVIOUS
  <2>2. stage[n + 1] = DatabaseAfter(log[n + 1], stage[n])
    BY <2>1, StageEquations
  <2>3. \A i \in 1..n : ~SameRow(log[i], log[n + 1])
    BY <2>1
  <2>4. TakesEffect(log[n + 1], db) /\ RowsAfter(log, db, n, stage[n])
    BY <1>2, <2>1
  <2> HIDE DEF stage
  <2>5. RowsAfter(log, db, n + 1, DatabaseAfter(log[n + 1], stage[n]))
    BY <2>1, <2>3, <2>4, OneMoreRow
  <2> QED
    BY <2>1, <2>2, <2>5
<1> HIDE DEF T
<1>3. 0..N \subseteq T
  BY <1>1, <1>2, UpTo
<1>4. N \in T
  BY <1>3
<1> QED
  BY <1>4 DEF T, Replay

-----------------------------------------------------------------------------
(* An entry and its inverse *)

\* What CreateChangeset writes, and ConcatChangesets: an insert or a delete
\* carries the whole row, an update an old and a new value per column it names.
Invertible(e) ==
    /\ e \in Entry
    /\ e.op = "insert" => e.new \in Row
    /\ e.op = "delete" => e.old \in Row
    /\ e.op = "update" =>
        /\ e.new # Blank
        /\ \A c \in Cols : (e.old[c] = Undefined) = (e.new[c] = Undefined)

LEMMA RowsAreFunctions ==
    ASSUME NEW r \in Row, NEW s \in Row, \A c \in Cols : r[c] = s[c]
    PROVE  r = s
  BY DEF Row

LEMMA DefinedInRow ==
    ASSUME NEW r \in Row
    PROVE  r # Absent /\ \A c \in Cols : r[c] \in Vals /\ r[c] # Undefined
  BY AbsentAssumption, UndefinedAssumption DEF Row

\* The kinds of entries InvertEntry makes.
LEMMA InverseFields ==
    ASSUME NEW e \in Entry
    PROVE  /\ InvertEntry(e).table = e.table /\ InvertEntry(e).pk = e.pk
           /\ e.op = "insert" => /\ InvertEntry(e).op = "delete" /\ InvertEntry(e).old = e.new
                                 /\ InvertEntry(e).new = Blank
           /\ e.op = "delete" => /\ InvertEntry(e).op = "insert" /\ InvertEntry(e).new = e.old
                                 /\ InvertEntry(e).old = Blank
           /\ e.op = "update" => /\ InvertEntry(e).op = "update" /\ InvertEntry(e).new = e.old
                                 /\ InvertEntry(e).old = e.new
           /\ InvertEntry(e) \in Entry
<1>1. Blank \in EntryValues
  BY DEF Blank, EntryValues
<1>2. e.op \in {"insert", "delete", "update"}
  BY DEF Entry, Operations
<1>3. CASE e.op = "insert"
  BY <1>1, <1>3 DEF InvertEntry, Entry, Operations
<1>4. CASE e.op = "delete"
  BY <1>1, <1>4 DEF InvertEntry, Entry, Operations
<1>5. CASE e.op = "update"
  BY <1>1, <1>5 DEF InvertEntry, Entry, Operations
<1> QED
  BY <1>2, <1>3, <1>4, <1>5

LEMMA InverseUndoesEntry ==
    ASSUME NEW e, Invertible(e), NEW row \in Row \cup {Absent}, Effective(e, row)
    PROVE  /\ RowAfter(e, row) \in Row \cup {Absent}
           /\ Effective(InvertEntry(e), RowAfter(e, row))
           /\ RowAfter(InvertEntry(e), RowAfter(e, row)) = row
<1> DEFINE inv == InvertEntry(e)
<1>1. e \in Entry /\ e.op \in {"insert", "delete", "update"}
  BY DEF Invertible, Entry, Operations
<1>2. e.old \in EntryValues /\ e.new \in EntryValues
  BY <1>1 DEF Entry
<1>3. CASE e.op = "insert"
  <2>1. e.new \in Row /\ row = Absent /\ RowAfter(e, row) = e.new
    BY <1>3 DEF Invertible, Effective, RowAfter
  <2>2. inv.op = "delete" /\ inv.old = e.new
    BY <1>1, <1>3, InverseFields
  <2> HIDE DEF inv
  <2>3. Matches(inv, e.new)
    BY <2>1, <2>2, DefinedInRow DEF Matches
  <2>4. Effective(inv, e.new) /\ RowAfter(inv, e.new) = Absent
    BY <2>2, <2>3 DEF Effective, RowAfter
  <2> QED
    BY <2>1, <2>4 DEF inv
<1>4. CASE e.op = "delete"
  <2>1. e.old \in Row /\ Matches(e, row) /\ RowAfter(e, row) = Absent
    BY <1>4 DEF Invertible, Effective, RowAfter
  <2>2. inv.op = "insert" /\ inv.new = e.old
    BY <1>1, <1>4, InverseFields
  <2> HIDE DEF inv
  <2>3. row \in Row /\ \A c \in Cols : row[c] = e.old[c]
    BY <2>1, DefinedInRow DEF Matches
  <2>4. row = e.old
    BY <2>1, <2>3, RowsAreFunctions
  <2>5. Effective(inv, Absent) /\ RowAfter(inv, Absent) = row
    BY <2>2, <2>4 DEF Effective, RowAfter
  <2> QED
    BY <2>1, <2>5 DEF inv
<1>5. CASE e.op = "update"
  <2>1. /\ Matches(e, row) /\ e.new # Blank
        /\ \A c \in Cols : (e.old[c] = Undefined) = (e.new[c] = Undefined)
        /\ RowAfter(e, row) = Overlay(e.new, row)
    BY <1>5 DEF Invertible, Effective, RowAfter
  <2>2. inv.op = "update" /\ inv.new = e.old /\ inv.old = e.new
    BY <1>1, <1>5, InverseFields
  <2> HIDE DEF inv
  <2>3. row \in Row /\ \A c \in Cols : e.old[c] # Undefined => row[c] = e.old[c]
    BY <2>1 DEF Matches
  <2> DEFINE is == Overlay(e.new, row)
  <2>4. is \in Row /\ \A c \in Cols : is[c] = IF e.new[c] = Undefined THEN row[c] ELSE e.new[c]
    BY <1>2, <2>3 DEF Overlay, Row, EntryValues
  <2>5. e.old # Blank
    <3>1. PICK c \in Cols : e.new[c] # Undefined
      BY <1>2, <2>1 DEF Blank, EntryValues
    <3>2. e.old[c] # Undefined
      BY <2>1, <3>1
    <3> QED
      BY <3>2 DEF Blank
  <2> DEFINE back == Overlay(e.old, is)
  <2>6. back \in Row /\ \A c \in Cols : back[c] = IF e.old[c] = Undefined THEN is[c] ELSE e.old[c]
    <3> HIDE DEF is
    <3> QED
      BY <1>2, <2>4 DEF Overlay, Row, EntryValues
  <2> HIDE DEF is, back
  <2>7. back = row
    <3>1. \A c \in Cols : back[c] = row[c]
      BY <2>1, <2>3, <2>4, <2>6
    <3> QED
      BY <2>3, <2>6, <3>1, RowsAreFunctions
  <2>8. Matches(inv, is)
    BY <2>2, <2>4, DefinedInRow DEF Matches
  <2>9. Effective(inv, is) /\ RowAfter(inv, is) = back
    BY <2>2, <2>5, <2>8 DEF Effective, RowAfter, back
  <2> QED
    BY <2>1, <2>4, <2>7, <2>9 DEF inv, is
<1> QED
  BY <1>1, <1>3, <1>4, <1>5

LEMMA WellFormedInvertible ==
    ASSUME NEW e \in Entry, WellFormed(e)
    PROVE  Invertible(e)
  BY DEF WellFormed, Invertible

LEMMA InverseInvertible ==
    ASSUME NEW e, Invertible(e)
    PROVE  Invertible(InvertEntry(e))
<1>1. e \in Entry /\ e.op \in {"insert", "delete", "update"}
  BY DEF Invertible, Entry, Operations
<1>2. CASE e.op = "insert"
  BY <1>1, <1>2, InverseFields DEF Invertible
<1>3. CASE e.op = "delete"
  BY <1>1, <1>3, InverseFields DEF Invertible
<1>4. CASE e.op = "update"
  <2>1. e.old # Blank
    <3>1. e.new # Blank /\ \A c \in Cols : (e.old[c] = Undefined) = (e.new[c] = Undefined)
      BY <1>4 DEF Invertible
    <3>2. PICK c \in Cols : e.new[c] # Undefined
      BY <1>1, <3>1 DEF Blank, Entry, EntryValues
    <3> QED
      BY <3>1, <3>2 DEF Blank
  <2> QED
    BY <1>1, <1>4, <2>1, InverseFields DEF Invertible
<1> QED
  BY <1>1, <1>2, <1>3, <1>4

\* The other way round: a log of one entry per row that replays to the end has
\* entries that would each take effect at the start.
THEOREM DistinctRowsTakeEffect ==
    ASSUME NEW log, Len(log) \in Nat, NEW db \in Database, Replay(log, db) # Absent,
           \A i \in 1..Len(log) : Invertible(log[i]),
           \A i, j \in 1..Len(log) : SameRow(log[i], log[j]) => i = j
    PROVE  \A i \in 1..Len(log) : TakesEffect(log[i], db)
<1> DEFINE stage == Stages(log, db)
           N == Len(log)
           Effects(n) == \A i \in 1..n : TakesEffect(log[i], db)
           T == {n \in 0..N : RowsAfter(log, db, n, stage[n]) /\ Effects(n)}
<1>1. ASSUME NEW m \in 0..N PROVE stage[m] # Absent
  <2> DEFINE U == {n \in 0..N : n >= m /\ stage[m] = Absent => stage[n] = Absent}
  <2>1. 0 \in U
    <3>1. 0 >= m => m = 0
      OBVIOUS
    <3> QED
      BY <3>1
  <2>2. ASSUME NEW n \in 0..(N - 1), n \in U PROVE n + 1 \in U
    <3>1. n + 1 \in 1..N /\ n + 1 \in 0..N /\ (n + 1) - 1 = n
      OBVIOUS
    <3>2. stage[n + 1] = DatabaseAfter(log[n + 1], stage[n])
      BY <3>1, StageEquations
    <3>3. stage[n] = Absent => stage[n + 1] = Absent
      BY <3>2 DEF DatabaseAfter
    <3> HIDE DEF stage
    <3>4. n + 1 >= m => n >= m \/ n + 1 = m
      BY <3>1
    <3> QED
      BY <2>2, <3>1, <3>3, <3>4
  <2> HIDE DEF U
  <2>3. 0..N \subseteq U
    <3> HIDE DEF stage
    <3> QED
      BY <2>1, <2>2, UpTo
  <2>4. N >= m
    OBVIOUS
  <2> QED
    BY <2>3, <2>4 DEF U, Replay
<1>2. 0 \in T
  <2>1. stage[0] = db
    BY StageEquations
  <2> HIDE DEF stage
  <2> QED
    BY <2>1, NothingExecuted
<1>3. ASSUME NEW n \in 0..(N - 1), n \in T PROVE n + 1 \in T
  <2> DEFINE e == log[n + 1]
             row == db[e.table][e.pk]
  <2>1. n \in Nat /\ n + 1 \in 1..N /\ n + 1 \in 0..N /\ (n + 1) - 1 = n
    OBVIOUS
  <2>2. stage[n + 1] = DatabaseAfter(e, stage[n])
    BY <2>1, StageEquations
  <2>3. \A i \in 1..n : ~SameRow(log[i], log[n + 1])
    BY <2>1
  <2>4. RowsAfter(log, db, n, stage[n]) /\ Effects(n)
    BY <1>3
  <2>5. stage[n] # Absent /\ stage[n + 1] # Absent
    BY <1>1, <2>1
  <2>6. Invertible(e) /\ e.table \in Tables
    BY <2>1 DEF Invertible, Entry
  <2> HIDE DEF stage
  <2>7. e.pk \in Keys /\ Effective(e, stage[n][e.table][e.pk])
    BY <2>2, <2>5 DEF DatabaseAfter
  <2>8. About(log, n, e.table, e.pk) = {}
    BY <2>3 DEF About, SameRow
  <2> HIDE DEF e
  <2>9. stage[n][e.table][e.pk] = row /\ row \in Row \cup {Absent}
    BY <2>4, <2>6, <2>7, <2>8 DEF RowsAfter, Database
  <2>10. TakesEffect(e, db)
    <3>1. Effective(e, row)
      BY <2>7, <2>9
    <3> HIDE DEF row
    <3>2. RowAfter(e, row) \in Row \cup {Absent}
      BY <2>6, <2>9, <3>1, InverseUndoesEntry
    <3> QED
      BY <2>6, <2>7, <3>1, <3>2 DEF TakesEffect, row
  <2>11. RowsAfter(log, db, n + 1, DatabaseAfter(log[n + 1], stage[n]))
    BY <2>1, <2>3, <2>4, <2>10, OneMoreRow DEF e
  <2>12. Effects(n + 1)
    <3>1. 1..(n + 1) = 1..n \cup {n + 1}
      BY <2>1
    <3> QED
      BY <2>4, <2>10, <3>1 DEF e
  <2> QED
    BY <2>1, <2>2, <2>11, <2>12 DEF e
<1> HIDE DEF T
<1>4. N \in T
  BY <1>2, <1>3, UpTo
<1> QED
  BY <1>4 DEF T

LEMMA DatabasesAreFunctions ==
    ASSUME NEW d \in Database, NEW db \in Database,
           \A t \in Tables, k \in Keys : d[t][k] = db[t][k]
    PROVE  d = db
<1>1. ASSUME NEW t \in Tables PROVE d[t] = db[t]
  BY DEF Database
<1> QED
  BY <1>1 DEF Database

\* Undoing a log of one entry per row, each row by the inverse of its entry and
\* in the order of the log, leads back.
THEOREM InverseReplays ==
    ASSUME NEW log \in Seq(Entry), NEW db \in Database,
           \A i \in 1..Len(log) : Invertible(log[i]) /\ TakesEffect(log[i], db),
           \A i, j \in 1..Len(log) : SameRow(log[i], log[j]) => i = j
    PROVE  Replay(InvertChangeset(log), Replay(log, db)) = db
<1> DEFINE is == Replay(log, db)
           inv == InvertChangeset(log)
           N == Len(log)
<1>1. N \in Nat /\ inv = [i \in 1..N |-> InvertEntry(log[i])]
  BY DEF InvertChangeset
<1>2. Len(inv) = N /\ \A i \in 1..N : inv[i] = InvertEntry(log[i])
  <2>1. inv \in Seq(Entry)
    BY <1>1, InverseFields
  <2> HIDE DEF inv
  <2> QED
    BY <1>1, <2>1
<1>3. RowsAfter(log, db, N, is)
  BY <1>1, ReplayOfDistinctRows
<1> HIDE DEF is, inv, N
<1>4. ASSUME NEW i \in 1..N
      PROVE  /\ inv[i].table = log[i].table /\ inv[i].pk = log[i].pk
             /\ TakesEffect(inv[i], is)
             /\ RowAfter(inv[i], is[inv[i].table][inv[i].pk]) = db[inv[i].table][inv[i].pk]
  <2> DEFINE e == log[i]
             was == db[e.table][e.pk]
  <2>1. Invertible(e) /\ TakesEffect(e, db) /\ inv[i] = InvertEntry(e)
    BY <1>2 DEF N
  <2>2. e.table \in Tables /\ e.pk \in Keys /\ Effective(e, was)
    BY <2>1 DEF TakesEffect
  <2>3. was \in Row \cup {Absent}
    BY <2>2 DEF Database
  <2>4. inv[i].table = e.table /\ inv[i].pk = e.pk
    BY <2>1, InverseFields DEF Invertible
  <2>5. i \in About(log, N, e.table, e.pk)
    BY DEF About
  <2> HIDE DEF e
  <2>6. is[e.table][e.pk] = RowAfter(e, was)
    BY <1>3, <2>2, <2>5 DEF RowsAfter, e
  <2> HIDE DEF was
  <2>7. /\ Effective(inv[i], is[e.table][e.pk])
        /\ RowAfter(inv[i], is[e.table][e.pk]) = was
    BY <2>1, <2>2, <2>3, <2>6, InverseUndoesEntry
  <2>8. TakesEffect(inv[i], is)
    BY <2>2, <2>3, <2>4, <2>7 DEF TakesEffect
  <2> QED
    BY <2>4, <2>7, <2>8 DEF e, was
<1>5. is \in Database
  BY <1>3 DEF RowsAfter
<1>6. \A i, j \in 1..N : SameRow(inv[i], inv[j]) => i = j
  BY <1>4 DEF SameRow, N
<1>7. RowsAfter(inv, is, N, Replay(inv, is))
  BY <1>1, <1>2, <1>4, <1>5, <1>6, ReplayOfDistinctRows
<1> DEFINE back == Replay(inv, is)
<1> HIDE DEF back
<1>8. ASSUME NEW t \in Tables, NEW k \in Keys PROVE back[t][k] = db[t][k]
  <2>1. CASE About(inv, N, t, k) = {}
    <3>1. back[t][k] = is[t][k]
      BY <1>7, <2>1 DEF RowsAfter, back
    <3>2. About(log, N, t, k) = {}
      BY <1>4, <2>1 DEF About
    <3>3. is[t][k] = db[t][k]
      BY <1>3, <3>2 DEF RowsAfter
    <3> QED
      BY <3>1, <3>3
  <2>2. CASE About(inv, N, t, k) # {}
    <3>1. PICK i \in About(inv, N, t, k) : TRUE
      BY <2>2
    <3>2. i \in 1..N /\ inv[i].table = t /\ inv[i].pk = k
      BY <3>1 DEF About
    <3>3. back[t][k] = RowAfter(inv[i], is[t][k])
      BY <1>7, <3>1 DEF RowsAfter, back
    <3> QED
      BY <1>4, <3>2, <3>3
  <2> QED
    BY <2>1, <2>2
<1>9. back \in Database
  BY <1>7 DEF RowsAfter, back
<1> QED
  BY <1>8, <1>9, DatabasesAreFunctions DEF back, is, inv

-----------------------------------------------------------------------------
(* The recursion of Picked *)

PickedUpTo(s, I, N, picked) ==
    picked = [n \in 0..N |-> IF n = 0 THEN <<>>
                             ELSE IF n \in I THEN Append(picked[n - 1], s[n]) ELSE picked[n - 1]]

LEMMA PickedExist ==
    ASSUME NEW s, NEW I, NEW N \in Nat
    PROVE  \E picked : PickedUpTo(s, I, N, picked)
<1> DEFINE T == {n \in Nat : \E picked : PickedUpTo(s, I, n, picked)}
<1>1. 0 \in T
  <2> DEFINE first == [i \in 0..0 |-> <<>>]
  <2>1. PickedUpTo(s, I, 0, first)
    BY DEF PickedUpTo
  <2> QED
    BY <2>1
<1>2. ASSUME NEW n \in Nat, n \in T PROVE n + 1 \in T
  <2>1. PICK f : PickedUpTo(s, I, n, f)
    BY <1>2
  <2> DEFINE next == IF n + 1 \in I THEN Append(f[n], s[n + 1]) ELSE f[n]
             g == [i \in 0..(n + 1) |-> IF i = n + 1 THEN next ELSE f[i]]
  <2>2. g[n + 1] = next /\ \A i \in 0..n : g[i] = f[i]
    OBVIOUS
  <2>3. f = [i \in 0..n |-> IF i = 0 THEN <<>>
                            ELSE IF i \in I THEN Append(f[i - 1], s[i]) ELSE f[i - 1]]
    BY <2>1 DEF PickedUpTo
  <2> HIDE DEF g
  <2>4. ASSUME NEW i \in 0..(n + 1)
        PROVE  g[i] = IF i = 0 THEN <<>>
                      ELSE IF i \in I THEN Append(g[i - 1], s[i]) ELSE g[i - 1]
    <3>1. CASE i = n + 1
      BY <2>2, <3>1
    <3>2. CASE i = 0
      BY <2>2, <2>3, <3>2
    <3>3. CASE i \in 1..n
      <4>1. i - 1 \in 0..n /\ i \in 0..n /\ i # 0
        BY <3>3
      <4>2. f[i] = IF i \in I THEN Append(f[i - 1], s[i]) ELSE f[i - 1]
        BY <2>3, <4>1
      <4> QED
        BY <2>2, <4>1, <4>2
    <3> QED
      BY <3>1, <3>2, <3>3
  <2>5. PickedUpTo(s, I, n + 1, g)
    <3>1. g = [i \in 0..(n + 1) |-> g[i]]
      BY DEF g
    <3> QED
      BY <2>4, <3>1 DEF PickedUpTo
  <2> QED
    BY <2>5
<1> HIDE DEF T
<1>3. Nat \subseteq T
  BY <1>1, <1>2, AllNaturals
<1> QED
  BY <1>3 DEF T

\* Where the elements of r come from: each position of I once.
PickedFrom(s, I, n, r) ==
    \E at \in [1..Len(r) -> I \cap (1..n)] :
        /\ \A j \in 1..Len(r) : r[j] = s[at[j]]
        /\ \A j, m \in 1..Len(r) : at[j] = at[m] => j = m
        /\ \A i \in I \cap (1..n) : \E j \in 1..Len(r) : at[j] = i

\* Picked takes every position of I once.
LEMMA PickedPositions ==
    ASSUME NEW S, NEW s \in Seq(S), NEW I
    PROVE  /\ Picked(s, I) \in Seq(S)
           /\ PickedFrom(s, I, Len(s), Picked(s, I))
<1> DEFINE N == Len(s)
<1>1. N \in Nat
  OBVIOUS
<1>2. PICK p : PickedUpTo(s, I, N, p) /\ Picked(s, I) = p[N]
  <2>1. \E picked : PickedUpTo(s, I, N, picked)
    BY <1>1, PickedExist
  <2> DEFINE p == CHOOSE picked : PickedUpTo(s, I, N, picked)
  <2>2. PickedUpTo(s, I, N, p)
    BY <2>1
  <2>3. Picked(s, I) = p[N]
    BY DEF Picked, PickedUpTo
  <2> QED
    BY <2>2, <2>3
<1> HIDE DEF N
<1>3. p[0] = <<>>
  BY <1>1, <1>2 DEF PickedUpTo
<1>4. ASSUME NEW n \in 0..(N - 1)
      PROVE  p[n + 1] = IF n + 1 \in I THEN Append(p[n], s[n + 1]) ELSE p[n]
  <2>1. n + 1 \in 0..N /\ n + 1 # 0 /\ (n + 1) - 1 = n
    BY <1>1
  <2> QED
    BY <1>2, <2>1 DEF PickedUpTo
<1> DEFINE T == {n \in 0..N : p[n] \in Seq(S) /\ PickedFrom(s, I, n, p[n])}
<1>5. 0 \in T
  <2>1. Len(p[0]) = 0 /\ p[0] \in Seq(S) /\ 1..Len(p[0]) = {} /\ I \cap (1..0) = {}
    BY <1>3
  <2>2. PickedFrom(s, I, 0, p[0])
    <3> DEFINE at == [j \in 1..Len(p[0]) |-> 0]
    <3>1. at \in [1..Len(p[0]) -> I \cap (1..0)]
      BY <2>1
    <3> QED
      BY <2>1, <3>1 DEF PickedFrom
  <2> QED
    BY <1>1, <2>1, <2>2
<1>6. ASSUME NEW n \in 0..(N - 1), n \in T PROVE n + 1 \in T
  <2> DEFINE r == p[n]
             q == p[n + 1]
  <2>1. n + 1 \in 0..N /\ n + 1 \in 1..Len(s) /\ 1..(n + 1) = (1..n) \cup {n + 1} /\ n + 1 \notin 1..n
    BY <1>1 DEF N
  <2>2. r \in Seq(S) /\ PickedFrom(s, I, n, r)
    BY <1>6
  <2>3. q = IF n + 1 \in I THEN Append(r, s[n + 1]) ELSE r
    BY <1>4
  <2> HIDE DEF r, q
  <2>4. PICK at \in [1..Len(r) -> I \cap (1..n)] :
          /\ \A j \in 1..Len(r) : r[j] = s[at[j]]
          /\ \A j, m \in 1..Len(r) : at[j] = at[m] => j = m
          /\ \A i \in I \cap (1..n) : \E j \in 1..Len(r) : at[j] = i
    BY <2>2 DEF PickedFrom
  <2>5. CASE n + 1 \notin I
    <3>1. q = r /\ I \cap (1..(n + 1)) = I \cap (1..n)
      BY <2>1, <2>3, <2>5
    <3>2. PickedFrom(s, I, n + 1, q)
      BY <2>4, <3>1 DEF PickedFrom
    <3> QED
      BY <2>1, <2>2, <3>1, <3>2 DEF q
  <2>6. CASE n + 1 \in I
    <3> DEFINE L == Len(r)
    <3>1. q = Append(r, s[n + 1]) /\ s[n + 1] \in S /\ L \in Nat
      BY <2>1, <2>2, <2>3, <2>6
    <3>2. /\ q \in Seq(S) /\ Len(q) = L + 1 /\ q[L + 1] = s[n + 1]
          /\ \A j \in 1..L : q[j] = r[j]
      BY <2>2, <3>1
    <3>3. 1..Len(q) = (1..L) \cup {L + 1} /\ L + 1 \notin 1..L
      BY <3>1, <3>2
    <3> DEFINE to == [j \in 1..Len(q) |-> IF j = L + 1 THEN n + 1 ELSE at[j]]
    <3>4. to[L + 1] = n + 1 /\ \A j \in 1..L : to[j] = at[j]
      BY <3>3
    <3>5. I \cap (1..(n + 1)) = (I \cap (1..n)) \cup {n + 1}
      BY <2>1, <2>6
    <3>6. to \in [1..Len(q) -> I \cap (1..(n + 1))]
      BY <3>3, <3>5
    <3> HIDE DEF L, to
    <3>7. \A j \in 1..Len(q) : q[j] = s[to[j]]
      BY <2>4, <3>2, <3>3, <3>4 DEF L
    <3>8. /\ \A j \in 1..L : at[j] # n + 1
          /\ \A j, m \in 1..L : at[j] = at[m] => j = m
      BY <2>1, <2>4 DEF L
    <3>9. \A j, m \in 1..Len(q) : to[j] = to[m] => j = m
      BY <3>3, <3>4, <3>8
    <3>10. \A i \in I \cap (1..(n + 1)) : \E j \in 1..Len(q) : to[j] = i
      BY <2>4, <3>3, <3>4, <3>5 DEF L
    <3>11. PickedFrom(s, I, n + 1, q)
      BY <3>6, <3>7, <3>9, <3>10 DEF PickedFrom
    <3> QED
      BY <2>1, <3>2, <3>11 DEF q
  <2> QED
    BY <2>5, <2>6
<1> HIDE DEF T
<1>7. N \in T
  <2>1. 0..N \subseteq T
    BY <1>1, <1>5, <1>6, UpTo
  <2> QED
    BY <1>1, <2>1
<1> QED
  BY <1>2, <1>7 DEF T, N

\* InKeyOrder lists every key once.
LEMMA KeysInOrder ==
    ASSUME NEW S \in SUBSET Keys
    PROVE  /\ InKeyOrder(S) \in Seq(S)
           /\ \A i, j \in 1..Len(InKeyOrder(S)) : InKeyOrder(S)[i] = InKeyOrder(S)[j] => i = j
           /\ \A k \in S : \E i \in 1..Len(InKeyOrder(S)) : InKeyOrder(S)[i] = k
<1> DEFINE s == [i \in 1..(MaxKey + 1) |-> i - 1]
           I == {k + 1 : k \in S}
           r == InKeyOrder(S)
<1>1. MaxKey \in Nat /\ S \subseteq 0..MaxKey
  BY KeysAssumption
<1>2. s \in Seq(Nat) /\ Len(s) = MaxKey + 1
  BY <1>1
<1>3. r = Picked(s, I)
  BY DEF InKeyOrder
<1>4. \A i \in 1..(MaxKey + 1) : s[i] = i - 1
  OBVIOUS
<1>5. I \cap (1..(MaxKey + 1)) = I
  BY <1>1
<1>6. \A i \in I : i - 1 \in S /\ i \in Int
  BY <1>1
<1>7. \A k \in S : k + 1 \in I /\ (k + 1) - 1 = k
  BY <1>1
<1> HIDE DEF s, I, r
<1>8. r \in Seq(Nat) /\ PickedFrom(s, I, MaxKey + 1, r)
  BY <1>2, <1>3, PickedPositions
<1>9. PICK at \in [1..Len(r) -> I] :
        /\ \A j \in 1..Len(r) : r[j] = s[at[j]]
        /\ \A j, m \in 1..Len(r) : at[j] = at[m] => j = m
        /\ \A i \in I : \E j \in 1..Len(r) : at[j] = i
  BY <1>5, <1>8 DEF PickedFrom
<1>10. \A j \in 1..Len(r) : r[j] = at[j] - 1 /\ at[j] \in I
  BY <1>4, <1>5, <1>9
<1>11. r \in Seq(S)
  <2>1. \A j \in 1..Len(r) : r[j] \in S
    BY <1>6, <1>10
  <2>2. r = [j \in 1..Len(r) |-> r[j]] /\ Len(r) \in Nat
    BY <1>8
  <2> QED
    BY <2>1, <2>2
<1>12. \A j, m \in 1..Len(r) : r[j] = r[m] => j = m
  BY <1>6, <1>9, <1>10
<1>13. \A k \in S : \E j \in 1..Len(r) : r[j] = k
  BY <1>7, <1>9, <1>10
<1> QED
  BY <1>11, <1>12, <1>13 DEF r

-----------------------------------------------------------------------------
(* One log after the other *)

\* The first log leads through the same databases with the second behind it.
LEMMA StagesOfFirst ==
    ASSUME NEW S, NEW first \in Seq(S), NEW second \in Seq(S), NEW db
    PROVE  Stages(ConcatChanges(first, second), db)[Len(first)] = Replay(first, db)
<1> DEFINE both == ConcatChanges(first, second)
           N == Len(first)
           T == {n \in 0..N : Stages(both, db)[n] = Stages(first, db)[n]}
<1>1. /\ N \in Nat /\ Len(second) \in Nat /\ Len(both) = N + Len(second)
      /\ \A i \in 1..N : both[i] = first[i]
  BY DEF ConcatChanges
<1> HIDE DEF both
<1>2. /\ Stages(both, db)[0] = db
      /\ \A i \in 1..Len(both) : Stages(both, db)[i] = DatabaseAfter(both[i], Stages(both, db)[i - 1])
  BY <1>1, StageEquations
<1>3. /\ Stages(first, db)[0] = db
      /\ \A i \in 1..N : Stages(first, db)[i] = DatabaseAfter(first[i], Stages(first, db)[i - 1])
  BY <1>1, StageEquations
<1>4. 0 \in T
  BY <1>1, <1>2, <1>3
<1>5. ASSUME NEW n \in 0..(N - 1), n \in T PROVE n + 1 \in T
  <2>1. n + 1 \in 1..N /\ n + 1 \in 1..Len(both) /\ (n + 1) - 1 = n /\ n + 1 \in 0..N
    BY <1>1
  <2>2. Stages(both, db)[n + 1] = DatabaseAfter(both[n + 1], Stages(both, db)[n])
    BY <1>2, <2>1
  <2>3. Stages(first, db)[n + 1] = DatabaseAfter(first[n + 1], Stages(first, db)[n])
    BY <1>3, <2>1
  <2> QED
    BY <1>1, <1>5, <2>1, <2>2, <2>3
<1> HIDE DEF T
<1>6. N \in T
  <2>1. 0..N \subseteq T
    BY <1>1, <1>4, <1>5, UpTo
  <2> QED
    BY <1>1, <2>1
<1> QED
  BY <1>6 DEF T, Replay, both

\* A log that ConcatChanges made replays as its two parts do, one after the other.
THEOREM ReplayOfConcatenation ==
    ASSUME NEW S, NEW first \in Seq(S), NEW second \in Seq(S), NEW db
    PROVE  Replay(ConcatChanges(first, second), db) = Replay(second, Replay(first, db))
<1> DEFINE both == ConcatChanges(first, second)
           M == Len(first)
           N == Len(second)
           middle == Replay(first, db)
           T == {n \in 0..N : Stages(both, db)[M + n] = Stages(second, middle)[n]}
<1>1. /\ M \in Nat /\ N \in Nat /\ Len(both) = M + N
      /\ \A i \in 1..N : both[M + i] = second[i]
  BY DEF ConcatChanges
<1>2. Stages(both, db)[M] = middle
  BY StagesOfFirst
<1> HIDE DEF both, middle
<1>3. \A i \in 1..Len(both) : Stages(both, db)[i] = DatabaseAfter(both[i], Stages(both, db)[i - 1])
  BY <1>1, StageEquations
<1>4. /\ Stages(second, middle)[0] = middle
      /\ \A i \in 1..N : Stages(second, middle)[i]
                            = DatabaseAfter(second[i], Stages(second, middle)[i - 1])
  BY <1>1, StageEquations
<1>5. 0 \in T
  BY <1>1, <1>2, <1>4
<1>6. ASSUME NEW n \in 0..(N - 1), n \in T PROVE n + 1 \in T
  <2>1. /\ n + 1 \in 1..N /\ n + 1 \in 0..N /\ (n + 1) - 1 = n
        /\ M + (n + 1) \in 1..Len(both) /\ (M + (n + 1)) - 1 = M + n
    BY <1>1
  <2>2. Stages(both, db)[M + (n + 1)] = DatabaseAfter(both[M + (n + 1)], Stages(both, db)[M + n])
    BY <1>3, <2>1
  <2>3. Stages(second, middle)[n + 1] = DatabaseAfter(second[n + 1], Stages(second, middle)[n])
    BY <1>4, <2>1
  <2> QED
    BY <1>1, <1>6, <2>1, <2>2, <2>3
<1> HIDE DEF T
<1>7. N \in T
  <2>1. 0..N \subseteq T
    BY <1>1, <1>5, <1>6, UpTo
  <2> QED
    BY <1>1, <2>1
<1> QED
  BY <1>1, <1>7 DEF T, Replay, both, middle

-----------------------------------------------------------------------------
(* CreateChangeset: the entries of two versions of a table *)

\* The entry that leads from one version of a row to the other.
Difference(t, k, old, new) ==
    IF old = Absent THEN InsertEntry(t, k, new)
    ELSE IF new = Absent THEN DeleteEntry(t, k, old)
    ELSE UpdateEntry(t, k, old, new)

LEMMA DifferenceRight ==
    ASSUME NEW t \in Tables, NEW k \in Keys,
           NEW old \in Row \cup {Absent}, NEW new \in Row \cup {Absent}, old # new
    PROVE  LET e == Difference(t, k, old, new) IN
           /\ e.table = t /\ e.pk = k /\ Invertible(e) /\ WellFormed(e)
           /\ Effective(e, old) /\ RowAfter(e, old) = new
<1> DEFINE e == Difference(t, k, old, new)
<1>1. Blank \in EntryValues /\ Row \subseteq EntryValues /\ k \in Int
  <2>1. Keys \subseteq Int
    BY KeysAssumption
  <2> QED
    BY <2>1 DEF Blank, EntryValues, Row
<1>2. CASE old = Absent
  <2>1. e = InsertEntry(t, k, new) /\ new \in Row
    BY <1>2 DEF Difference
  <2> HIDE DEF e
  <2>2. /\ e \in Entry /\ e.table = t /\ e.pk = k /\ e.op = "insert" /\ e.new = new
        /\ e.old = Blank
    BY <1>1, <2>1 DEF InsertEntry, Entry, Operations
  <2>3. Effective(e, old) /\ RowAfter(e, old) = new
    BY <1>2, <2>2 DEF Effective, RowAfter
  <2> QED
    BY <2>1, <2>2, <2>3 DEF Invertible, WellFormed, e
<1>3. CASE old # Absent /\ new = Absent
  <2>1. e = DeleteEntry(t, k, old) /\ old \in Row
    BY <1>3 DEF Difference
  <2> HIDE DEF e
  <2>2. /\ e \in Entry /\ e.table = t /\ e.pk = k /\ e.op = "delete" /\ e.old = old
        /\ e.new = Blank
    BY <1>1, <2>1 DEF DeleteEntry, Entry, Operations
  <2>3. Effective(e, old) /\ RowAfter(e, old) = new
    BY <1>3, <2>2 DEF Effective, RowAfter, Matches
  <2> QED
    BY <2>1, <2>2, <2>3 DEF Invertible, WellFormed, e
<1>4. CASE old # Absent /\ new # Absent
  <2>1. e = UpdateEntry(t, k, old, new) /\ old \in Row /\ new \in Row
    BY <1>4 DEF Difference
  <2> HIDE DEF e
  <2>2. /\ e.table = t /\ e.pk = k /\ e.op = "update"
        /\ e.old = [c \in Cols |-> IF old[c] = new[c] THEN Undefined ELSE old[c]]
        /\ e.new = [c \in Cols |-> IF old[c] = new[c] THEN Undefined ELSE new[c]]
    BY <2>1 DEF UpdateEntry
  <2>3. e.old \in EntryValues /\ e.new \in EntryValues
    BY <2>1, <2>2 DEF EntryValues, Row
  <2>4. e \in Entry
    BY <1>1, <2>1, <2>3 DEF UpdateEntry, Entry, Operations
  <2>5. \A c \in Cols : /\ old[c] # Undefined /\ new[c] # Undefined
                        /\ e.old[c] = IF old[c] = new[c] THEN Undefined ELSE old[c]
                        /\ e.new[c] = IF old[c] = new[c] THEN Undefined ELSE new[c]
    BY <2>1, <2>2, DefinedInRow
  <2>6. PICK c \in Cols : old[c] # new[c]
    BY <2>1, RowsAreFunctions
  <2>7. e.new # Blank
    BY <2>5, <2>6 DEF Blank
  <2>8. Matches(e, old)
    BY <1>4, <2>5 DEF Matches
  <2>9. Overlay(e.new, old) = new
    <3>1. Overlay(e.new, old) = [d \in Cols |-> new[d]]
      BY <2>5 DEF Overlay
    <3> QED
      BY <2>1, <3>1 DEF Row
  <2>10. Effective(e, old) /\ RowAfter(e, old) = new
    BY <2>2, <2>7, <2>8, <2>9 DEF Effective, RowAfter
  <2> QED
    BY <2>2, <2>4, <2>5, <2>7, <2>10 DEF Invertible, WellFormed, e
<1> QED
  BY <1>2, <1>3, <1>4

\* r has the entry of every key of K, once, and no other.
Lists(r, t, K, was, is) ==
    /\ r \in Seq(Entry)
    /\ \A i \in 1..Len(r) : /\ r[i].table = t /\ r[i].pk \in K
                            /\ r[i] = Difference(t, r[i].pk, was[r[i].pk], is[r[i].pk])
    /\ \A i, j \in 1..Len(r) : r[i].pk = r[j].pk => i = j
    /\ \A k \in K : \E i \in 1..Len(r) : r[i].pk = k

\* A query returns the rows of its keys.
LEMMA QueryLists ==
    ASSUME NEW t \in Tables, NEW K \in SUBSET Keys, NEW was, NEW is, NEW r,
           \A k \in K : was[k] \in Row \cup {Absent} /\ is[k] \in Row \cup {Absent} /\ was[k] # is[k],
           r = [i \in DOMAIN InKeyOrder(K) |->
                    Difference(t, InKeyOrder(K)[i], was[InKeyOrder(K)[i]], is[InKeyOrder(K)[i]])]
    PROVE  Lists(r, t, K, was, is)
<1> DEFINE keys == InKeyOrder(K)
<1>1. /\ keys \in Seq(K)
      /\ \A i, j \in 1..Len(keys) : keys[i] = keys[j] => i = j
      /\ \A k \in K : \E i \in 1..Len(keys) : keys[i] = k
  BY KeysInOrder
<1>2. r = [i \in DOMAIN keys |-> Difference(t, keys[i], was[keys[i]], is[keys[i]])]
  OBVIOUS
<1> HIDE DEF keys
<1>3. DOMAIN keys = 1..Len(keys) /\ Len(keys) \in Nat /\ \A i \in 1..Len(keys) : keys[i] \in K
  BY <1>1
<1>4. \A i \in 1..Len(keys) : r[i] = Difference(t, keys[i], was[keys[i]], is[keys[i]])
  BY <1>2, <1>3
<1>5. \A i \in 1..Len(keys) : r[i].table = t /\ r[i].pk = keys[i] /\ r[i] \in Entry
  <2>1. ASSUME NEW k \in K, NEW e, e = Difference(t, k, was[k], is[k])
        PROVE  e.table = t /\ e.pk = k /\ e \in Entry
    <3> DEFINE old == was[k]
               new == is[k]
    <3>1. k \in Keys /\ old \in Row \cup {Absent} /\ new \in Row \cup {Absent} /\ old # new
      OBVIOUS
    <3>2. e = Difference(t, k, old, new)
      BY <2>1
    <3> HIDE DEF old, new
    <3> QED
      BY <3>1, <3>2, DifferenceRight DEF Invertible
  <2> QED
    BY <1>3, <1>4, <2>1
<1>6. r \in Seq(Entry) /\ Len(r) = Len(keys)
  <2>1. r = [i \in 1..Len(keys) |-> r[i]]
    BY <1>2, <1>3
  <2> QED
    BY <1>3, <1>5, <2>1
<1>7. \A i \in 1..Len(r) : /\ r[i].table = t /\ r[i].pk \in K
                           /\ r[i] = Difference(t, r[i].pk, was[r[i].pk], is[r[i].pk])
  <2> TAKE i \in 1..Len(r)
  <2>1. r[i].table = t /\ r[i].pk = keys[i] /\ keys[i] \in K
    BY <1>3, <1>5, <1>6
  <2> QED
    BY <1>4, <1>6, <2>1
<1>8. \A i, j \in 1..Len(r) : r[i].pk = r[j].pk => i = j
  <2> TAKE i, j \in 1..Len(r)
  <2>1. /\ r[i].pk = keys[i] /\ r[j].pk = keys[j]
        /\ i \in 1..Len(keys) /\ j \in 1..Len(keys)
    BY <1>5, <1>6
  <2>2. keys[i] = keys[j] => i = j
    BY <1>1, <2>1
  <2>3. CASE r[i].pk = r[j].pk
    <3>1. keys[i] = keys[j]
      BY <2>1, <2>3
    <3> QED
      BY <2>2, <3>1
  <2> QED
    BY <2>3
<1>9. \A k \in K : \E i \in 1..Len(r) : r[i].pk = k
  <2> TAKE k \in K
  <2>1. PICK i \in 1..Len(keys) : keys[i] = k
    BY <1>1
  <2>2. i \in 1..Len(r) /\ r[i].pk = k
    BY <1>5, <1>6, <2>1
  <2> QED
    BY <2>2
<1> QED
  BY <1>6, <1>7, <1>8, <1>9 DEF Lists

TableRows == [Keys -> Row \cup {Absent}]

\* The three queries of a table.
LEMMA QueriesList ==
    ASSUME NEW t \in Tables, NEW was \in TableRows, NEW is \in TableRows
    PROVE  /\ Lists(Inserted(t, was, is), t, InsertedKeys(was, is), was, is)
           /\ Lists(Deleted(t, was, is), t, InsertedKeys(is, was), was, is)
           /\ Lists(Updated(t, was, is), t, ModifiedKeys(was, is), was, is)
<1>1. \A k \in Keys : was[k] \in Row \cup {Absent} /\ is[k] \in Row \cup {Absent}
  BY DEF TableRows
<1>2. Lists(Inserted(t, was, is), t, InsertedKeys(was, is), was, is)
  <2> DEFINE K == InsertedKeys(was, is)
             keys == InKeyOrder(K)
  <2>1. K \subseteq Keys /\ \A k \in K : was[k] = Absent /\ is[k] # Absent
    BY DEF InsertedKeys
  <2>2. \A i \in DOMAIN keys : keys[i] \in K
    BY <2>1, KeysInOrder
  <2>3. Inserted(t, was, is) = [i \in DOMAIN keys |-> InsertEntry(t, keys[i], is[keys[i]])]
    BY DEF Inserted
  <2> HIDE DEF keys, K
  <2>4. Inserted(t, was, is) =
            [i \in DOMAIN keys |-> Difference(t, keys[i], was[keys[i]], is[keys[i]])]
    BY <2>1, <2>2, <2>3 DEF Difference
  <2> QED
    BY <1>1, <2>1, <2>4, QueryLists DEF keys, K
<1>3. Lists(Deleted(t, was, is), t, InsertedKeys(is, was), was, is)
  <2> DEFINE K == InsertedKeys(is, was)
             keys == InKeyOrder(K)
  <2>1. K \subseteq Keys /\ \A k \in K : is[k] = Absent /\ was[k] # Absent
    BY DEF InsertedKeys
  <2>2. \A i \in DOMAIN keys : keys[i] \in K
    BY <2>1, KeysInOrder
  <2>3. Deleted(t, was, is) = [i \in DOMAIN keys |-> DeleteEntry(t, keys[i], was[keys[i]])]
    BY DEF Deleted
  <2> HIDE DEF keys, K
  <2>4. Deleted(t, was, is) =
            [i \in DOMAIN keys |-> Difference(t, keys[i], was[keys[i]], is[keys[i]])]
    BY <2>1, <2>2, <2>3 DEF Difference
  <2> QED
    BY <1>1, <2>1, <2>4, QueryLists DEF keys, K
<1>4. Lists(Updated(t, was, is), t, ModifiedKeys(was, is), was, is)
  <2> DEFINE K == ModifiedKeys(was, is)
             keys == InKeyOrder(K)
  <2>1. K \subseteq Keys /\ \A k \in K : is[k] # Absent /\ was[k] # Absent /\ was[k] # is[k]
    BY DEF ModifiedKeys
  <2>2. \A i \in DOMAIN keys : keys[i] \in K
    BY <2>1, KeysInOrder
  <2>3. Updated(t, was, is) =
            [i \in DOMAIN keys |-> UpdateEntry(t, keys[i], was[keys[i]], is[keys[i]])]
    BY DEF Updated
  <2> HIDE DEF keys, K
  <2>4. Updated(t, was, is) =
            [i \in DOMAIN keys |-> Difference(t, keys[i], was[keys[i]], is[keys[i]])]
    BY <2>1, <2>2, <2>3 DEF Difference
  <2> QED
    BY <1>1, <2>1, <2>4, QueryLists DEF keys, K
<1> QED
  BY <1>2, <1>3, <1>4

\* Every table has its place in the order.
LEMMA TablesInOrder ==
    /\ TableOrder \in Seq(Tables) /\ Len(TableOrder) \in Nat
    /\ \A i, j \in 1..Len(TableOrder) : TableOrder[i] = TableOrder[j] => i = j
    /\ \A t \in Tables : \E i \in 1..Len(TableOrder) : TableOrder[i] = t
<1> DEFINE N == Cardinality(Tables)
<1>1. N \in Nat /\ ExistsBijection(1..N, Tables)
  BY TablesAssumption, FS_CardinalityType
<1>2. \E f \in [1..N -> Tables] : IsInjective(f)
  BY <1>1 DEF ExistsBijection, Bijection, Injection
<1>3. TableOrder \in [1..N -> Tables] /\ IsInjective(TableOrder)
  BY <1>2 DEF TableOrder, SetToSeq
<1>4. TableOrder \in Seq(Tables) /\ Len(TableOrder) = N
  BY <1>1, <1>3
<1>5. TableOrder \in Surjection(1..N, Tables)
  <2>1. TableOrder \in Injection(1..N, Tables)
    BY <1>3 DEF Injection
  <2>2. Cardinality(1..N) = N
    BY <1>1, FS_Interval
  <2> QED
    BY <2>1, <2>2, TablesAssumption, FS_Injection
<1> QED
  BY <1>1, <1>3, <1>4, <1>5 DEF IsInjective, Surjection

\* The elements of two sequences, one after the other.
LEMMA Joined ==
    ASSUME NEW S, NEW a \in Seq(S), NEW b \in Seq(S)
    PROVE  /\ Len(a \o b) = Len(a) + Len(b) /\ Len(a) \in Nat /\ Len(b) \in Nat
           /\ \A l \in 1..Len(a) : l \in 1..Len(a \o b) /\ (a \o b)[l] = a[l]
           /\ \A l \in 1..Len(b) :
                Len(a) + l \in 1..Len(a \o b) /\ (a \o b)[Len(a) + l] = b[l]
           /\ \A l \in 1..Len(a \o b) : l \in 1..Len(a) \/ l - Len(a) \in 1..Len(b)
<1>1. Len(a \o b) = Len(a) + Len(b) /\ Len(a) \in Nat /\ Len(b) \in Nat
  OBVIOUS
<1>2. \A l \in 1..Len(a) : l \in 1..Len(a \o b) /\ (a \o b)[l] = a[l]
  OBVIOUS
<1>3. ASSUME NEW l \in 1..Len(b)
      PROVE  Len(a) + l \in 1..Len(a \o b) /\ (a \o b)[Len(a) + l] = b[l]
  <2>1. Len(a) + l \in 1..Len(a \o b) /\ Len(a) + l > Len(a) /\ (Len(a) + l) - Len(a) = l
    BY <1>1
  <2> QED
    BY <2>1
<1>4. \A l \in 1..Len(a \o b) : l \in 1..Len(a) \/ l - Len(a) \in 1..Len(b)
  BY <1>1
<1> QED
  BY <1>1, <1>2, <1>3, <1>4

-----------------------------------------------------------------------------
(* CreateChangeset as a whole *)

\* r has the entry of every row of R, once, and no other.
ListsRows(r, R, was, is) ==
    /\ r \in Seq(Entry)
    /\ \A i \in 1..Len(r) :
        /\ <<r[i].table, r[i].pk>> \in R
        /\ r[i] = Difference(r[i].table, r[i].pk, was[r[i].table][r[i].pk], is[r[i].table][r[i].pk])
    /\ \A i, j \in 1..Len(r) : SameRow(r[i], r[j]) => i = j
    /\ \A t, k : <<t, k>> \in R => \E i \in 1..Len(r) : r[i].table = t /\ r[i].pk = k

\* The entries of keys of one table are those of the rows with these keys.
LEMMA RowsOfTable ==
    ASSUME NEW r, NEW t, NEW K, NEW was, NEW is, Lists(r, t, K, was[t], is[t])
    PROVE  ListsRows(r, {t} \X K, was, is)
<1>1. /\ r \in Seq(Entry)
      /\ \A i \in 1..Len(r) : /\ r[i].table = t /\ r[i].pk \in K
                              /\ r[i] = Difference(t, r[i].pk, was[t][r[i].pk], is[t][r[i].pk])
      /\ \A i, j \in 1..Len(r) : r[i].pk = r[j].pk => i = j
      /\ \A k \in K : \E i \in 1..Len(r) : r[i].pk = k
  BY DEF Lists
<1>2. \A i \in 1..Len(r) :
        /\ <<r[i].table, r[i].pk>> \in {t} \X K
        /\ r[i] = Difference(r[i].table, r[i].pk, was[r[i].table][r[i].pk], is[r[i].table][r[i].pk])
  BY <1>1
<1>3. \A i, j \in 1..Len(r) : SameRow(r[i], r[j]) => i = j
  BY <1>1 DEF SameRow
<1>4. \A u, k : <<u, k>> \in {t} \X K => \E i \in 1..Len(r) : r[i].table = u /\ r[i].pk = k
  BY <1>1
<1> QED
  BY <1>1, <1>2, <1>3, <1>4 DEF ListsRows

\* The entries of two sets of rows that have no row in common, one after the other.
LEMMA RowsJoined ==
    ASSUME NEW a, NEW b, NEW A, NEW B, NEW was, NEW is,
           ListsRows(a, A, was, is), ListsRows(b, B, was, is), A \cap B = {}
    PROVE  ListsRows(a \o b, A \cup B, was, is)
<1> DEFINE s == a \o b
           Right(e, R) == /\ <<e.table, e.pk>> \in R
                          /\ e = Difference(e.table, e.pk, was[e.table][e.pk], is[e.table][e.pk])
<1>1. /\ a \in Seq(Entry) /\ b \in Seq(Entry)
      /\ \A i \in 1..Len(a) : Right(a[i], A)
      /\ \A i \in 1..Len(b) : Right(b[i], B)
  BY DEF ListsRows
<1>2. /\ \A i, j \in 1..Len(a) : SameRow(a[i], a[j]) => i = j
      /\ \A i, j \in 1..Len(b) : SameRow(b[i], b[j]) => i = j
  BY DEF ListsRows
<1>3. /\ \A t, k : <<t, k>> \in A => \E i \in 1..Len(a) : a[i].table = t /\ a[i].pk = k
      /\ \A t, k : <<t, k>> \in B => \E i \in 1..Len(b) : b[i].table = t /\ b[i].pk = k
  BY DEF ListsRows
<1>4. s \in Seq(Entry)
  BY <1>1
<1>5. /\ Len(s) = Len(a) + Len(b) /\ Len(a) \in Nat /\ Len(b) \in Nat
      /\ \A l \in 1..Len(a) : l \in 1..Len(s) /\ s[l] = a[l]
      /\ \A l \in 1..Len(b) : Len(a) + l \in 1..Len(s) /\ s[Len(a) + l] = b[l]
      /\ \A l \in 1..Len(s) : l \in 1..Len(a) \/ l - Len(a) \in 1..Len(b)
  BY <1>1, Joined
<1> HIDE DEF s
<1>6. ASSUME NEW l \in 1..Len(s)
      PROVE  \/ l \in 1..Len(a) /\ s[l] = a[l]
             \/ l - Len(a) \in 1..Len(b) /\ s[l] = b[l - Len(a)]
  <2>1. Len(a) + (l - Len(a)) = l
    BY <1>5
  <2> QED
    BY <1>5, <2>1
<1>7. ASSUME NEW l \in 1..Len(s) PROVE Right(s[l], A \cup B)
  BY <1>1, <1>6
<1>8. ASSUME NEW e, NEW f, SameRow(e, f), Right(e, A), Right(f, B) PROVE FALSE
  <2>1. <<e.table, e.pk>> = <<f.table, f.pk>>
    BY <1>8 DEF SameRow
  <2>2. <<e.table, e.pk>> \in A \cap B
    BY <1>8, <2>1
  <2> QED
    BY <2>2
<1> HIDE DEF Right
<1>9. ASSUME NEW l \in 1..Len(s), NEW m \in 1..Len(s), SameRow(s[l], s[m]) PROVE l = m
  <2>1. SameRow(s[m], s[l])
    BY <1>9 DEF SameRow
  <2>2. CASE l \in 1..Len(a) /\ s[l] = a[l] /\ m \in 1..Len(a) /\ s[m] = a[m]
    BY <1>2, <1>9, <2>2
  <2>3. CASE /\ l - Len(a) \in 1..Len(b) /\ s[l] = b[l - Len(a)]
             /\ m - Len(a) \in 1..Len(b) /\ s[m] = b[m - Len(a)]
    <3>1. l - Len(a) = m - Len(a)
      BY <1>2, <1>9, <2>3
    <3> QED
      BY <1>5, <3>1
  <2>4. CASE l \in 1..Len(a) /\ s[l] = a[l] /\ m - Len(a) \in 1..Len(b) /\ s[m] = b[m - Len(a)]
    BY <1>1, <1>8, <1>9, <2>4
  <2>5. CASE m \in 1..Len(a) /\ s[m] = a[m] /\ l - Len(a) \in 1..Len(b) /\ s[l] = b[l - Len(a)]
    BY <1>1, <1>8, <2>1, <2>5
  <2> QED
    BY <1>6, <2>2, <2>3, <2>4, <2>5
<1>10. ASSUME NEW t, NEW k, <<t, k>> \in A \cup B
       PROVE  \E l \in 1..Len(s) : s[l].table = t /\ s[l].pk = k
  <2>1. CASE <<t, k>> \in A
    <3>1. PICK i \in 1..Len(a) : a[i].table = t /\ a[i].pk = k
      BY <1>3, <2>1
    <3> QED
      BY <1>5, <3>1
  <2>2. CASE <<t, k>> \in B
    <3>1. PICK i \in 1..Len(b) : b[i].table = t /\ b[i].pk = k
      BY <1>3, <2>2
    <3> QED
      BY <1>5, <3>1
  <2> QED
    BY <1>10, <2>1, <2>2
<1> QED
  BY <1>4, <1>7, <1>9, <1>10 DEF ListsRows, Right, s

\* The rows of a table that differ.
DifferingKeys(t, was, is) == {k \in Keys : was[t][k] # is[t][k]}

\* The three queries together find every row of the table that differs.
LEMMA TableListed ==
    ASSUME NEW was \in Database, NEW is \in Database, NEW t \in Tables
    PROVE  ListsRows(TableDiff(t, was[t], is[t]), {t} \X DifferingKeys(t, was, is), was, is)
<1> DEFINE ins == InsertedKeys(was[t], is[t])
           del == InsertedKeys(is[t], was[t])
           mod == ModifiedKeys(was[t], is[t])
           I == Inserted(t, was[t], is[t])
           D == Deleted(t, was[t], is[t])
           U == Updated(t, was[t], is[t])
<1>1. was[t] \in TableRows /\ is[t] \in TableRows
  BY DEF Database, TableRows
<1>2. /\ Lists(I, t, ins, was[t], is[t])
      /\ Lists(D, t, del, was[t], is[t])
      /\ Lists(U, t, mod, was[t], is[t])
  BY <1>1, QueriesList
<1>3. /\ ins \cap del = {} /\ ins \cap mod = {} /\ del \cap mod = {}
      /\ ins \cup del \cup mod = DifferingKeys(t, was, is)
  BY DEF InsertedKeys, ModifiedKeys, DifferingKeys
<1>4. TableDiff(t, was[t], is[t]) = I \o D \o U
  BY DEF TableDiff
<1> HIDE DEF ins, del, mod, I, D, U
<1>5. /\ ListsRows(I, {t} \X ins, was, is)
      /\ ListsRows(D, {t} \X del, was, is)
      /\ ListsRows(U, {t} \X mod, was, is)
  BY <1>2, RowsOfTable
<1>6. /\ ({t} \X ins) \cap ({t} \X del) = {}
      /\ (({t} \X ins) \cup ({t} \X del)) \cap ({t} \X mod) = {}
      /\ ({t} \X ins) \cup ({t} \X del) \cup ({t} \X mod) = {t} \X DifferingKeys(t, was, is)
  BY <1>3
<1>7. ListsRows(I \o D, ({t} \X ins) \cup ({t} \X del), was, is)
  BY <1>5, <1>6, RowsJoined
<1>8. ListsRows((I \o D) \o U, (({t} \X ins) \cup ({t} \X del)) \cup ({t} \X mod), was, is)
  BY <1>5, <1>6, <1>7, RowsJoined
<1> QED
  BY <1>4, <1>6, <1>8

(* The recursion of FlattenSeq *)

FlatUpTo(seqs, N, flat) ==
    flat = [i \in 1..N |-> IF i = 1 THEN seqs[i] ELSE flat[i - 1] \o seqs[i]]

LEMMA FlatExist ==
    ASSUME NEW seqs, NEW N \in Nat
    PROVE  \E flat : FlatUpTo(seqs, N, flat)
<1> DEFINE T == {n \in Nat : \E flat : FlatUpTo(seqs, n, flat)}
<1>1. 0 \in T
  <2> DEFINE none == [i \in 1..0 |-> seqs[i]]
  <2>1. FlatUpTo(seqs, 0, none)
    BY DEF FlatUpTo
  <2> QED
    BY <2>1
<1>2. ASSUME NEW n \in Nat, n \in T PROVE n + 1 \in T
  <2>1. PICK f : FlatUpTo(seqs, n, f)
    BY <1>2
  <2> DEFINE next == IF n + 1 = 1 THEN seqs[n + 1] ELSE f[n] \o seqs[n + 1]
             g == [i \in 1..(n + 1) |-> IF i = n + 1 THEN next ELSE f[i]]
  <2> HIDE DEF next
  <2>2. g[n + 1] = next /\ \A i \in 1..n : g[i] = f[i]
    OBVIOUS
  <2>3. f = [i \in 1..n |-> IF i = 1 THEN seqs[i] ELSE f[i - 1] \o seqs[i]]
    BY <2>1 DEF FlatUpTo
  <2> HIDE DEF g
  <2>4. ASSUME NEW i \in 1..(n + 1)
        PROVE  g[i] = IF i = 1 THEN seqs[i] ELSE g[i - 1] \o seqs[i]
    <3>1. CASE i = n + 1 /\ i = 1
      BY <2>2, <3>1 DEF next
    <3>2. CASE i = n + 1 /\ i # 1
      <4>1. i - 1 = n /\ n \in 1..n
        BY <3>2
      <4> QED
        BY <2>2, <3>2, <4>1 DEF next
    <3>3. CASE i = 1 /\ i # n + 1
      BY <2>2, <2>3, <3>3
    <3>4. CASE i # 1 /\ i # n + 1
      <4>1. i - 1 \in 1..n /\ i \in 1..n
        BY <3>4
      <4>2. f[i] = f[i - 1] \o seqs[i]
        BY <2>3, <3>4, <4>1
      <4> QED
        BY <2>2, <3>4, <4>1, <4>2
    <3> QED
      BY <3>1, <3>2, <3>3, <3>4
  <2>5. FlatUpTo(seqs, n + 1, g)
    <3>1. g = [i \in 1..(n + 1) |-> g[i]]
      BY DEF g
    <3> QED
      BY <2>4, <3>1 DEF FlatUpTo
  <2> QED
    BY <2>5
<1> HIDE DEF T
<1>3. Nat \subseteq T
  BY <1>1, <1>2, AllNaturals
<1> QED
  BY <1>3 DEF T

\* FlattenSeq joins the sequences one by one.
LEMMA FlatSteps ==
    ASSUME NEW seqs, Len(seqs) \in Nat, Len(seqs) # 0
    PROVE  \E flat : /\ FlattenSeq(seqs) = flat[Len(seqs)]
                     /\ flat[1] = seqs[1]
                     /\ \A n \in 1..(Len(seqs) - 1) : flat[n + 1] = flat[n] \o seqs[n + 1]
<1> DEFINE N == Len(seqs)
           flat == CHOOSE f : FlatUpTo(seqs, N, f)
<1>1. FlatUpTo(seqs, N, flat)
  BY FlatExist
<1>2. FlattenSeq(seqs) = flat[N]
  BY DEF FlattenSeq, FlatUpTo
<1> HIDE DEF flat, N
<1>3. N \in Nat /\ N # 0
  BY DEF N
<1>4. flat[1] = seqs[1]
  BY <1>1, <1>3 DEF FlatUpTo
<1>5. ASSUME NEW n \in 1..(N - 1) PROVE flat[n + 1] = flat[n] \o seqs[n + 1]
  <2>1. n + 1 \in 1..N /\ n + 1 # 1 /\ (n + 1) - 1 = n
    BY <1>3
  <2> QED
    BY <1>1, <2>1 DEF FlatUpTo
<1> QED
  BY <1>2, <1>4, <1>5 DEF N

\* The rows that differ in the first n tables.
DifferingRows(n, was, is) ==
    UNION {{TableOrder[m]} \X DifferingKeys(TableOrder[m], was, is) : m \in 1..n}

\* The changeset lists the rows that differ.
LEMMA ChangesetListed ==
    ASSUME NEW was \in Database, NEW is \in Database
    PROVE  ListsRows(CreateChangeset(was, is), DifferingRows(Len(TableOrder), was, is), was, is)
<1> DEFINE N == Len(TableOrder)
           part == [i \in DOMAIN TableOrder |->
                        TableDiff(TableOrder[i], was[TableOrder[i]], is[TableOrder[i]])]
           rows(i) == {TableOrder[i]} \X DifferingKeys(TableOrder[i], was, is)
<1>1. /\ N \in Nat /\ DOMAIN TableOrder = 1..N
      /\ \A i \in 1..N : TableOrder[i] \in Tables
      /\ \A i, j \in 1..N : TableOrder[i] = TableOrder[j] => i = j
  BY TablesInOrder
<1>2. CreateChangeset(was, is) = FlattenSeq(part)
  BY DEF CreateChangeset
<1>3. \A i \in 1..N : ListsRows(part[i], rows(i), was, is)
  BY <1>1, TableListed
<1>4. part \in Seq(Seq(Entry)) /\ Len(part) = N
  <2>1. part = [i \in 1..N |-> part[i]]
    BY <1>1
  <2>2. \A i \in 1..N : part[i] \in Seq(Entry)
    BY <1>3 DEF ListsRows
  <2> HIDE DEF part
  <2> QED
    BY <1>1, <2>1, <2>2
<1> HIDE DEF part, N
<1>5. CASE N = 0
  <2>1. FlattenSeq(part) = <<>>
    BY <1>4, <1>5 DEF FlattenSeq
  <2>2. DifferingRows(N, was, is) = {}
    BY <1>5 DEF DifferingRows
  <2>3. ListsRows(<<>>, {}, was, is)
    BY DEF ListsRows
  <2> QED
    BY <1>2, <2>1, <2>2, <2>3 DEF N
<1>6. CASE N # 0
  <2>1. PICK flat : /\ FlattenSeq(part) = flat[N]
                    /\ flat[1] = part[1]
                    /\ \A n \in 1..(N - 1) : flat[n + 1] = flat[n] \o part[n + 1]
    <3>1. Len(part) \in Nat /\ Len(part) # 0 /\ Len(part) = N
      BY <1>1, <1>4, <1>6
    <3>2. \E flat : /\ FlattenSeq(part) = flat[Len(part)]
                    /\ flat[1] = part[1]
                    /\ \A n \in 1..(Len(part) - 1) : flat[n + 1] = flat[n] \o part[n + 1]
      BY <3>1, FlatSteps
    <3> QED
      BY <3>1, <3>2
  <2> DEFINE T == {n \in 0..N : n # 0 => ListsRows(flat[n], DifferingRows(n, was, is), was, is)}
  <2>2. 0 \in T
    BY <1>1
  <2>3. ASSUME NEW n \in 0..(N - 1), n \in T PROVE n + 1 \in T
    <3>1. n + 1 \in 1..N /\ n + 1 \in 0..N /\ 1..(n + 1) = (1..n) \cup {n + 1}
      BY <1>1
    <3>2. DifferingRows(n + 1, was, is) = DifferingRows(n, was, is) \cup rows(n + 1)
      BY <3>1 DEF DifferingRows
    <3>3. CASE n = 0
      <4>1. DifferingRows(n, was, is) = {}
        BY <3>3 DEF DifferingRows
      <4>2. flat[n + 1] = part[n + 1]
        BY <2>1, <3>3
      <4>3. DifferingRows(n + 1, was, is) = rows(n + 1)
        BY <3>2, <4>1
      <4>4. ListsRows(flat[n + 1], DifferingRows(n + 1, was, is), was, is)
        BY <1>3, <3>1, <4>2, <4>3
      <4> QED
        BY <3>1, <4>4
    <3>4. CASE n # 0
      <4>1. flat[n + 1] = flat[n] \o part[n + 1]
        <5>1. n \in 1..(N - 1)
          BY <1>1, <3>4
        <5> QED
          BY <2>1, <5>1
      <4>2. ListsRows(flat[n], DifferingRows(n, was, is), was, is)
        BY <2>3, <3>4
      <4>3. DifferingRows(n, was, is) \cap rows(n + 1) = {}
        <5>1. \A m \in 1..n : TableOrder[m] # TableOrder[n + 1]
          BY <1>1, <3>1
        <5> QED
          BY <5>1 DEF DifferingRows
      <4>4. ListsRows(part[n + 1], rows(n + 1), was, is)
        BY <1>3, <3>1
      <4> HIDE DEF rows
      <4>5. ListsRows(flat[n + 1], DifferingRows(n + 1, was, is), was, is)
        BY <3>2, <4>1, <4>2, <4>3, <4>4, RowsJoined
      <4> QED
        BY <3>1, <4>5
    <3> QED
      BY <3>3, <3>4
  <2> HIDE DEF T
  <2>4. N \in T
    <3>1. 0..N \subseteq T
      BY <1>1, <2>2, <2>3, UpTo
    <3> QED
      BY <1>1, <3>1
  <2> QED
    BY <1>2, <1>6, <2>1, <2>4 DEF N, T
<1> QED
  BY <1>5, <1>6

\* A changeset of two versions of a database has one entry per row that differs
\* and no other; it takes the old version to the new one, and its inverse, made
\* by InvertChangeset in the same order, takes the new version back.
THEOREM ChangesetReplays ==
    ASSUME NEW was \in Database, NEW is \in Database
    PROVE  LET log == CreateChangeset(was, is) IN
           /\ log \in Seq(Entry)
           /\ \A i \in 1..Len(log) : WellFormed(log[i]) /\ TakesEffect(log[i], was)
           /\ \A i, j \in 1..Len(log) : SameRow(log[i], log[j]) => i = j
           /\ \A t \in Tables, k \in Keys :
                (\E i \in 1..Len(log) : log[i].table = t /\ log[i].pk = k) <=> was[t][k] # is[t][k]
           /\ Replay(log, was) = is
           /\ Replay(InvertChangeset(log), is) = was
<1> DEFINE log == CreateChangeset(was, is)
           rows == DifferingRows(Len(TableOrder), was, is)
<1>1. ListsRows(log, rows, was, is)
  BY ChangesetListed
<1>2. ASSUME NEW t, NEW k
      PROVE  <<t, k>> \in rows <=> t \in Tables /\ k \in Keys /\ was[t][k] # is[t][k]
  <2>1. <<t, k>> \in rows <=>
          \E m \in 1..Len(TableOrder) :
            <<t, k>> \in {TableOrder[m]} \X DifferingKeys(TableOrder[m], was, is)
    BY DEF DifferingRows
  <2>2. <<t, k>> \in rows <=>
          \E m \in 1..Len(TableOrder) : t = TableOrder[m] /\ k \in DifferingKeys(t, was, is)
    BY <2>1
  <2>3. t \in Tables <=> \E m \in 1..Len(TableOrder) : t = TableOrder[m]
    BY TablesInOrder
  <2> QED
    BY <2>2, <2>3 DEF DifferingKeys
<1> HIDE DEF log, rows
<1>3. /\ log \in Seq(Entry) /\ Len(log) \in Nat
      /\ \A i, j \in 1..Len(log) : SameRow(log[i], log[j]) => i = j
      /\ \A t, k : <<t, k>> \in rows => \E i \in 1..Len(log) : log[i].table = t /\ log[i].pk = k
  BY <1>1 DEF ListsRows
<1>4. ASSUME NEW i \in 1..Len(log)
      PROVE  /\ log[i].table \in Tables /\ log[i].pk \in Keys
             /\ was[log[i].table][log[i].pk] # is[log[i].table][log[i].pk]
             /\ Invertible(log[i]) /\ WellFormed(log[i]) /\ TakesEffect(log[i], was)
             /\ RowAfter(log[i], was[log[i].table][log[i].pk]) = is[log[i].table][log[i].pk]
  <2> DEFINE t == log[i].table
             k == log[i].pk
             old == was[t][k]
             new == is[t][k]
  <2>1. <<t, k>> \in rows /\ log[i] = Difference(t, k, old, new)
    BY <1>1 DEF ListsRows
  <2>2. t \in Tables /\ k \in Keys /\ old # new
    BY <1>2, <2>1
  <2>3. old \in Row \cup {Absent} /\ new \in Row \cup {Absent}
    BY <2>2 DEF Database
  <2>4. t = log[i].table /\ k = log[i].pk /\ old = was[t][k] /\ new = is[t][k]
    OBVIOUS
  <2> HIDE DEF t, k, old, new
  <2>5. /\ Invertible(log[i]) /\ WellFormed(log[i])
        /\ Effective(log[i], old) /\ RowAfter(log[i], old) = new
    BY <2>1, <2>2, <2>3, DifferenceRight
  <2> QED
    BY <2>2, <2>3, <2>4, <2>5 DEF TakesEffect
<1> DEFINE end == Replay(log, was)
<1>5. RowsAfter(log, was, Len(log), end)
  BY <1>3, <1>4, ReplayOfDistinctRows
<1> HIDE DEF end
<1>6. ASSUME NEW t \in Tables, NEW k \in Keys PROVE end[t][k] = is[t][k]
  <2>1. CASE was[t][k] = is[t][k]
    <3>1. About(log, Len(log), t, k) = {}
      BY <1>4, <2>1 DEF About
    <3> QED
      BY <1>5, <2>1, <3>1 DEF RowsAfter
  <2>2. CASE was[t][k] # is[t][k]
    <3>1. PICK i \in 1..Len(log) : log[i].table = t /\ log[i].pk = k
      <4>1. <<t, k>> \in rows
        BY <1>2, <2>2
      <4> QED
        BY <1>3, <4>1
    <3>2. i \in About(log, Len(log), t, k)
      BY <3>1 DEF About
    <3>3. end[t][k] = RowAfter(log[i], was[t][k])
      BY <1>5, <3>2 DEF RowsAfter
    <3> QED
      BY <1>4, <3>1, <3>3
  <2> QED
    BY <2>1, <2>2
<1>7. end = is
  <2>1. end \in Database
    BY <1>5 DEF RowsAfter
  <2> QED
    BY <1>6, <2>1, DatabasesAreFunctions
<1>8. Replay(InvertChangeset(log), end) = was
  BY <1>3, <1>4, InverseReplays DEF end
<1>9. \A t \in Tables, k \in Keys :
        (\E i \in 1..Len(log) : log[i].table = t /\ log[i].pk = k) <=> was[t][k] # is[t][k]
  <2> TAKE t \in Tables, k \in Keys
  <2>1. (\E i \in 1..Len(log) : log[i].table = t /\ log[i].pk = k) => was[t][k] # is[t][k]
    BY <1>4
  <2>2. ASSUME was[t][k] # is[t][k]
        PROVE  \E i \in 1..Len(log) : log[i].table = t /\ log[i].pk = k
    <3>1. <<t, k>> \in rows
      BY <1>2, <2>2
    <3> QED
      BY <1>3, <3>1
  <2> QED
    BY <2>1, <2>2
<1> QED
  BY <1>3, <1>4, <1>7, <1>8, <1>9 DEF end, log

\* Two versions that are the same yield no entry.
THEOREM NothingToWrite ==
    ASSUME NEW db \in Database
    PROVE  CreateChangeset(db, db) = <<>>
<1> DEFINE log == CreateChangeset(db, db)
<1>1. ListsRows(log, DifferingRows(Len(TableOrder), db, db), db, db)
  BY ChangesetListed
<1>2. DifferingRows(Len(TableOrder), db, db) = {}
  BY DEF DifferingRows, DifferingKeys
<1> HIDE DEF log
<1>3. log \in Seq(Entry) /\ 1..Len(log) = {}
  BY <1>1, <1>2 DEF ListsRows
<1>4. Len(log) = 0
  <2>1. Len(log) \in Nat
    BY <1>3
  <2>2. Len(log) # 0 => 1 \in 1..Len(log)
    BY <2>1
  <2> QED
    BY <1>3, <2>2
<1> QED
  BY <1>3, <1>4 DEF log

-----------------------------------------------------------------------------
(* What executing a set of entries leaves of a row, in whatever order      *)
(* A value, of a column or the fact that there is a row, is moved by each  *)
(* entry from what the entry says was there to what it says is there.      *)
(* However the moves are ordered, those that lead to a value and those     *)
(* that lead away from it balance, but for the two ends of the walk.       *)

One(b) == IF b THEN 1 ELSE 0

Where(f, X, v) == {i \in X : f[i] = v}

\* The entries X lead from value s to value e.
Balanced(from, to, X, s, e) ==
    \A v : One(e = v) + Cardinality(Where(from, X, v)) = One(s = v) + Cardinality(Where(to, X, v))

\* Two values of which one (is) replaced the other (was), before or after.
Carried(was, is, plan, file) ==
    IF is = was THEN file = plan ELSE file = is /\ plan = was

LEMMA WhereOneMore ==
    ASSUME NEW X, IsFiniteSet(X), NEW i, i \notin X, NEW f, NEW v
    PROVE  /\ Cardinality(Where(f, X, v)) \in Nat
           /\ Cardinality(Where(f, X \cup {i}, v)) = Cardinality(Where(f, X, v)) + One(f[i] = v)
<1>1. Where(f, X, v) \in SUBSET X /\ i \notin Where(f, X, v)
  BY DEF Where
<1>2. IsFiniteSet(Where(f, X, v))
  BY <1>1, FS_Subset
<1>3. Cardinality(Where(f, X, v)) \in Nat
  BY <1>2, FS_CardinalityType
<1>4. CASE f[i] = v
  <2>1. Where(f, X \cup {i}, v) = Where(f, X, v) \cup {i}
    BY <1>4 DEF Where
  <2>2. Cardinality(Where(f, X, v) \cup {i}) = Cardinality(Where(f, X, v)) + 1
    BY <1>1, <1>2, FS_AddElement
  <2> QED
    BY <1>3, <1>4, <2>1, <2>2 DEF One
<1>5. CASE f[i] # v
  <2>1. Where(f, X \cup {i}, v) = Where(f, X, v)
    BY <1>5 DEF Where
  <2> QED
    BY <1>3, <1>5, <2>1 DEF One
<1> QED
  BY <1>4, <1>5

\* One entry more: it moves the value, or leaves it alone.
LEMMA BalanceStep ==
    ASSUME NEW X, IsFiniteSet(X), NEW i, i \notin X, NEW from, NEW to, NEW s, NEW m, NEW e,
           Balanced(from, to, X, s, m),
           \/ from[i] = m /\ to[i] = e
           \/ from[i] = to[i] /\ e = m
    PROVE  Balanced(from, to, X \cup {i}, s, e)
<1> SUFFICES ASSUME NEW v
             PROVE  One(e = v) + Cardinality(Where(from, X \cup {i}, v))
                        = One(s = v) + Cardinality(Where(to, X \cup {i}, v))
  BY DEF Balanced
<1>1. One(m = v) + Cardinality(Where(from, X, v)) = One(s = v) + Cardinality(Where(to, X, v))
  BY DEF Balanced
<1>2. /\ Cardinality(Where(from, X, v)) \in Nat
      /\ Cardinality(Where(from, X \cup {i}, v)) = Cardinality(Where(from, X, v)) + One(from[i] = v)
  BY WhereOneMore
<1>3. /\ Cardinality(Where(to, X, v)) \in Nat
      /\ Cardinality(Where(to, X \cup {i}, v)) = Cardinality(Where(to, X, v)) + One(to[i] = v)
  BY WhereOneMore
<1>4. \A b : One(b) \in Nat
  BY DEF One
<1>5. \/ One(from[i] = v) = One(m = v) /\ One(to[i] = v) = One(e = v)
      \/ One(from[i] = v) = One(to[i] = v) /\ One(e = v) = One(m = v)
  OBVIOUS
<1> DEFINE A == Cardinality(Where(from, X, v))
           B == Cardinality(Where(to, X, v))
           E == One(e = v)
           M == One(m = v)
           S == One(s = v)
           F == One(from[i] = v)
           G == One(to[i] = v)
<1>6. /\ A \in Nat /\ B \in Nat /\ E \in Nat /\ M \in Nat /\ S \in Nat /\ F \in Nat /\ G \in Nat
      /\ M + A = S + B
      /\ (F = M /\ G = E) \/ (F = G /\ E = M)
  BY <1>1, <1>2, <1>3, <1>4, <1>5
<1> HIDE DEF A, B, E, M, S, F, G
<1>7. E + (A + F) = S + (B + G)
  BY <1>6
<1> QED
  BY <1>2, <1>3, <1>7 DEF A, B, E, S, F, G

\* The same entries on two values: equal ones stay equal, and of different ones
\* neither is touched.
LEMMA BalanceEnds ==
    ASSUME NEW X, IsFiniteSet(X), NEW from, NEW to, NEW s, NEW e, NEW ps, NEW pe,
           Balanced(from, to, X, s, e), Balanced(from, to, X, ps, pe)
    PROVE  Carried(ps, s, pe, e)
<1>1. ASSUME NEW v
      PROVE  /\ One(e = v) \in {0, 1} /\ One(s = v) \in {0, 1}
             /\ One(pe = v) \in {0, 1} /\ One(ps = v) \in {0, 1}
             /\ One(e = v) + One(ps = v) = One(pe = v) + One(s = v)
  <2> DEFINE A == Cardinality(Where(from, X, v))
             B == Cardinality(Where(to, X, v))
  <2>1. A \in Nat /\ B \in Nat
    <3>1. Where(from, X, v) \in SUBSET X /\ Where(to, X, v) \in SUBSET X
      BY DEF Where
    <3> QED
      BY <3>1, FS_Subset, FS_CardinalityType
  <2>2. One(e = v) + A = One(s = v) + B /\ One(pe = v) + A = One(ps = v) + B
    BY DEF Balanced
  <2>3. /\ One(e = v) \in {0, 1} /\ One(s = v) \in {0, 1}
        /\ One(pe = v) \in {0, 1} /\ One(ps = v) \in {0, 1}
    BY DEF One
  <2> HIDE DEF A, B
  <2> QED
    BY <2>1, <2>2, <2>3
<1>2. CASE s = ps
  <2>1. One(e = e) = 1 /\ (One(pe = e) = 1 => pe = e)
    BY DEF One
  <2>2. One(e = e) + One(ps = e) = One(pe = e) + One(s = e) /\ One(ps = e) = One(s = e)
    BY <1>1, <1>2
  <2>3. One(ps = e) \in {0, 1} /\ One(pe = e) \in {0, 1} /\ One(s = e) \in {0, 1}
    BY <1>1
  <2>4. One(pe = e) = 1
    BY <2>1, <2>2, <2>3
  <2> QED
    BY <1>2, <2>1, <2>4 DEF Carried
<1>3. CASE s # ps
  <2>1. One(s = s) = 1 /\ One(ps = s) = 0 /\ One(ps = ps) = 1 /\ One(s = ps) = 0
    BY <1>3 DEF One
  <2>2. /\ One(e = s) + 0 = One(pe = s) + 1 /\ One(e = s) \in {0, 1} /\ One(pe = s) \in {0, 1}
        /\ One(e = ps) + 1 = One(pe = ps) + 0 /\ One(e = ps) \in {0, 1} /\ One(pe = ps) \in {0, 1}
    BY <1>1, <2>1
  <2>3. One(e = s) = 1 /\ One(pe = ps) = 1
    BY <2>2
  <2>4. e = s /\ pe = ps
    BY <2>3 DEF One
  <2> QED
    BY <1>3, <2>4 DEF Carried
<1> QED
  BY <1>2, <1>3

\* A column of a row that may not be there, and what an entry says of it.
Seen(row, c) == IF row = Absent THEN Undefined ELSE row[c]

SeenBefore(log, c) ==
    [i \in DOMAIN log |-> IF log[i].op = "insert" THEN Undefined ELSE log[i].old[c]]
SeenAfter(log, c) ==
    [i \in DOMAIN log |-> IF log[i].op = "delete" THEN Undefined ELSE log[i].new[c]]

\* Whether the row is there, and what an entry says of that.
ThereBefore(log) == [i \in DOMAIN log |-> log[i].op # "insert"]
ThereAfter(log) == [i \in DOMAIN log |-> log[i].op # "delete"]

\* The entries X, all of one row, lead from version s of it to version e.
RowBalanced(log, X, s, e) ==
    /\ Balanced(ThereBefore(log), ThereAfter(log), X, s # Absent, e # Absent)
    /\ \A c \in Cols : Balanced(SeenBefore(log, c), SeenAfter(log, c), X, Seen(s, c), Seen(e, c))

\* Carried, for a row and for each of its columns.
RowCarried(was, is, plan, file) ==
    /\ Carried(was # Absent, is # Absent, plan # Absent, file # Absent)
    /\ \A c \in Cols : Carried(Seen(was, c), Seen(is, c), Seen(plan, c), Seen(file, c))

Concerning(log, X, t, k) == {i \in X : log[i].table = t /\ log[i].pk = k}

\* The entries X of a log lead from database db to database d.
LeadTo(log, X, db, d) ==
    /\ d \in Database
    /\ \A t \in Tables, k \in Keys : RowBalanced(log, Concerning(log, X, t, k), db[t][k], d[t][k])

LEMMA NothingLeads == ASSUME NEW log, NEW db \in Database PROVE LeadTo(log, {}, db, db)
<1>1. ASSUME NEW from, NEW to, NEW s PROVE Balanced(from, to, {}, s, s)
  BY DEF Balanced, Where
<1>2. \A t, k : Concerning(log, {}, t, k) = {}
  BY DEF Concerning
<1> QED
  BY <1>1, <1>2 DEF LeadTo, RowBalanced

\* What an effective entry does to a row is what it says.
LEMMA EntryMoves ==
    ASSUME NEW e, Invertible(e), NEW row \in Row \cup {Absent}, Effective(e, row)
    PROVE  /\ \/ /\ (e.op # "insert") = (row # Absent)
                 /\ (e.op # "delete") = (RowAfter(e, row) # Absent)
              \/ /\ (e.op # "insert") = (e.op # "delete")
                 /\ (RowAfter(e, row) # Absent) = (row # Absent)
           /\ \A c \in Cols :
                \/ /\ (IF e.op = "insert" THEN Undefined ELSE e.old[c]) = Seen(row, c)
                   /\ (IF e.op = "delete" THEN Undefined ELSE e.new[c]) = Seen(RowAfter(e, row), c)
                \/ /\ (IF e.op = "insert" THEN Undefined ELSE e.old[c])
                        = (IF e.op = "delete" THEN Undefined ELSE e.new[c])
                   /\ Seen(RowAfter(e, row), c) = Seen(row, c)
<1>1. e.op \in {"insert", "delete", "update"}
  BY DEF Invertible, Entry, Operations
<1>2. CASE e.op = "insert"
  <2>1. row = Absent /\ RowAfter(e, row) = e.new /\ e.new \in Row
    BY <1>2 DEF Invertible, Effective, RowAfter
  <2>2. e.new # Absent
    BY <2>1, DefinedInRow
  <2> QED
    BY <1>2, <2>1, <2>2 DEF Seen
<1>3. CASE e.op = "delete"
  <2>1. RowAfter(e, row) = Absent /\ Matches(e, row) /\ e.old \in Row
    BY <1>3 DEF Invertible, Effective, RowAfter
  <2>2. row # Absent /\ \A c \in Cols : row[c] = e.old[c]
    BY <2>1, DefinedInRow DEF Matches
  <2> QED
    BY <1>3, <2>1, <2>2 DEF Seen
<1>4. CASE e.op = "update"
  <2>1. /\ Matches(e, row) /\ RowAfter(e, row) = Overlay(e.new, row)
        /\ \A c \in Cols : (e.old[c] = Undefined) = (e.new[c] = Undefined)
        /\ e.new \in EntryValues
    BY <1>4 DEF Invertible, Effective, RowAfter, Entry
  <2>2. row \in Row /\ row # Absent
    BY <2>1 DEF Matches
  <2>3. Overlay(e.new, row) \in Row
    BY <2>1, <2>2 DEF Overlay, Row, EntryValues
  <2>4. Overlay(e.new, row) # Absent
    BY <2>3, DefinedInRow
  <2>5. ASSUME NEW c \in Cols
        PROVE  \/ e.old[c] = row[c] /\ e.new[c] = Overlay(e.new, row)[c]
               \/ e.old[c] = e.new[c] /\ Overlay(e.new, row)[c] = row[c]
    <3>1. CASE e.new[c] = Undefined
      BY <2>1, <3>1 DEF Overlay
    <3>2. CASE e.new[c] # Undefined
      BY <2>1, <3>2 DEF Overlay, Matches
    <3> QED
      BY <3>1, <3>2
  <2> QED
    BY <1>4, <2>1, <2>2, <2>4, <2>5 DEF Seen
<1> QED
  BY <1>1, <1>2, <1>3, <1>4

\* One entry more, any that is left and takes effect.
LEMMA OneMoreLeads ==
    ASSUME NEW log, Len(log) \in Nat, DOMAIN log = 1..Len(log), NEW X \in SUBSET DOMAIN log,
           NEW i \in DOMAIN log, i \notin X, Invertible(log[i]),
           NEW db, NEW m, LeadTo(log, X, db, m), DatabaseAfter(log[i], m) # Absent
    PROVE  LeadTo(log, X \cup {i}, db, DatabaseAfter(log[i], m))
<1> DEFINE e == log[i]
           d == DatabaseAfter(e, m)
           was == m[e.table][e.pk]
<1>1. /\ m \in Database /\ e.table \in Tables /\ e.pk \in Keys /\ Effective(e, was)
  BY DEF LeadTo, Invertible, Entry, DatabaseAfter
<1>2. was \in Row \cup {Absent}
  BY <1>1 DEF Database
<1>3. RowAfter(e, was) \in Row \cup {Absent}
  BY <1>1, <1>2, InverseUndoesEntry
<1>4. /\ d \in Database
      /\ \A t \in Tables, k \in Keys :
            d[t][k] = IF t = e.table /\ k = e.pk THEN RowAfter(e, m[t][k]) ELSE m[t][k]
  BY <1>1, <1>3, DatabaseAfterRow DEF TakesEffect
<1> HIDE DEF d
<1>5. ASSUME NEW t \in Tables, NEW k \in Keys
      PROVE  RowBalanced(log, Concerning(log, X \cup {i}, t, k), db[t][k], d[t][k])
  <2> DEFINE Y == Concerning(log, X, t, k)
  <2>1. RowBalanced(log, Y, db[t][k], m[t][k])
    BY DEF LeadTo
  <2>2. CASE t = e.table /\ k = e.pk
    <3>1. Concerning(log, X \cup {i}, t, k) = Y \cup {i}
      BY <2>2 DEF Concerning
    <3>2. i \notin Y /\ IsFiniteSet(Y)
      <4>1. Y \in SUBSET (1..Len(log)) /\ i \notin Y
        BY DEF Concerning
      <4>2. IsFiniteSet(1..Len(log))
        BY FS_Interval
      <4> HIDE DEF Y
      <4> QED
        BY <4>1, <4>2, FS_Subset
    <3>3. d[t][k] = RowAfter(e, m[t][k]) /\ m[t][k] = was
      BY <1>4, <2>2
    <3> HIDE DEF Y
    <3>4. Balanced(ThereBefore(log), ThereAfter(log), Y \cup {i}, db[t][k] # Absent, d[t][k] # Absent)
      <4>1. \/ ThereBefore(log)[i] = (m[t][k] # Absent) /\ ThereAfter(log)[i] = (d[t][k] # Absent)
            \/ ThereBefore(log)[i] = ThereAfter(log)[i] /\ (d[t][k] # Absent) = (m[t][k] # Absent)
        BY <1>1, <1>2, <3>3, EntryMoves DEF ThereBefore, ThereAfter
      <4>2. Balanced(ThereBefore(log), ThereAfter(log), Y, db[t][k] # Absent, m[t][k] # Absent)
        BY <2>1 DEF RowBalanced
      <4> QED
        BY <3>2, <4>1, <4>2, BalanceStep
    <3>5. ASSUME NEW c \in Cols
          PROVE  Balanced(SeenBefore(log, c), SeenAfter(log, c), Y \cup {i},
                          Seen(db[t][k], c), Seen(d[t][k], c))
      <4>1. \/ SeenBefore(log, c)[i] = Seen(m[t][k], c) /\ SeenAfter(log, c)[i] = Seen(d[t][k], c)
            \/ SeenBefore(log, c)[i] = SeenAfter(log, c)[i] /\ Seen(d[t][k], c) = Seen(m[t][k], c)
        BY <1>1, <1>2, <3>3, EntryMoves DEF SeenBefore, SeenAfter
      <4>2. Balanced(SeenBefore(log, c), SeenAfter(log, c), Y, Seen(db[t][k], c), Seen(m[t][k], c))
        BY <2>1 DEF RowBalanced
      <4> QED
        BY <3>2, <4>1, <4>2, BalanceStep
    <3> QED
      BY <3>1, <3>4, <3>5 DEF RowBalanced
  <2>3. CASE ~(t = e.table /\ k = e.pk)
    <3>1. Concerning(log, X \cup {i}, t, k) = Y
      BY <2>3 DEF Concerning
    <3>2. d[t][k] = m[t][k]
      BY <1>4, <2>3
    <3> QED
      BY <2>1, <3>1, <3>2
  <2> QED
    BY <2>2, <2>3
<1> QED
  BY <1>4, <1>5 DEF LeadTo, d

LEMMA RowsCarried ==
    ASSUME NEW log, NEW X, IsFiniteSet(X), NEW plan, NEW file, NEW plan2, NEW file2,
           RowBalanced(log, X, plan, plan2), RowBalanced(log, X, file, file2)
    PROVE  RowCarried(plan, file, plan2, file2)
<1>1. Carried(plan # Absent, file # Absent, plan2 # Absent, file2 # Absent)
  BY BalanceEnds DEF RowBalanced
<1>2. ASSUME NEW c \in Cols
      PROVE  Carried(Seen(plan, c), Seen(file, c), Seen(plan2, c), Seen(file2, c))
  BY BalanceEnds DEF RowBalanced
<1> QED
  BY <1>1, <1>2 DEF RowCarried

\* Rows are told apart by what is seen of them.
LEMMA SeenAlike ==
    ASSUME NEW r \in Row \cup {Absent}, NEW s \in Row \cup {Absent},
           (r # Absent) = (s # Absent), \A c \in Cols : Seen(r, c) = Seen(s, c)
    PROVE  r = s
<1>1. CASE r = Absent
  BY <1>1
<1>2. CASE r # Absent
  <2>1. r \in Row /\ s \in Row /\ \A c \in Cols : r[c] = s[c]
    BY <1>2 DEF Seen
  <2> QED
    BY <2>1, RowsAreFunctions
<1> QED
  BY <1>1, <1>2

\* From the same version of a row the same entries lead to the same version.
LEMMA SameEnds ==
    ASSUME NEW log, NEW X, IsFiniteSet(X), NEW row,
           NEW r \in Row \cup {Absent}, NEW s \in Row \cup {Absent},
           RowBalanced(log, X, row, r), RowBalanced(log, X, row, s)
    PROVE  r = s
<1>1. RowCarried(row, row, s, r)
  BY RowsCarried
<1> QED
  BY <1>1, SeenAlike DEF RowCarried, Carried

LEMMA ConcerningFinite ==
    ASSUME NEW log, Len(log) \in Nat, NEW X \in SUBSET (1..Len(log)), NEW t, NEW k
    PROVE  IsFiniteSet(Concerning(log, X, t, k))
<1> DEFINE Y == Concerning(log, X, t, k)
<1>1. Y \in SUBSET (1..Len(log))
  BY DEF Concerning
<1>2. IsFiniteSet(1..Len(log))
  BY FS_Interval
<1> HIDE DEF Y
<1>3. IsFiniteSet(Y)
  BY <1>1, <1>2, FS_Subset
<1> QED
  BY <1>3 DEF Y

\* Executed on two databases, in the same order or in different ones: what one had
\* and the other had not stays so, and where they agreed they agree in the end.
THEOREM EditsAreCarried ==
    ASSUME NEW log, Len(log) \in Nat, NEW X \in SUBSET (1..Len(log)),
           NEW plan, NEW file, NEW plan2, NEW file2,
           LeadTo(log, X, plan, plan2), LeadTo(log, X, file, file2),
           NEW t \in Tables, NEW k \in Keys
    PROVE  RowCarried(plan[t][k], file[t][k], plan2[t][k], file2[t][k])
BY ConcerningFinite, RowsCarried DEF LeadTo

\* The outcome does not depend on the order.
THEOREM OrderDoesNotMatter ==
    ASSUME NEW log, Len(log) \in Nat, NEW X \in SUBSET (1..Len(log)),
           NEW db, NEW d, NEW d2, LeadTo(log, X, db, d), LeadTo(log, X, db, d2)
    PROVE  d = d2
<1>1. d \in Database /\ d2 \in Database
  BY DEF LeadTo
<1>2. ASSUME NEW t \in Tables, NEW k \in Keys PROVE d[t][k] = d2[t][k]
  <2>1. d[t][k] \in Row \cup {Absent} /\ d2[t][k] \in Row \cup {Absent}
    BY <1>1 DEF Database
  <2> QED
    BY <2>1, ConcerningFinite, SameEnds DEF LeadTo
<1> QED
  BY <1>1, <1>2, DatabasesAreFunctions

\* A replay executes every entry of its log, in its order.
LEMMA ReplayLeads ==
    ASSUME NEW log, Len(log) \in Nat, DOMAIN log = 1..Len(log), NEW db \in Database,
           \A i \in 1..Len(log) : Invertible(log[i]), Replay(log, db) # Absent
    PROVE  LeadTo(log, 1..Len(log), db, Replay(log, db))
<1> DEFINE stage == Stages(log, db)
           N == Len(log)
           T == {n \in 0..N : stage[n] # Absent => LeadTo(log, 1..n, db, stage[n])}
<1>1. 0 \in T
  <2>1. stage[0] = db /\ 1..0 = {}
    BY StageEquations
  <2> HIDE DEF stage
  <2> QED
    BY <2>1, NothingLeads
<1>2. ASSUME NEW n \in 0..(N - 1), n \in T PROVE n + 1 \in T
  <2>1. /\ n + 1 \in 1..N /\ n + 1 \in 0..N /\ (n + 1) - 1 = n /\ n + 1 \notin 1..n
        /\ 1..(n + 1) = (1..n) \cup {n + 1} /\ 1..n \in SUBSET (1..N)
    OBVIOUS
  <2>2. stage[n + 1] = DatabaseAfter(log[n + 1], stage[n])
    BY <2>1, StageEquations
  <2> HIDE DEF stage
  <2> SUFFICES ASSUME stage[n + 1] # Absent PROVE LeadTo(log, 1..(n + 1), db, stage[n + 1])
    BY <2>1
  <2>3. LeadTo(log, 1..n, db, stage[n])
    BY <1>2, <2>2 DEF DatabaseAfter
  <2>4. LeadTo(log, (1..n) \cup {n + 1}, db, DatabaseAfter(log[n + 1], stage[n]))
    BY <2>1, <2>2, <2>3, OneMoreLeads
  <2> QED
    BY <2>1, <2>2, <2>4
<1> HIDE DEF T
<1>3. 0..N \subseteq T
  BY <1>1, <1>2, UpTo
<1>4. N \in T
  BY <1>3
<1> QED
  BY <1>4 DEF T, Replay

\* A log replayed one entry longer.
LEMMA ReplayAppended ==
    ASSUME NEW S, NEW r \in Seq(S), NEW e \in S, NEW db
    PROVE  Replay(Append(r, e), db) = DatabaseAfter(e, Replay(r, db))
<1>1. <<e>> \in Seq(S) /\ Len(<<e>>) = 1 /\ << e >>[1] = e
  OBVIOUS
<1>2. Append(r, e) = ConcatChanges(r, <<e>>)
  BY DEF ConcatChanges
<1>3. Replay(<<e>>, Replay(r, db)) = DatabaseAfter(e, Replay(r, db))
  <2> DEFINE stage == Stages(<<e>>, Replay(r, db))
  <2>1. stage[0] = Replay(r, db) /\ stage[1] = DatabaseAfter(e, stage[0])
    <3>1. 1 \in 1..1 /\ 1 - 1 = 0
      OBVIOUS
    <3> QED
      BY <1>1, <3>1, StageEquations
  <2> QED
    BY <1>1, <2>1 DEF Replay
<1> DEFINE one == <<e>>
<1>4. one \in Seq(S)
  OBVIOUS
<1> HIDE DEF one
<1>5. Replay(ConcatChanges(r, one), db) = Replay(one, Replay(r, db))
  BY <1>4, ReplayOfConcatenation
<1> QED
  BY <1>2, <1>3, <1>5 DEF one

\* So does the replay of some of the entries, in the order of the log.
LEMMA PickedLeads ==
    ASSUME NEW log \in Seq(Entry), NEW I \in SUBSET (1..Len(log)), NEW db \in Database,
           \A i \in I : Invertible(log[i]), Replay(Picked(log, I), db) # Absent
    PROVE  LeadTo(log, I, db, Replay(Picked(log, I), db))
<1> DEFINE N == Len(log)
<1>1. N \in Nat /\ DOMAIN log = 1..N
  OBVIOUS
<1>2. PICK p : PickedUpTo(log, I, N, p) /\ Picked(log, I) = p[N]
  <2>1. \E picked : PickedUpTo(log, I, N, picked)
    BY <1>1, PickedExist
  <2> DEFINE p == CHOOSE picked : PickedUpTo(log, I, N, picked)
  <2>2. PickedUpTo(log, I, N, p)
    BY <2>1
  <2>3. Picked(log, I) = p[N]
    BY DEF Picked, PickedUpTo
  <2> QED
    BY <2>2, <2>3
<1> DEFINE Leads(n) == LeadTo(log, I \cap (1..n), db, Replay(p[n], db))
           T == {n \in 0..N : p[n] \in Seq(Entry) /\ (Replay(p[n], db) # Absent => Leads(n))}
<1>3. 0 \in T
  <2>1. p[0] = <<>> /\ I \cap (1..0) = {}
    BY <1>1, <1>2 DEF PickedUpTo
  <2>2. Replay(<<>>, db) = db
    <3>1. Len(<<>>) = 0
      OBVIOUS
    <3> QED
      BY <3>1, StageEquations DEF Replay
  <2>3. Leads(0)
    BY <2>1, <2>2, NothingLeads
  <2>4. p[0] \in Seq(Entry) /\ 0 \in 0..N
    BY <1>1, <2>1
  <2> HIDE DEF Leads
  <2> QED
    BY <2>3, <2>4
<1>4. ASSUME NEW n \in 0..(N - 1), n \in T PROVE n + 1 \in T
  <2>1. /\ n + 1 \in 1..N /\ n + 1 \in 0..N /\ n + 1 # 0 /\ (n + 1) - 1 = n /\ n + 1 \notin 1..n
        /\ 1..(n + 1) = (1..n) \cup {n + 1}
    BY <1>1
  <2>2. p[n + 1] = IF n + 1 \in I THEN Append(p[n], log[n + 1]) ELSE p[n]
    BY <1>2, <2>1 DEF PickedUpTo
  <2>3. p[n] \in Seq(Entry) /\ log[n + 1] \in Entry
    <3>1. log[n + 1] \in Entry
      BY <1>1, <2>1
    <3> QED
      BY <1>4, <3>1
  <2>4. CASE n + 1 \notin I
    <3>1. p[n + 1] = p[n] /\ I \cap (1..(n + 1)) = I \cap (1..n)
      BY <2>1, <2>2, <2>4
    <3> QED
      BY <1>4, <2>1, <3>1
  <2>5. CASE n + 1 \in I
    <3>1. I \cap (1..(n + 1)) = (I \cap (1..n)) \cup {n + 1}
      BY <2>1, <2>5
    <3>2. Replay(p[n + 1], db) = DatabaseAfter(log[n + 1], Replay(p[n], db))
      BY <2>2, <2>3, <2>5, ReplayAppended
    <3>3. p[n + 1] \in Seq(Entry)
      BY <2>2, <2>3, <2>5
    <3>4. ASSUME Replay(p[n + 1], db) # Absent
          PROVE  LeadTo(log, I \cap (1..(n + 1)), db, Replay(p[n + 1], db))
      <4>1. LeadTo(log, I \cap (1..n), db, Replay(p[n], db))
        BY <1>4, <3>2, <3>4 DEF DatabaseAfter
      <4>2. I \cap (1..n) \in SUBSET DOMAIN log /\ n + 1 \in DOMAIN log /\ n + 1 \notin I \cap (1..n)
        BY <1>1, <2>1
      <4>3. Invertible(log[n + 1])
        BY <2>5
      <4> QED
        BY <1>1, <3>1, <3>2, <3>4, <4>1, <4>2, <4>3, OneMoreLeads
    <3> QED
      BY <2>1, <3>3, <3>4
  <2> QED
    BY <2>4, <2>5
<1> HIDE DEF T
<1> HIDE DEF N
<1>5. N \in T
  <2>1. 0..N \subseteq T
    BY <1>1, <1>3, <1>4, UpTo
  <2> QED
    BY <1>1, <2>1
<1>6. I \cap (1..N) = I
  BY DEF N
<1> QED
  BY <1>2, <1>5, <1>6 DEF T
=============================================================================
