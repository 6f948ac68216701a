----------------------------- MODULE UndoProofs -----------------------------
(***************************************************************************)
(* A changeset made query by query is right about every row left alone     *)
(* meanwhile, and the changesets of successive sessions replay and undo:   *)
(* for any tables, rows and number of sessions.                            *)
(***************************************************************************)
EXTENDS Undo, ChangesetProofs

\* Which of the three queries of a table finds a row.
Kind(old, new) == IF old = Absent THEN 0 ELSE IF new = Absent THEN 1 ELSE 2

Asks(n, t, kind) == TableOrder[(n \div 3) + 1] = t /\ n % 3 = kind

Asked(q, t, kind) == \E n \in 0..(q - 1) : Asks(n, t, kind)

OfRow(e, t, k) == e.table = t /\ e.pk = k

\* After q queries the entries f are right about a row: once the query that
\* finds it has been made they hold its difference, once.
RowRight(f, q, t, k, old, new) ==
    /\ \A i \in 1..Len(f) : OfRow(f[i], t, k) => /\ old # new
                                                 /\ f[i] = Difference(t, k, old, new)
                                                 /\ Asked(q, t, Kind(old, new))
    /\ \A i, j \in 1..Len(f) : OfRow(f[i], t, k) /\ OfRow(f[j], t, k) => i = j
    /\ old # new /\ Asked(q, t, Kind(old, new)) => \E i \in 1..Len(f) : OfRow(f[i], t, k)

FileRight ==
    \A t \in Tables, k \in Keys :
        <<t, k>> \notin touched => RowRight(file, query, t, k, was[t][k], db[t][k])

CallTyped ==
    /\ was \in Database /\ db \in Database
    /\ query \in Int /\ query <= Queries /\ Idle <= query
    /\ file \in Seq(Entry)
    /\ \A i \in 1..Len(file) : file[i].pk \in Keys
    /\ query = Idle => file = <<>>

-----------------------------------------------------------------------------
(* The queries *)

QueryKeys(n, t) == {k \in Keys : /\ was[t][k] # db[t][k]
                                 /\ Kind(was[t][k], db[t][k]) = n % 3}

\* Query n finds the differing rows of its kind in its table.
LEMMA FoundRight ==
    ASSUME CallTyped, NEW n \in 0..(Queries - 1)
    PROVE  \E t \in Tables : /\ t = TableOrder[(n \div 3) + 1]
                             /\ Lists(Found(n), t, QueryKeys(n, t), was[t], db[t])
<1> DEFINE t == TableOrder[(n \div 3) + 1]
<1>1. /\ Len(TableOrder) \in Nat /\ n \in Nat /\ n % 3 \in 0..2
      /\ (n \div 3) + 1 \in 1..Len(TableOrder)
  BY TablesInOrder DEF Queries
<1>2. t \in Tables
  BY <1>1, TablesInOrder
<1>3. Found(n) = CASE n % 3 = 0 -> Inserted(t, was[t], db[t])
                   [] n % 3 = 1 -> Deleted(t, was[t], db[t])
                   [] n % 3 = 2 -> Updated(t, was[t], db[t])
  BY DEF Found
<1> HIDE DEF t
<1>4. was[t] \in TableRows /\ db[t] \in TableRows
  BY <1>2 DEF CallTyped, Database, TableRows
<1> DEFINE old == was[t]
           new == db[t]
<1>5. /\ Lists(Inserted(t, old, new), t, InsertedKeys(old, new), old, new)
      /\ Lists(Deleted(t, old, new), t, InsertedKeys(new, old), old, new)
      /\ Lists(Updated(t, old, new), t, ModifiedKeys(old, new), old, new)
  BY <1>2, <1>4, QueriesList
<1>6. QueryKeys(n, t) = {k \in Keys : old[k] # new[k] /\ Kind(old[k], new[k]) = n % 3}
  BY DEF QueryKeys
<1> HIDE DEF old, new
<1>7. CASE n % 3 = 0
  <2>1. QueryKeys(n, t) = InsertedKeys(old, new)
    BY <1>6, <1>7 DEF InsertedKeys, Kind
  <2>2. Found(n) = Inserted(t, old, new)
    BY <1>3, <1>7 DEF old, new
  <2> QED
    BY <1>2, <1>5, <2>1, <2>2 DEF t, old, new
<1>8. CASE n % 3 = 1
  <2>1. QueryKeys(n, t) = InsertedKeys(new, old)
    BY <1>6, <1>8 DEF InsertedKeys, Kind
  <2>2. Found(n) = Deleted(t, old, new)
    BY <1>3, <1>8 DEF old, new
  <2> QED
    BY <1>2, <1>5, <2>1, <2>2 DEF t, old, new
<1>9. CASE n % 3 = 2
  <2>1. QueryKeys(n, t) = ModifiedKeys(old, new)
    BY <1>6, <1>9 DEF ModifiedKeys, Kind
  <2>2. Found(n) = Updated(t, old, new)
    BY <1>3, <1>9 DEF old, new
  <2> QED
    BY <1>2, <1>5, <2>1, <2>2 DEF t, old, new
<1> QED
  BY <1>1, <1>7, <1>8, <1>9

\* No row is asked for twice.
LEMMA AskedOnce ==
    ASSUME NEW n \in 0..(Queries - 1), NEW m \in 0..(Queries - 1), NEW t, NEW kind,
           Asks(n, t, kind), Asks(m, t, kind)
    PROVE  n = m
<1>1. /\ Len(TableOrder) \in Nat /\ n \in Nat /\ m \in Nat
      /\ (n \div 3) + 1 \in 1..Len(TableOrder) /\ (m \div 3) + 1 \in 1..Len(TableOrder)
  BY TablesInOrder DEF Queries
<1>2. TableOrder[(n \div 3) + 1] = TableOrder[(m \div 3) + 1] /\ n % 3 = m % 3
  BY DEF Asks
<1>3. (n \div 3) + 1 = (m \div 3) + 1
  BY <1>1, <1>2, TablesInOrder
<1>4. n \div 3 = m \div 3
  BY <1>1, <1>3
<1> QED
  BY <1>1, <1>2, <1>4

\* Every row is asked for in time.
LEMMA AskedInTime ==
    ASSUME NEW t \in Tables, NEW old, NEW new
    PROVE  Asked(Queries, t, Kind(old, new))
<1>1. PICK i \in 1..Len(TableOrder) : TableOrder[i] = t
  BY TablesInOrder
<1> DEFINE kind == Kind(old, new)
           n == 3 * (i - 1) + kind
<1>2. kind \in {0, 1, 2}
  BY DEF Kind
<1> HIDE DEF kind
<1>3. /\ n \in 0..(Queries - 1) /\ n \div 3 = i - 1 /\ n % 3 = kind
  <2>1. i \in Nat /\ i - 1 \in Nat /\ i <= Len(TableOrder) /\ Len(TableOrder) \in Nat
    BY TablesInOrder
  <2>2. n \in 0..(Queries - 1)
    BY <1>2, <2>1 DEF Queries
  <2>3. CASE kind = 0
    BY <2>1, <2>2, <2>3
  <2>4. CASE kind = 1
    BY <2>1, <2>2, <2>4
  <2>5. CASE kind = 2
    BY <2>1, <2>2, <2>5
  <2> QED
    BY <1>2, <2>3, <2>4, <2>5
<1>4. (n \div 3) + 1 = i
  BY <1>3
<1> QED
  BY <1>1, <1>3, <1>4 DEF Asks, Asked, kind

-----------------------------------------------------------------------------
(* The steps of a call *)

\* A query makes the file right about the rows it asks for, and leaves it right
\* about the others.
LEMMA QueryRight ==
    ASSUME CallTyped, NEW n \in 0..(Queries - 1), NEW t \in Tables, NEW k \in Keys,
           RowRight(file, n, t, k, was[t][k], db[t][k])
    PROVE  RowRight(file \o Found(n), n + 1, t, k, was[t][k], db[t][k])
<1> DEFINE old == was[t][k]
           new == db[t][k]
           r == Found(n)
           f == file \o r
           L == Len(file)
<1>1. PICK u \in Tables : /\ u = TableOrder[(n \div 3) + 1]
                          /\ Lists(r, u, QueryKeys(n, u), was[u], db[u])
  BY FoundRight
<1>2. /\ r \in Seq(Entry)
      /\ \A i \in 1..Len(r) : /\ r[i].table = u /\ r[i].pk \in QueryKeys(n, u)
                              /\ r[i] = Difference(u, r[i].pk, was[u][r[i].pk], db[u][r[i].pk])
      /\ \A i, j \in 1..Len(r) : r[i].pk = r[j].pk => i = j
      /\ \A j \in QueryKeys(n, u) : \E i \in 1..Len(r) : r[i].pk = j
  BY <1>1 DEF Lists
<1>3. file \in Seq(Entry) /\ L \in Nat /\ Len(r) \in Nat
  BY <1>2 DEF CallTyped
<1>4. /\ Len(f) = L + Len(r)
      /\ \A i \in 1..L : f[i] = file[i]
      /\ \A i \in 1..Len(r) : f[L + i] = r[i]
  BY <1>2, <1>3
<1>5. k \in QueryKeys(n, t) <=> old # new /\ Kind(old, new) = n % 3
  BY DEF QueryKeys
<1> HIDE DEF r, f, L, old, new
<1>6. \A i \in 1..Len(r) : OfRow(r[i], t, k) =>
          /\ old # new /\ r[i] = Difference(t, k, old, new)
          /\ Asks(n, t, Kind(old, new))
  BY <1>1, <1>2, <1>5 DEF OfRow, Asks, old, new
<1>7. Asks(n, t, Kind(old, new)) /\ old # new => \E i \in 1..Len(r) : OfRow(r[i], t, k)
  BY <1>1, <1>2, <1>5 DEF OfRow, Asks
<1>8. Asked(n + 1, t, Kind(old, new)) <=> Asked(n, t, Kind(old, new)) \/ Asks(n, t, Kind(old, new))
  <2>1. 0..((n + 1) - 1) = 0..(n - 1) \cup {n}
    OBVIOUS
  <2> QED
    BY <2>1 DEF Asked
<1>9. /\ \A i \in 1..L : OfRow(file[i], t, k) =>
            old # new /\ file[i] = Difference(t, k, old, new) /\ Asked(n, t, Kind(old, new))
      /\ \A i, j \in 1..L : OfRow(file[i], t, k) /\ OfRow(file[j], t, k) => i = j
      /\ old # new /\ Asked(n, t, Kind(old, new)) => \E i \in 1..L : OfRow(file[i], t, k)
  BY DEF RowRight, old, new, L
<1>10. \A i \in 1..Len(f) : \/ i \in 1..L /\ f[i] = file[i]
                            \/ i - L \in 1..Len(r) /\ f[i] = r[i - L] /\ i \notin 1..L
  <2> TAKE i \in 1..Len(f)
  <2>1. CASE i <= L
    BY <1>3, <1>4, <2>1
  <2>2. CASE i > L
    <3>1. i - L \in 1..Len(r) /\ L + (i - L) = i
      BY <1>3, <1>4, <2>2
    <3> QED
      BY <1>3, <1>4, <2>2, <3>1
  <2> QED
    BY <1>3, <1>4, <2>1, <2>2
<1>11. ASSUME NEW i \in 1..Len(f), OfRow(f[i], t, k)
       PROVE  old # new /\ f[i] = Difference(t, k, old, new) /\ Asked(n + 1, t, Kind(old, new))
  BY <1>6, <1>8, <1>9, <1>10, <1>11
<1>12. ASSUME Asked(n, t, Kind(old, new)), Asks(n, t, Kind(old, new)) PROVE FALSE
  <2>1. PICK m \in 0..(n - 1) : Asks(m, t, Kind(old, new))
    BY <1>12 DEF Asked
  <2>2. m \in 0..(Queries - 1) /\ m # n
    BY TablesInOrder DEF Queries
  <2> QED
    BY <1>12, <2>1, <2>2, AskedOnce
<1>13. ASSUME NEW i \in 1..Len(f), NEW j \in 1..Len(f), OfRow(f[i], t, k), OfRow(f[j], t, k)
       PROVE  i = j
  <2>1. CASE i \in 1..L /\ j \in 1..L /\ f[i] = file[i] /\ f[j] = file[j]
    BY <1>9, <1>13, <2>1
  <2>2. CASE i - L \in 1..Len(r) /\ j - L \in 1..Len(r) /\ f[i] = r[i - L] /\ f[j] = r[j - L]
    <3>1. r[i - L].pk = r[j - L].pk
      BY <1>13, <2>2 DEF OfRow
    <3>2. i - L = j - L
      BY <1>2, <2>2, <3>1
    <3> QED
      BY <1>3, <1>4, <3>2
  <2>3. CASE \/ f[i] = file[i] /\ i \in 1..L /\ j - L \in 1..Len(r) /\ f[j] = r[j - L]
             \/ f[j] = file[j] /\ j \in 1..L /\ i - L \in 1..Len(r) /\ f[i] = r[i - L]
    BY <1>6, <1>9, <1>12, <1>13, <2>3
  <2> QED
    BY <1>10, <2>1, <2>2, <2>3
<1>14. ASSUME old # new, Asked(n + 1, t, Kind(old, new))
       PROVE  \E i \in 1..Len(f) : OfRow(f[i], t, k)
  <2>1. CASE Asked(n, t, Kind(old, new))
    <3>1. PICK i \in 1..L : OfRow(file[i], t, k)
      BY <1>9, <1>14, <2>1
    <3>2. i \in 1..Len(f) /\ f[i] = file[i]
      BY <1>3, <1>4
    <3> QED
      BY <3>1, <3>2
  <2>2. CASE Asks(n, t, Kind(old, new))
    <3>1. PICK i \in 1..Len(r) : OfRow(r[i], t, k)
      BY <1>7, <1>14, <2>2
    <3>2. L + i \in 1..Len(f) /\ f[L + i] = r[i]
      BY <1>3, <1>4
    <3> QED
      BY <3>1, <3>2
  <2> QED
    BY <1>8, <1>14, <2>1, <2>2
<1> QED
  BY <1>11, <1>13, <1>14 DEF RowRight, f, r, old, new

\* Nothing has been asked for yet.
LEMMA EmptyRight ==
    ASSUME NEW q \in {Idle, 0}, NEW t, NEW k, NEW old, NEW new
    PROVE  RowRight(<<>>, q, t, k, old, new)
<1>1. 0..(q - 1) = {} /\ 1..Len(<<>>) = {}
  BY DEF Idle
<1> QED
  BY <1>1 DEF RowRight, Asked

\* A finished file about a row: what the entries of it do.
LEMMA FinishedRow ==
    ASSUME CallTyped, NEW t \in Tables, NEW k \in Keys,
           RowRight(file, Queries, t, k, was[t][k], db[t][k])
    PROVE  /\ \A i \in 1..Len(file) : OfRow(file[i], t, k) =>
                /\ Invertible(file[i]) /\ TakesEffect(file[i], was)
                /\ RowAfter(file[i], was[t][k]) = db[t][k]
           /\ (\A i \in 1..Len(file) : ~OfRow(file[i], t, k)) => was[t][k] = db[t][k]
<1> DEFINE old == was[t][k]
           new == db[t][k]
<1>1. old \in Row \cup {Absent} /\ new \in Row \cup {Absent}
  BY DEF CallTyped, Database
<1>2. Asked(Queries, t, Kind(old, new))
  BY AskedInTime
<1>3. /\ \A i \in 1..Len(file) : OfRow(file[i], t, k) => /\ old # new
                                                         /\ file[i] = Difference(t, k, old, new)
      /\ old # new => \E i \in 1..Len(file) : OfRow(file[i], t, k)
  BY <1>2 DEF RowRight
<1> HIDE DEF old, new
<1>4. ASSUME NEW i \in 1..Len(file), OfRow(file[i], t, k)
      PROVE  /\ Invertible(file[i]) /\ TakesEffect(file[i], was)
             /\ RowAfter(file[i], old) = new
  <2>1. old # new /\ file[i] = Difference(t, k, old, new)
    BY <1>3, <1>4
  <2>2. /\ file[i].table = t /\ file[i].pk = k /\ Invertible(file[i])
        /\ Effective(file[i], old) /\ RowAfter(file[i], old) = new
    BY <1>1, <2>1, DifferenceRight
  <2> QED
    BY <1>1, <2>2 DEF TakesEffect, old
<1> QED
  BY <1>3, <1>4 DEF old, new

-----------------------------------------------------------------------------
(* A finished call *)

\* The row's own entries lead from its version in the base to the one in the
\* modified database.
LEMMA RightAboutUntouched == ASSUME CallTyped, FileRight PROVE UntouchedRowsRight
<1> SUFFICES ASSUME query = Queries, NEW t \in Tables, NEW k \in Keys, <<t, k>> \notin touched
             PROVE  LET own == Picked(file, {i \in DOMAIN file : file[i].table = t /\ file[i].pk = k})
                        led == Replay(own, was)
                    IN  led # Absent /\ led[t][k] = db[t][k]
  BY DEF UntouchedRowsRight
<1> DEFINE I == {i \in DOMAIN file : file[i].table = t /\ file[i].pk = k}
           own == Picked(file, I)
           led == Replay(own, was)
<1>1. RowRight(file, Queries, t, k, was[t][k], db[t][k])
  BY DEF FileRight
<1>2. /\ \A i \in 1..Len(file) : OfRow(file[i], t, k) =>
            /\ TakesEffect(file[i], was) /\ RowAfter(file[i], was[t][k]) = db[t][k]
      /\ (\A i \in 1..Len(file) : ~OfRow(file[i], t, k)) => was[t][k] = db[t][k]
  BY <1>1, FinishedRow
<1>3. \A i, j \in 1..Len(file) : OfRow(file[i], t, k) /\ OfRow(file[j], t, k) => i = j
  BY <1>1 DEF RowRight
<1>4. file \in Seq(Entry) /\ was \in Database
  BY DEF CallTyped
<1>5. I = {i \in 1..Len(file) : OfRow(file[i], t, k)} /\ I \cap (1..Len(file)) = I
  BY <1>4 DEF OfRow
<1> HIDE DEF I
<1>6. own \in Seq(Entry) /\ PickedFrom(file, I, Len(file), own)
  BY <1>4, PickedPositions
<1> HIDE DEF own
<1>7. PICK at \in [1..Len(own) -> I \cap (1..Len(file))] :
        /\ \A j \in 1..Len(own) : own[j] = file[at[j]]
        /\ \A j, m \in 1..Len(own) : at[j] = at[m] => j = m
        /\ \A i \in I \cap (1..Len(file)) : \E j \in 1..Len(own) : at[j] = i
  BY <1>6, Zenon DEF PickedFrom
<1>8. \A j \in 1..Len(own) : at[j] \in 1..Len(file) /\ OfRow(own[j], t, k) /\ own[j] = file[at[j]]
  BY <1>5, <1>7
<1>9. \A j \in 1..Len(own) : TakesEffect(own[j], was) /\ RowAfter(own[j], was[t][k]) = db[t][k]
  BY <1>2, <1>8
<1>10. \A j, m \in 1..Len(own) : j = m
  <2> TAKE j, m \in 1..Len(own)
  <2>1. /\ at[j] \in 1..Len(file) /\ OfRow(file[at[j]], t, k)
        /\ at[m] \in 1..Len(file) /\ OfRow(file[at[m]], t, k)
    BY <1>8
  <2>2. at[j] = at[m]
    BY <1>3, <2>1
  <2> QED
    BY <1>7, <2>2
<1>11. RowsAfter(own, was, Len(own), led)
  <2>1. Len(own) \in Nat /\ \A j, m \in 1..Len(own) : SameRow(own[j], own[m]) => j = m
    BY <1>6, <1>10
  <2> QED
    BY <1>4, <1>9, <2>1, ReplayOfDistinctRows
<1> HIDE DEF led
<1>12. led \in Database /\ led # Absent
  BY <1>11, AbsentAssumption DEF RowsAfter
<1>13. CASE 1..Len(own) = {}
  <2>1. About(own, Len(own), t, k) = {}
    BY <1>13 DEF About
  <2>2. led[t][k] = was[t][k]
    BY <1>11, <2>1 DEF RowsAfter
  <2>3. I = {}
    BY <1>5, <1>7, <1>13
  <2>4. \A i \in 1..Len(file) : ~OfRow(file[i], t, k)
    BY <1>5, <2>3
  <2> QED
    BY <1>2, <1>12, <2>2, <2>4 DEF led, own, I
<1>14. CASE 1..Len(own) # {}
  <2>1. PICK j \in 1..Len(own) : TRUE
    BY <1>14
  <2>2. j \in About(own, Len(own), t, k)
    BY <1>8, <2>1 DEF About, OfRow
  <2>3. led[t][k] = RowAfter(own[j], was[t][k])
    BY <1>11, <2>2 DEF RowsAfter
  <2> QED
    BY <1>9, <1>12, <2>1, <2>3 DEF led, own, I
<1> QED
  BY <1>13, <1>14

\* A log that InvertChangeset can undo.
Undoable(log, d) ==
    /\ \A i \in 1..Len(log) : Invertible(log[i]) /\ TakesEffect(log[i], d)
    /\ \A i, j \in 1..Len(log) : SameRow(log[i], log[j]) => i = j

\* With no commit meanwhile the file is the changeset of the two versions.
LEMMA FinishedFile ==
    ASSUME CallTyped, FileRight, query = Queries, touched = {}
    PROVE  Undoable(file, was) /\ Replay(file, was) = db
<1>1. /\ file \in Seq(Entry) /\ Len(file) \in Nat /\ was \in Database /\ db \in Database
      /\ \A i \in 1..Len(file) : file[i].pk \in Keys
  BY DEF CallTyped
<1>9. \A i \in 1..Len(file) : file[i].table \in Tables /\ OfRow(file[i], file[i].table, file[i].pk)
  <2> TAKE i \in 1..Len(file)
  <2>1. file[i] \in Entry
    BY <1>1
  <2> QED
    BY <2>1 DEF Entry, OfRow
<1>2. \A t \in Tables, k \in Keys : RowRight(file, Queries, t, k, was[t][k], db[t][k])
  BY DEF FileRight
<1>3. \A t \in Tables, k \in Keys :
        /\ \A i \in 1..Len(file) : OfRow(file[i], t, k) =>
             /\ Invertible(file[i]) /\ TakesEffect(file[i], was)
             /\ RowAfter(file[i], was[t][k]) = db[t][k]
        /\ (\A i \in 1..Len(file) : ~OfRow(file[i], t, k)) => was[t][k] = db[t][k]
  BY <1>2, FinishedRow
<1>4. \A i \in 1..Len(file) : Invertible(file[i]) /\ TakesEffect(file[i], was)
  BY <1>1, <1>3, <1>9
<1>5. \A i, j \in 1..Len(file) : SameRow(file[i], file[j]) => i = j
  <2> TAKE i, j \in 1..Len(file)
  <2> DEFINE t == file[i].table
             k == file[i].pk
  <2>1. t \in Tables /\ k \in Keys /\ OfRow(file[i], t, k)
    BY <1>1, <1>9
  <2>2. SameRow(file[i], file[j]) => OfRow(file[j], t, k)
    BY DEF SameRow, OfRow
  <2> HIDE DEF t, k
  <2>3. OfRow(file[i], t, k) /\ OfRow(file[j], t, k) => i = j
    BY <1>2, <2>1 DEF RowRight
  <2> QED
    BY <2>1, <2>2, <2>3
<1> DEFINE d == Replay(file, was)
<1>6. RowsAfter(file, was, Len(file), d)
  BY <1>1, <1>4, <1>5, ReplayOfDistinctRows
<1> HIDE DEF d
<1>7. ASSUME NEW t \in Tables, NEW k \in Keys PROVE d[t][k] = db[t][k]
  <2>1. CASE About(file, Len(file), t, k) = {}
    BY <1>3, <1>6, <2>1 DEF RowsAfter, About, OfRow
  <2>2. CASE About(file, Len(file), t, k) # {}
    <3>1. PICK i \in 1..Len(file) : i \in About(file, Len(file), t, k) /\ OfRow(file[i], t, k)
      BY <2>2 DEF About, OfRow
    <3>2. d[t][k] = RowAfter(file[i], was[t][k])
      BY <1>6, <3>1 DEF RowsAfter
    <3> QED
      BY <1>3, <3>1, <3>2
  <2> QED
    BY <2>1, <2>2
<1>8. d = db
  BY <1>1, <1>6, <1>7, DatabasesAreFunctions DEF RowsAfter
<1> QED
  BY <1>4, <1>5, <1>8 DEF Undoable, d

-----------------------------------------------------------------------------
(* Sessions *)

\* What the record is after so many sessions.
RecordRight ==
    /\ base \in Database /\ record \in Seq(Entry) /\ sessions \in Nat
    /\ RecordReplays
    /\ sessions = 0 => record = <<>>
    /\ sessions = 1 => Undoable(record, base)

IInv == CallTyped /\ FileRight /\ RecordRight

LEMMA NothingReplays == ASSUME NEW d PROVE Replay(<<>>, d) = d
BY StageEquations DEF Replay

LEMMA InitIInv == Init => IInv
<1> SUFFICES ASSUME Init PROVE IInv
  OBVIOUS
<1>1. /\ base \in Database /\ was = base /\ db = base
      /\ query = Idle /\ file = <<>> /\ touched = {} /\ record = <<>> /\ sessions = 0
  BY DatabasesAssumption DEF Init, InitCall
<1>2. CallTyped
  <2>1. Idle <= Queries /\ Idle \in Int
    BY TablesInOrder DEF Idle, Queries
  <2> QED
    BY <1>1, <2>1 DEF CallTyped
<1>3. FileRight
  BY <1>1, EmptyRight DEF FileRight
<1>4. RecordRight
  BY <1>1, NothingReplays DEF RecordRight, RecordReplays
<1> QED
  BY <1>2, <1>3, <1>4 DEF IInv

\* The record moves with the last recorded version only.
LEMMA RecordKept == ASSUME RecordRight, UNCHANGED <<was, base, record, sessions>> PROVE RecordRight'
BY DEF RecordRight, RecordReplays

\* A file begun anew, or closed.
LEMMA AnewRight ==
    ASSUME IInv, file' = <<>>, query' \in {Idle, 0}, was' \in Database, db' = db
    PROVE  CallTyped' /\ FileRight'
<1>1. CallTyped'
  <2>1. query' <= Queries /\ query' \in Int /\ Idle <= query'
    BY TablesInOrder DEF Idle, Queries
  <2>2. Queries' = Queries
    OBVIOUS
  <2> QED
    BY <2>1 DEF IInv, CallTyped
<1>2. FileRight'
  BY EmptyRight DEF FileRight
<1> QED
  BY <1>1, <1>2

LEMMA EditStep ==
    ASSUME IInv, NEW next \in Databases, Edit(next)
    PROVE  CallTyped' /\ FileRight'
<1>1. /\ UNCHANGED <<was, query, file>> /\ db' = next
      /\ touched' = IF query = Idle THEN touched
                    ELSE touched \cup {r \in Tables \X Keys : db[r[1]][r[2]] # next[r[1]][r[2]]}
  BY DEF Edit, Commit
<1>2. CallTyped'
  BY <1>1, DatabasesAssumption DEF IInv, CallTyped
<1>3. CASE query = Idle
  BY <1>1, <1>2, <1>3, EmptyRight DEF FileRight, IInv, CallTyped
<1>4. CASE query # Idle
  <2>1. ASSUME NEW t \in Tables, NEW k \in Keys, <<t, k>> \notin touched'
        PROVE  <<t, k>> \notin touched /\ db'[t][k] = db[t][k]
    BY <1>1, <1>4, <2>1
  <2> QED
    BY <1>1, <1>2, <2>1 DEF IInv, FileRight
<1> QED
  BY <1>2, <1>3, <1>4

LEMMA QueryStep ==
    ASSUME IInv, Query
    PROVE  CallTyped' /\ FileRight'
<1>1. /\ query \in 0..(Queries - 1) /\ query' = query + 1 /\ file' = file \o Found(query)
      /\ UNCHANGED <<was, db, touched>>
  BY DEF Query
<1>2. CallTyped
  BY DEF IInv
<1>3. FileRight'
  <2> SUFFICES ASSUME NEW t \in Tables, NEW k \in Keys, <<t, k>> \notin touched
               PROVE  RowRight(file', query', t, k, was[t][k], db[t][k])
    BY <1>1 DEF FileRight
  <2>1. RowRight(file, query, t, k, was[t][k], db[t][k])
    BY DEF IInv, FileRight
  <2> QED
    BY <1>1, <1>2, <2>1, QueryRight
<1>4. CallTyped'
  <2>1. PICK u \in Tables : Lists(Found(query), u, QueryKeys(query, u), was[u], db[u])
    BY <1>1, <1>2, FoundRight
  <2> DEFINE r == Found(query)
             L == Len(file)
  <2>2. r \in Seq(Entry) /\ \A i \in 1..Len(r) : r[i].pk \in Keys
    BY <2>1 DEF Lists, QueryKeys
  <2>3. /\ file \in Seq(Entry) /\ L \in Nat
        /\ \A i \in 1..L : file[i].pk \in Keys
    BY <1>2 DEF CallTyped
  <2> HIDE DEF r
  <2>4. /\ file \o r \in Seq(Entry) /\ Len(file \o r) = L + Len(r) /\ Len(r) \in Nat
        /\ \A i \in 1..L : (file \o r)[i] = file[i]
        /\ \A i \in 1..Len(r) : (file \o r)[L + i] = r[i]
    BY <2>2, <2>3
  <2> HIDE DEF L
  <2>5. \A i \in 1..Len(file \o r) : (file \o r)[i].pk \in Keys
    <3> TAKE i \in 1..Len(file \o r)
    <3>1. CASE i <= L
      BY <2>3, <2>4, <3>1
    <3>2. CASE i > L
      <4>1. i - L \in 1..Len(r) /\ L + (i - L) = i
        BY <2>3, <2>4, <3>2
      <4> QED
        BY <2>2, <2>4, <4>1
    <3> QED
      BY <2>3, <2>4, <3>1, <3>2
  <2>6. query' \in Int /\ query' <= Queries /\ Idle <= query' /\ query' # Idle
    BY <1>1, TablesInOrder DEF Idle, Queries
  <2> QED
    BY <1>1, <1>2, <2>4, <2>5, <2>6 DEF CallTyped, r
<1> QED
  BY <1>3, <1>4

LEMMA EndSessionStep == ASSUME IInv, EndSession PROVE IInv'
<1>1. /\ query = Queries /\ touched = {}
      /\ record' = ConcatChanges(record, file) /\ was' = db
      /\ sessions' = sessions + 1 /\ query' = Idle /\ file' = <<>>
      /\ UNCHANGED <<db, touched, base>>
  BY DEF EndSession
<1>2. /\ file \in Seq(Entry) /\ record \in Seq(Entry) /\ base \in Database
      /\ sessions \in Nat /\ db \in Database
  BY DEF IInv, CallTyped, RecordRight
<1>3. Undoable(file, was) /\ Replay(file, was) = db
  BY <1>1, FinishedFile DEF IInv
<1>4. Replay(record', base) = db
  <2>1. Replay(record', base) = Replay(file, Replay(record, base))
    BY <1>1, <1>2, ReplayOfConcatenation
  <2>2. Replay(record, base) = was
    BY DEF IInv, RecordRight, RecordReplays
  <2> QED
    BY <1>3, <2>1, <2>2
<1>5. sessions' = 1 => Undoable(record', base)
  <2> SUFFICES ASSUME sessions' = 1 PROVE Undoable(record', base)
    OBVIOUS
  <2>1. sessions = 0 /\ record = <<>>
    BY <1>1, <1>2 DEF IInv, RecordRight
  <2>2. record' = file
    BY <1>1, <1>2, <2>1 DEF ConcatChanges
  <2>3. was = base
    BY <2>1, NothingReplays DEF IInv, RecordRight, RecordReplays
  <2> QED
    BY <1>3, <2>2, <2>3
<1>6. record' \in Seq(Entry) /\ sessions' \in Nat /\ sessions' # 0
  BY <1>1, <1>2 DEF ConcatChanges
<1>7. RecordRight'
  BY <1>1, <1>2, <1>4, <1>5, <1>6 DEF RecordRight, RecordReplays
<1>8. CallTyped' /\ FileRight'
  BY <1>1, <1>2, AnewRight
<1> QED
  BY <1>7, <1>8 DEF IInv

LEMMA NextIInv == IInv /\ [Next]_vars => IInv'
<1> SUFFICES ASSUME IInv, [Next]_vars PROVE IInv'
  OBVIOUS
<1>1. ASSUME NEW d \in Databases, Edit(d) PROVE IInv'
  <2>1. RecordRight'
    BY <1>1, RecordKept DEF Edit, Commit, kept, IInv
  <2> QED
    BY <1>1, <2>1, EditStep DEF IInv
<1>2. CASE Diff /\ Query
  <2>1. RecordRight'
    BY <1>2, RecordKept DEF Diff, Query, kept, IInv
  <2> QED
    BY <1>2, <2>1, QueryStep DEF IInv
<1>3. CASE Diff /\ (Call \/ Fail)
  <2>1. file' = <<>> /\ query' \in {Idle, 0} /\ UNCHANGED <<was, db, kept>>
    BY <1>3 DEF Diff, Call, Fail
  <2>2. RecordRight'
    BY <2>1, RecordKept DEF kept, IInv
  <2> QED
    BY <2>1, <2>2, AnewRight DEF IInv, CallTyped
<1>4. CASE EndSession
  BY <1>4, EndSessionStep
<1>5. CASE Invert \/ UNCHANGED vars
  <2>1. UNCHANGED <<was, db, query, file, touched, base, record, sessions>>
    BY <1>5 DEF Invert, vars, call, kept
  <2> QED
    BY <2>1 DEF IInv, CallTyped, FileRight, RecordRight, RecordReplays
<1> QED
  BY <1>1, <1>2, <1>3, <1>4, <1>5 DEF Next, Diff

THEOREM Invariance == Spec => []IInv
<1>1. Init => IInv
  BY InitIInv
<1>2. IInv /\ [Next]_vars => IInv'
  BY NextIInv
<1> QED
  BY <1>1, <1>2, PTL DEF Spec

\* A changeset made while other programs commit is right about every row they
\* left alone.
THEOREM CreatedRightAboutUntouched == Spec => []UntouchedRowsRight
<1>1. IInv => UntouchedRowsRight
  BY RightAboutUntouched DEF IInv
<1> QED
  BY <1>1, Invariance, PTL

\* The changesets of successive sessions, one behind the other, replay from the
\* first version to the last.
THEOREM SessionsReplay == Spec => []RecordReplays
<1>1. IInv => RecordReplays
  BY DEF IInv, RecordRight
<1> QED
  BY <1>1, Invariance, PTL

\* The inverse of the changeset of one session leads back.
THEOREM OneSessionUndone == Spec => []SessionUndone
<1>1. IInv => SessionUndone
  <2> SUFFICES ASSUME IInv, sessions = 1, inverse = InvertChangeset(record)
               PROVE  Replay(inverse, was) = base
    BY DEF SessionUndone
  <2>1. /\ base \in Database /\ record \in Seq(Entry) /\ Undoable(record, base)
        /\ Replay(record, base) = was
    BY DEF IInv, RecordRight, RecordReplays
  <2>2. Replay(InvertChangeset(record), Replay(record, base)) = base
    BY <2>1, InverseReplays DEF Undoable
  <2> QED
    BY <2>1, <2>2
<1> QED
  BY <1>1, Invariance, PTL
=============================================================================
