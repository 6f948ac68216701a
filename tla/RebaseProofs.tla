---------------------------- MODULE RebaseProofs ----------------------------
(***************************************************************************)
(* What Rebase guarantees for every pair of changesets, any tables, keys,  *)
(* columns and values, and every order of the Go map loop.                 *)
(***************************************************************************)
EXTENDS Rebase, ChangesetProofs, SequenceTheorems

\* Before ours is read nothing is mapped.
NothingMappedYet ==
    phase \in {"open", "parse"} =>
        \A t \in Tables : DOMAIN mapIds[t] = {} /\ changes[t] = <<>>

\* Once the free indices are set they lie above every key theirs inserted.
FreeIndexAboveInserted ==
    phase \in {"scan", "finalize", "prepare"} =>
        \A t \in Tables : \A k \in inserted[t] : k < freeIndex[t]

\* Only tables theirs names have inserted keys.
InsertedOnlyInTouched ==
    \A t \in Tables : inserted[t] # {} => t \in touched

\* A clashing insert that has been scanned is mapped.
Scanned == IF phase = "scan" THEN pos ELSE Len(ours)

ClashesMapped ==
    phase \in {"scan", "finalize", "prepare"} =>
        \A i \in 1..Len(ours) :
            i <= Scanned /\ ours[i].op = "insert" /\ ours[i].pk \in inserted[ours[i].table]
                => ours[i].pk \in DOMAIN mapIds[ours[i].table]

IInv ==
    /\ TypeOK
    /\ NothingMappedYet
    /\ FreeIndexAboveInserted
    /\ InsertedOnlyInTouched
    /\ RenumberedKeysFresh
    /\ ClashesMapped
    /\ NoInsertOnTheirsKey
    /\ NoInternalError

-----------------------------------------------------------------------------
\* A set of naturals with an upper bound has a least upper bound in it: what
\* the scan for maxPK in findMappingForNewChangeset computes exists.
LEMMA MaxOfKeys ==
    ASSUME NEW S \in SUBSET Keys
    PROVE  /\ Max(S \cup {0}) \in Nat
           /\ \A k \in S : k <= Max(S \cup {0})
<1> DEFINE T == S \cup {0}
           B == {n \in Nat : \A k \in T : k <= n}
           R == OpToRel(<, Nat)
<1>1. T \subseteq Nat /\ 0 \in T /\ MaxKey \in B
  BY KeysAssumption
<1>2. PICK m \in B : \A n \in B : ~(<<n, m>> \in R)
  <2>1. B \subseteq Nat /\ B # {}
    BY <1>1
  <2> HIDE DEF B, R
  <2> QED
    BY <2>1, NatLessThanWellFounded, WFMin DEF R
<1>3. \A n \in B : ~(n < m)
  BY <1>2 DEF OpToRel
<1>4. m \in T
  <2>1. SUFFICES ASSUME m \notin T PROVE FALSE
    OBVIOUS
  <2>2. m \in Nat /\ m # 0 /\ \A k \in T : k <= m /\ k # m
    BY <1>1, <2>1
  <2>3. m - 1 \in Nat /\ \A k \in T : k <= m - 1
    BY <1>1, <2>2
  <2>4. m - 1 \in B /\ m - 1 < m
    BY <2>2, <2>3
  <2> QED
    BY <1>3, <2>4
<1>5. \E x \in T : \A y \in T : x >= y
  BY <1>1, <1>2, <1>4
<1> QED
  BY <1>1, <1>5 DEF Max

\* The first free index lies above every key of the set.
LEMMA FirstFreeAbove ==
    ASSUME NEW S \in SUBSET Keys
    PROVE  FirstFree(S) \in Nat /\ \A k \in S : k < FirstFree(S)
<1>1. CASE S = {}
  BY <1>1 DEF FirstFree, NoIndex
<1>2. CASE S # {}
  <2>1. FirstFree(S) = Max(S \cup {0}) + 1
    BY <1>2 DEF FirstFree
  <2>2. Max(S \cup {0}) \in Nat /\ \A k \in S : k <= Max(S \cup {0})
    BY MaxOfKeys
  <2>3. S \subseteq Nat
    BY KeysAssumption
  <2> QED
    BY <2>1, <2>2, <2>3
<1> QED
  BY <1>1, <1>2

-----------------------------------------------------------------------------
(* Type correctness *)

\* The values of an entry that sets nothing.
LEMMA BlankType == Blank \in EntryValues
BY DEF Blank, EntryValues

\* Reading an entry of either changeset gives an entry with a key of Keys.
LEMMA InputType ==
    ASSUME TypeOK
    PROVE  /\ theirs \in Seq(InputEntry) /\ ours \in Seq(InputEntry)
           /\ theirs \in Seq(Entry) /\ ours \in Seq(Entry)
           /\ Len(theirs) \in Nat /\ Len(ours) \in Nat
           /\ \A i \in 1..Len(theirs) : theirs[i] \in InputEntry
           /\ \A i \in 1..Len(ours) : ours[i] \in InputEntry
<1>1. theirs \in Seq(InputEntry) /\ ours \in Seq(InputEntry)
  BY DEF TypeOK, Input, theirs, ours
<1>2. InputEntry \subseteq Entry
  <2>1. Keys \subseteq Int
    BY KeysAssumption
  <2>2. ASSUME NEW e \in InputEntry PROVE e \in Entry
    BY <2>1 DEF InputEntry, Entry
  <2> QED
    BY <2>2
<1>3. theirs \in Seq(Entry) /\ ours \in Seq(Entry)
  BY <1>1, <1>2, SeqMonotonic
<1> QED
  BY <1>1, <1>3

\* addPkeyMapping keeps the map a map from keys to integers.
LEMMA WithMappingType ==
    ASSUME TypeOK, NEW t \in Tables, NEW k \in Keys, NEW n \in Int
    PROVE  /\ DOMAIN WithMapping(t, k, n) = Tables
           /\ \A u \in Tables :
                /\ DOMAIN WithMapping(t, k, n)[u] \subseteq Keys
                /\ \A j \in DOMAIN WithMapping(t, k, n)[u] : WithMapping(t, k, n)[u][j] \in Int
BY DEF TypeOK, WithMapping

\* The key an entry is written under is a number.
LEMMA NewPKType ==
    ASSUME TypeOK, NEW e \in InputEntry
    PROVE  NewPK(e) \in Int
BY KeysAssumption DEF TypeOK, NewPK, InputEntry

\* What is patched into an entry are values of an entry.
LEMMA PatchedType ==
    ASSUME TypeOK, NEW e \in InputEntry
    PROVE  Patched(e) \in EntryValues
BY BlankType DEF TypeOK, Patched, InputEntry

\* What the handlers keep is an entry, and the conflicts they add are typed.
LEMMA RebasedType ==
    ASSUME TypeOK, NEW e \in InputEntry
    PROVE  /\ e \in Entry
           /\ [e EXCEPT !.pk = NewPK(e)] \in Entry
           /\ RebasedDelete(e) \in Entry
           /\ RebasedUpdate(e) \in Entry
<1>1. NewPK(e) \in Int /\ Patched(e) \in EntryValues
  BY NewPKType, PatchedType
<1>2. e \in Entry /\ [e EXCEPT !.pk = NewPK(e)] \in Entry
  BY <1>1, KeysAssumption DEF InputEntry, Entry
<1>3. Overlay(Patched(e), e.old) \in EntryValues
  BY <1>1 DEF Overlay, EntryValues, InputEntry
<1>4. RebasedDelete(e) \in Entry
  BY <1>1, <1>2, <1>3 DEF RebasedDelete, Entry
<1>5. RebasedUpdate(e) \in Entry
  BY <1>1, <1>2 DEF RebasedUpdate, Entry, EntryValues
<1> QED
  BY <1>2, <1>4, <1>5

\* The conflicts handleUpdate adds are typed.
LEMMA ConflictItemsType ==
    ASSUME TypeOK, NEW e \in InputEntry, NEW patched \in EntryValues,
           NEW cols \in SUBSET {c \in Cols : e.new[c] # Undefined}
    PROVE  AddConflict(e, ConflictItems(e, cols, patched)) => conflicts' \subseteq Conflict
<1>1. ConflictItems(e, cols, patched) \subseteq
        [col : Cols, base : Vals \cup {Undefined},
         theirs : Vals \cup {Undefined}, ours : Vals]
  <2>1. ASSUME NEW c \in cols
        PROVE  /\ c \in Cols
               /\ e.old[c] \in Vals \cup {Undefined}
               /\ patched[c] \in Vals \cup {Undefined}
               /\ e.new[c] \in Vals
    BY DEF InputEntry, EntryValues
  <2>2. ASSUME NEW x \in ConflictItems(e, cols, patched)
        PROVE  x \in [col : Cols, base : Vals \cup {Undefined},
                       theirs : Vals \cup {Undefined}, ours : Vals]
    <3>1. PICK c \in cols : x = [col |-> c, base |-> e.old[c],
                                 theirs |-> patched[c], ours |-> e.new[c]]
      BY <2>2 DEF ConflictItems
    <3> QED
      BY <2>1, <3>1
  <2> QED
    BY <2>2
<1>2. [pk |-> e.pk, table |-> e.table, items |-> ConflictItems(e, cols, patched)] \in Conflict
  BY <1>1 DEF Conflict, InputEntry
<1> QED
  BY <1>2 DEF AddConflict, TypeOK

\* So is what it keeps.
LEMMA KeepType ==
    ASSUME TypeOK, NEW e \in Entry, Keep(e)
    PROVE  changes' \in [Tables -> Seq(Entry)]
<1>1. e.table \in Tables
  BY DEF Entry
<1>2. Append(changes[e.table], e) \in Seq(Entry)
  BY <1>1 DEF TypeOK
<1> QED
  BY <1>1, <1>2 DEF Keep, TypeOK

\* The state Rebase starts in is typed.
LEMMA FreshTypeOK == Fresh /\ input \in Input => TypeOK
BY BlankType DEF Fresh, TypeOK, Phases, NoIndex

LEMMA InitTypeOK == Init => TypeOK
BY FreshTypeOK, InputsAssumption DEF Init

\* Step 2's calls of addPkeyMapping.
LEMMA RenumberType ==
    ASSUME TypeOK, NEW t \in Tables, NEW k \in Keys, Renumber(t, k)
    PROVE  /\ phase' \in Phases
           /\ DOMAIN mapIds' = Tables
           /\ \A u \in Tables : /\ DOMAIN mapIds'[u] \subseteq Keys
                                /\ \A j \in DOMAIN mapIds'[u] : mapIds'[u][j] \in Int
           /\ freeIndex' \in [Tables -> Nat]
<1>1. CASE freeIndex[t] = NoIndex
  BY <1>1 DEF Renumber, TypeOK, Phases
<1>2. CASE freeIndex[t] # NoIndex
  <2>1. /\ mapIds' = WithMapping(t, k, freeIndex[t])
        /\ freeIndex' = [freeIndex EXCEPT ![t] = @ + 1]
        /\ phase' = phase
    BY <1>2 DEF Renumber
  <2>2. freeIndex[t] \in Nat /\ freeIndex' \in [Tables -> Nat] /\ phase' \in Phases
    BY <2>1 DEF TypeOK
  <2> QED
    BY <2>1, <2>2, WithMappingType
<1> QED
  BY <1>1, <1>2

\* Every action keeps the types.
LEMMA NextTypeOK == TypeOK /\ [Next]_vars => TypeOK'
<1> SUFFICES ASSUME TypeOK, [Next]_vars PROVE TypeOK'
  OBVIOUS
<1> USE InputType
<1>1. ASSUME CopyOurs \/ CopyTheirs PROVE TypeOK'
  BY <1>1 DEF CopyOurs, CopyTheirs, TypeOK, Phases, theirsInfo, mapping
<1>2. ASSUME StartParse \/ StartFinalize \/ StartPrepare \/ StartWrite \/ CloseOutput
      PROVE  TypeOK'
  BY <1>2 DEF StartParse, StartFinalize, StartPrepare, StartWrite, CloseOutput,
              TypeOK, Phases, theirsInfo, mapping, result
<1>3. ASSUME ParseEntry PROVE TypeOK'
  <2> DEFINE e == theirs[pos + 1]
  <2>1. e \in InputEntry
    BY <1>3 DEF ParseEntry, TypeOK
  <2>2. e.table \in Tables /\ e.pk \in Keys /\ e.new \in EntryValues
    BY <2>1 DEF InputEntry
  <2>3. /\ touched' = touched \cup {e.table}
        /\ inserted' = IF e.op = "insert" THEN RecordInserted(e) ELSE inserted
        /\ deleted' = IF e.op = "delete" THEN RecordDeleted(e) ELSE deleted
        /\ updated' = IF e.op = "update" THEN RecordUpdated(e) ELSE updated
        /\ pos' = pos + 1
        /\ UNCHANGED <<phase, input, mapping, result>>
    BY <1>3 DEF ParseEntry
  <2> HIDE DEF e
  <2>4. inserted' \in [Tables -> SUBSET Keys] /\ deleted' \in [Tables -> SUBSET Keys]
    BY <2>2, <2>3 DEF TypeOK, RecordInserted, RecordDeleted
  <2>5. updated' \in [Tables -> [Keys -> EntryValues]]
    BY <2>2, <2>3 DEF TypeOK, RecordUpdated
  <2> QED
    BY <2>2, <2>3, <2>4, <2>5 DEF TypeOK, mapping, result
<1>4. ASSUME StartScan PROVE TypeOK'
  <2>1. \A t \in Tables : FirstFree(inserted[t]) \in Nat
    <3>1. \A t \in Tables : inserted[t] \in SUBSET Keys
      BY DEF TypeOK
    <3> QED
      BY <3>1, FirstFreeAbove
  <2>2. freeIndex' \in [Tables -> Nat]
    BY <1>4, <2>1 DEF StartScan
  <2>3. /\ phase' = "scan" /\ pos' = 0
        /\ UNCHANGED <<input, theirsInfo, mapIds, unmapped, result>>
    BY <1>4 DEF StartScan
  <2> QED
    BY <2>2, <2>3 DEF TypeOK, Phases, theirsInfo, result
<1>5. ASSUME ScanEntry PROVE TypeOK'
  <2> DEFINE e == ours[pos + 1]
  <2>1. e \in InputEntry
    BY <1>5 DEF ScanEntry, TypeOK
  <2>2. e.table \in Tables /\ e.pk \in Keys
    BY <2>1 DEF InputEntry
  <2>3. /\ pos' = pos + 1
        /\ UNCHANGED <<input, theirsInfo, result>>
        /\ UNCHANGED <<phase, mapping>> \/ ScanInsert(e) \/ ScanUpdateOrDelete(e)
    BY <1>5 DEF ScanEntry
  <2> HIDE DEF e
  <2>4. CASE UNCHANGED <<phase, mapping>>
    BY <2>3, <2>4 DEF TypeOK, theirsInfo, mapping, result
  <2>5. CASE ScanInsert(e)
    <3>1. CASE Renumber(e.table, e.pk) /\ UNCHANGED unmapped
      BY <2>2, <2>3, <3>1, RenumberType DEF TypeOK, theirsInfo, result
    <3>2. CASE /\ unmapped' = [unmapped EXCEPT ![e.table] = @ \cup {e.pk}]
               /\ UNCHANGED <<phase, mapIds, freeIndex>>
      BY <2>2, <2>3, <3>2 DEF TypeOK, theirsInfo, result
    <3> QED
      BY <2>5, <3>1, <3>2 DEF ScanInsert
  <2>6. CASE ScanUpdateOrDelete(e)
    <3>1. CASE mapIds' = WithMapping(e.table, e.pk, InvalidFID)
      BY <2>2, <2>3, <2>6, <3>1, WithMappingType
         DEF ScanUpdateOrDelete, TypeOK, theirsInfo, result, InvalidFID
    <3>2. CASE mapIds' = mapIds
      BY <2>3, <2>6, <3>2 DEF ScanUpdateOrDelete, TypeOK, theirsInfo, result
    <3> QED
      BY <2>6, <3>1, <3>2 DEF ScanUpdateOrDelete
  <2> QED
    BY <2>3, <2>4, <2>5, <2>6
<1>6. ASSUME NEW t \in Tables, NEW k \in Keys, FinalizeKey(t, k) PROVE TypeOK'
  <2>1. unmapped' \in [Tables -> SUBSET Keys]
    BY <1>6 DEF FinalizeKey, TypeOK
  <2>2. CASE UNCHANGED <<phase, mapIds, freeIndex>>
    BY <1>6, <2>1, <2>2 DEF FinalizeKey, TypeOK, theirsInfo, result
  <2>3. CASE Renumber(t, k)
    BY <1>6, <2>1, <2>3, RenumberType DEF FinalizeKey, TypeOK, theirsInfo, result
  <2> QED
    BY <1>6, <2>2, <2>3 DEF FinalizeKey
<1>7. ASSUME PrepareEntry PROVE TypeOK'
  <2> DEFINE e == ours[pos + 1]
  <2>1. e \in InputEntry
    BY <1>7 DEF PrepareEntry, TypeOK
  <2>2. e.table \in Tables
    BY <2>1 DEF InputEntry
  <2>3. /\ pos' = pos + 1
        /\ tableOrder' = IF Contains(tableOrder, e.table) THEN tableOrder
                         ELSE Append(tableOrder, e.table)
        /\ UNCHANGED <<phase, input, theirsInfo, mapping, output>>
        /\ \/ Keep(e) /\ UNCHANGED conflicts
           \/ HandleInsert(e) \/ HandleDelete(e) \/ HandleUpdate(e)
    BY <1>7 DEF PrepareEntry
  <2> HIDE DEF e
  <2>4. tableOrder' \in Seq(Tables)
    BY <2>2, <2>3 DEF TypeOK
  <2>5. changes' \in [Tables -> Seq(Entry)]
    <3>1. UNCHANGED changes \/ \E x \in Entry : Keep(x)
      BY <2>1, <2>3, RebasedType DEF HandleInsert, HandleDelete, HandleUpdate
    <3> QED
      BY <3>1, KeepType DEF TypeOK
  <2>6. conflicts' \subseteq Conflict
    <3>1. CASE UNCHANGED conflicts
      BY <3>1 DEF TypeOK
    <3>2. CASE AddConflict(e, ConflictItems(e, {c \in Cols : e.new[c] # Undefined}, Blank))
      BY <2>1, <3>2, ConflictItemsType, BlankType
    <3>3. CASE AddConflict(e, ConflictItems(e, ContestedCols(e), Patched(e)))
      <4>1. ContestedCols(e) \subseteq {c \in Cols : e.new[c] # Undefined}
        BY DEF ContestedCols
      <4> QED
        BY <2>1, <3>3, <4>1, ConflictItemsType, PatchedType
    <3> QED
      BY <2>3, <3>1, <3>2, <3>3 DEF HandleInsert, HandleDelete, HandleUpdate
  <2> QED
    BY <2>3, <2>4, <2>5, <2>6 DEF TypeOK, theirsInfo, mapping
<1>8. ASSUME WriteTable PROVE TypeOK'
  <2>1. tableOrder[pos + 1] \in Tables
    BY <1>8 DEF WriteTable, TypeOK
  <2>2. output' \in Seq(Entry)
    BY <1>8, <2>1 DEF WriteTable, TypeOK
  <2>3. pos' = pos + 1 /\ UNCHANGED <<phase, input, theirsInfo, mapping, changes, tableOrder, conflicts>>
    BY <1>8 DEF WriteTable
  <2> QED
    BY <2>2, <2>3 DEF TypeOK, theirsInfo, mapping
<1>9. CASE UNCHANGED vars
  BY <1>9 DEF vars, theirsInfo, mapping, result, TypeOK
<1> QED
  BY <1>1, <1>2, <1>3, <1>4, <1>5, <1>6, <1>7, <1>8, <1>9 DEF Next

-----------------------------------------------------------------------------
(* Safety *)

\* addPkeyMapping only adds keys to the map.
LEMMA WithMappingValue ==
    ASSUME TypeOK, NEW t \in Tables, NEW k, NEW n, mapIds' = WithMapping(t, k, n)
    PROVE  \A u \in Tables :
             /\ DOMAIN mapIds'[u] = IF u = t THEN DOMAIN mapIds[u] \cup {k} ELSE DOMAIN mapIds[u]
             /\ \A j \in DOMAIN mapIds'[u] :
                  mapIds'[u][j] = IF u = t /\ j = k THEN n ELSE mapIds[u][j]
<1>1. mapIds'[t] = [j \in DOMAIN mapIds[t] \cup {k} |-> IF j = k THEN n ELSE mapIds[t][j]]
  BY DEF TypeOK, WithMapping
<1>2. \A u \in Tables : u # t => mapIds'[u] = mapIds[u]
  BY DEF TypeOK, WithMapping
<1> QED
  BY <1>1, <1>2

\* A renumbering keeps the new keys fresh and distinct.
LEMMA RenumberFresh ==
    ASSUME IInv, phase \in {"scan", "finalize"}, UNCHANGED inserted,
           NEW t \in Tables, NEW k \in Keys, Renumber(t, k), freeIndex[t] # NoIndex
    PROVE  /\ RenumberedKeysFresh'
           /\ \A u \in Tables : /\ DOMAIN mapIds[u] \subseteq DOMAIN mapIds'[u]
                                /\ freeIndex[u] <= freeIndex'[u]
           /\ k \in DOMAIN mapIds'[t]
           /\ UNCHANGED phase
<1>1. /\ mapIds' = WithMapping(t, k, freeIndex[t])
      /\ freeIndex' = [freeIndex EXCEPT ![t] = @ + 1]
      /\ phase' = phase
  BY DEF Renumber
<1>2. /\ TypeOK /\ freeIndex \in [Tables -> Nat] /\ freeIndex[t] \in Int
      /\ \A u \in Tables : freeIndex[u] \in Nat /\ freeIndex'[u] \in Nat
      /\ \A u \in Tables : freeIndex'[u] = IF u = t THEN freeIndex[u] + 1 ELSE freeIndex[u]
  BY <1>1 DEF IInv, TypeOK
<1>3. \A u \in Tables :
        /\ DOMAIN mapIds'[u] = IF u = t THEN DOMAIN mapIds[u] \cup {k} ELSE DOMAIN mapIds[u]
        /\ \A j \in DOMAIN mapIds'[u] :
             mapIds'[u][j] = IF u = t /\ j = k THEN freeIndex[t] ELSE mapIds[u][j]
  <2>1. mapIds' = WithMapping(t, k, freeIndex[t])
    BY <1>1
  <2> QED
    BY <1>2, <2>1, WithMappingValue
<1>4. \A u \in Tables : \A j \in DOMAIN mapIds[u] : mapIds[u][j] \in Int
  BY <1>2 DEF TypeOK
<1>5. \A i \in inserted[t] : i < freeIndex[t]
  BY DEF IInv, FreeIndexAboveInserted
<1>6. ASSUME NEW u \in Tables, NEW j \in DOMAIN mapIds'[u], mapIds'[u][j] # InvalidFID
      PROVE  /\ mapIds'[u][j] < freeIndex'[u]
             /\ \A i \in inserted'[u] : i < mapIds'[u][j]
             /\ \A l \in DOMAIN mapIds'[u] : mapIds'[u][l] = mapIds'[u][j] => l = j
  <2>1. CASE u # t
    BY <1>2, <1>3, <1>6, <2>1 DEF IInv, RenumberedKeysFresh
  <2>2. CASE u = t /\ j = k
    <3>1. mapIds'[u][j] = freeIndex[t] /\ mapIds'[u][j] < freeIndex'[u]
      <4>1. mapIds'[u][j] = freeIndex[t]
        BY <1>3, <2>2
      <4>2. freeIndex'[t] = freeIndex[t] + 1
        BY <1>2
      <4> QED
        BY <1>2, <2>2, <4>1, <4>2
    <3>2. ASSUME NEW l \in DOMAIN mapIds'[u], mapIds'[u][l] = freeIndex[t], l # k
          PROVE  FALSE
      <4>1. l \in DOMAIN mapIds[t] /\ mapIds[t][l] = freeIndex[t]
        BY <1>3, <2>2, <3>2
      <4>2. freeIndex[t] # InvalidFID
        BY <1>2 DEF InvalidFID
      <4>3. mapIds[t][l] < freeIndex[t]
        BY <4>1, <4>2 DEF IInv, RenumberedKeysFresh
      <4> QED
        BY <1>2, <4>1, <4>3
    <3> QED
      BY <1>5, <2>2, <3>1, <3>2
  <2>3. CASE u = t /\ j # k
    <3>1. j \in DOMAIN mapIds[t] /\ mapIds'[u][j] = mapIds[t][j]
      BY <1>3, <2>3
    <3>2. /\ mapIds[t][j] < freeIndex[t]
          /\ \A i \in inserted[t] : i < mapIds[t][j]
          /\ \A l \in DOMAIN mapIds[t] : mapIds[t][l] = mapIds[t][j] => l = j
      BY <1>6, <2>3, <3>1 DEF IInv, RenumberedKeysFresh
    <3>3. mapIds'[u][j] < freeIndex'[u]
      BY <1>2, <1>4, <2>3, <3>1, <3>2
    <3>4. ASSUME NEW l \in DOMAIN mapIds'[u], mapIds'[u][l] = mapIds'[u][j] PROVE l = j
      <4>1. CASE l = k
        <5>1. freeIndex[t] = mapIds[t][j]
          BY <1>3, <2>3, <3>1, <3>4, <4>1
        <5> QED
          BY <1>2, <3>2, <5>1
      <4>2. CASE l # k
        <5>1. l \in DOMAIN mapIds[u] /\ mapIds'[u][l] = mapIds[u][l]
          BY <1>3, <4>2
        <5>2. mapIds[u][l] = mapIds[u][j]
          BY <2>3, <3>1, <3>4, <5>1
        <5> QED
          BY <2>3, <3>2, <5>1, <5>2
      <4> QED
        BY <4>1, <4>2
    <3> QED
      BY <2>3, <3>1, <3>2, <3>3, <3>4
  <2> QED
    BY <2>1, <2>2, <2>3
<1>7. RenumberedKeysFresh'
  BY <1>6 DEF RenumberedKeysFresh
<1>8. \A u \in Tables : DOMAIN mapIds[u] \subseteq DOMAIN mapIds'[u]
  BY <1>3
<1>9. \A u \in Tables : freeIndex[u] <= freeIndex'[u]
  BY <1>2
<1> QED
  BY <1>1, <1>3, <1>7, <1>8, <1>9

\* Mapping a key to invalidFID disturbs no fresh key.
LEMMA InvalidateFresh ==
    ASSUME IInv, UNCHANGED <<inserted, freeIndex>>, NEW t \in Tables, NEW k \in Keys,
           mapIds' = WithMapping(t, k, InvalidFID)
    PROVE  /\ RenumberedKeysFresh'
           /\ \A u \in Tables : DOMAIN mapIds[u] \subseteq DOMAIN mapIds'[u]
<1>1. TypeOK
  BY DEF IInv
<1>2. \A u \in Tables :
        /\ DOMAIN mapIds'[u] = IF u = t THEN DOMAIN mapIds[u] \cup {k} ELSE DOMAIN mapIds[u]
        /\ \A j \in DOMAIN mapIds'[u] :
             mapIds'[u][j] = IF u = t /\ j = k THEN InvalidFID ELSE mapIds[u][j]
  <2>1. mapIds' = WithMapping(t, k, InvalidFID)
    OBVIOUS
  <2> QED
    BY <1>1, <2>1, WithMappingValue
<1>3. ASSUME NEW u \in Tables, NEW j \in DOMAIN mapIds'[u], mapIds'[u][j] # InvalidFID
      PROVE  /\ mapIds'[u][j] < freeIndex'[u]
             /\ \A i \in inserted'[u] : i < mapIds'[u][j]
             /\ \A l \in DOMAIN mapIds'[u] : mapIds'[u][l] = mapIds'[u][j] => l = j
  <2>1. j \in DOMAIN mapIds[u] /\ mapIds'[u][j] = mapIds[u][j]
    BY <1>2, <1>3
  <2>2. /\ mapIds[u][j] < freeIndex[u]
        /\ \A i \in inserted[u] : i < mapIds[u][j]
        /\ \A l \in DOMAIN mapIds[u] : mapIds[u][l] = mapIds[u][j] => l = j
    BY <1>3, <2>1 DEF IInv, RenumberedKeysFresh
  <2>3. \A l \in DOMAIN mapIds'[u] :
            mapIds'[u][l] = mapIds'[u][j]
                => l \in DOMAIN mapIds[u] /\ mapIds'[u][l] = mapIds[u][l]
    <3> TAKE l \in DOMAIN mapIds'[u]
    <3>1. CASE u = t /\ l = k
      BY <1>2, <1>3, <3>1
    <3>2. CASE ~(u = t /\ l = k)
      BY <1>2, <3>2
    <3> QED
      BY <3>1, <3>2
  <2>4. \A l \in DOMAIN mapIds'[u] : mapIds'[u][l] = mapIds'[u][j] => l = j
    BY <2>1, <2>2, <2>3
  <2>5. mapIds'[u][j] < freeIndex'[u] /\ \A i \in inserted'[u] : i < mapIds'[u][j]
    BY <2>1, <2>2
  <2> QED
    BY <2>4, <2>5
<1> QED
  BY <1>2, <1>3 DEF RenumberedKeysFresh

\* Keeping an entry whose insert avoids theirs' keys.
LEMMA KeepSafe ==
    ASSUME IInv, NEW e \in Entry, Keep(e), UNCHANGED inserted,
           e.op = "insert" => e.pk \notin inserted[e.table]
    PROVE  NoInsertOnTheirsKey'
<1>1. e.table \in Tables /\ \A t \in Tables : changes[t] \in Seq(Entry)
  BY DEF Entry, IInv, TypeOK
<1>2. \A t \in Tables : changes'[t] = IF t = e.table THEN Append(changes[t], e) ELSE changes[t]
  BY <1>1 DEF Keep, IInv, TypeOK
<1>3. ASSUME NEW t \in Tables, NEW i \in DOMAIN changes'[t], changes'[t][i].op = "insert"
      PROVE  changes'[t][i].pk \notin inserted[t]
  <2>1. CASE i \in DOMAIN changes[t] /\ changes'[t][i] = changes[t][i]
    BY <1>3, <2>1 DEF IInv, NoInsertOnTheirsKey
  <2>2. CASE t # e.table
    BY <1>2, <1>3, <2>1, <2>2
  <2>3. CASE t = e.table
    <3>1. /\ changes'[t] = Append(changes[t], e) /\ changes[t] \in Seq(Entry)
          /\ i \in 1..(Len(changes[t]) + 1)
      <4>1. changes'[t] = Append(changes[t], e) /\ changes[t] \in Seq(Entry)
        BY <1>1, <1>2, <2>3
      <4>2. DOMAIN changes'[t] = 1..(Len(changes[t]) + 1)
        BY <4>1
      <4> QED
        BY <1>3, <4>1, <4>2
    <3>2. CASE i = Len(changes[t]) + 1
      <4>1. changes'[t][i] = e
        BY <3>1, <3>2
      <4> QED
        BY <1>3, <2>3, <4>1
    <3>3. CASE i # Len(changes[t]) + 1
      BY <2>1, <3>1, <3>3
    <3> QED
      BY <3>2, <3>3
  <2> QED
    BY <2>2, <2>3
<1> QED
  BY <1>3 DEF NoInsertOnTheirsKey

\* The conjuncts of IInv besides TypeOK.
Safety ==
    /\ NothingMappedYet
    /\ FreeIndexAboveInserted
    /\ InsertedOnlyInTouched
    /\ RenumberedKeysFresh
    /\ ClashesMapped
    /\ NoInsertOnTheirsKey
    /\ NoInternalError

\* The invariant holds when Rebase opens the files.
LEMMA FreshIInv == Fresh /\ input \in Input => IInv
<1>1. Fresh /\ input \in Input => TypeOK
  BY FreshTypeOK
<1>2. Fresh => Safety
  BY DEF Fresh, Safety, NothingMappedYet, FreeIndexAboveInserted, InsertedOnlyInTouched,
         RenumberedKeysFresh, ClashesMapped, NoInsertOnTheirsKey, NoInternalError
<1> QED
  BY <1>1, <1>2 DEF IInv, Safety

LEMMA InitIInv == Init => IInv
BY FreshIInv, InputsAssumption DEF Init

\* A key theirs inserted, or one already given away, proves a free index.
LEMMA RenumberHasIndex ==
    ASSUME IInv, NEW t \in Tables, NEW k \in Keys,
           \/ phase = "scan" /\ k \in inserted[t]
           \/ phase = "finalize" /\ k \in UsedNewPKs(t)
    PROVE  freeIndex[t] # NoIndex
<1>1. k \in Nat /\ freeIndex[t] \in Nat
  BY KeysAssumption DEF IInv, TypeOK
<1>2. k < freeIndex[t]
  BY DEF IInv, FreeIndexAboveInserted, UsedNewPKs, RenumberedKeysFresh
<1> QED
  BY <1>1, <1>2 DEF NoIndex

\* Reading an entry of theirs: nothing is mapped or kept yet.
LEMMA ParseSafe == IInv /\ ParseEntry => Safety'
<1> SUFFICES ASSUME IInv, ParseEntry PROVE Safety'
  OBVIOUS
<1> DEFINE e == theirs[pos + 1]
<1>1. TypeOK /\ e.table \in Tables
  <2>1. TypeOK /\ pos \in Nat
    BY DEF IInv, TypeOK
  <2>2. e \in InputEntry
    BY <2>1, InputType DEF ParseEntry
  <2> QED
    BY <2>1, <2>2 DEF InputEntry
<1>2. /\ phase = "parse" /\ phase' = phase
      /\ touched' = touched \cup {e.table}
      /\ inserted' = inserted \/ inserted' = RecordInserted(e)
      /\ UNCHANGED <<mapIds, changes>>
  BY DEF ParseEntry, mapping, result
<1> HIDE DEF e
<1>3. \A t \in Tables : DOMAIN mapIds[t] = {} /\ changes[t] = <<>>
  BY <1>2 DEF IInv, NothingMappedYet
<1>4. InsertedOnlyInTouched'
  BY <1>1, <1>2 DEF IInv, InsertedOnlyInTouched, RecordInserted, TypeOK
<1> QED
  BY <1>2, <1>3, <1>4 DEF Safety, NothingMappedYet, FreeIndexAboveInserted,
     RenumberedKeysFresh, ClashesMapped, NoInsertOnTheirsKey, NoInternalError

\* The free indices are set above the keys theirs inserted.
LEMMA StartScanSafe == IInv /\ StartScan => Safety'
<1> SUFFICES ASSUME IInv, StartScan PROVE Safety'
  OBVIOUS
<1>1. TypeOK /\ \A t \in Tables : inserted[t] \in SUBSET Keys
  BY DEF IInv, TypeOK
<1>2. /\ phase = "parse" /\ phase' = "scan" /\ pos' = 0
      /\ freeIndex' = [t \in Tables |-> FirstFree(inserted[t])]
      /\ UNCHANGED <<input, touched, inserted, mapIds, changes>>
  BY DEF StartScan, theirsInfo, result
<1>3. \A t \in Tables : DOMAIN mapIds[t] = {} /\ changes[t] = <<>>
  BY <1>2 DEF IInv, NothingMappedYet
<1>4. FreeIndexAboveInserted'
  BY <1>1, <1>2, FirstFreeAbove DEF FreeIndexAboveInserted
<1>5. ClashesMapped'
  BY <1>2 DEF ClashesMapped, Scanned
<1> QED
  BY <1>2, <1>3, <1>4, <1>5 DEF IInv, Safety, NothingMappedYet, InsertedOnlyInTouched,
     RenumberedKeysFresh, NoInsertOnTheirsKey, NoInternalError

\* Scanning an entry of ours: a clashing insert takes the free index.
LEMMA ScanSafe == IInv /\ ScanEntry => Safety'
<1> SUFFICES ASSUME IInv, ScanEntry PROVE Safety'
  OBVIOUS
<1> DEFINE e == ours[pos + 1]
<1>1. /\ TypeOK /\ e.table \in Tables /\ e.pk \in Keys
      /\ freeIndex \in [Tables -> Nat] /\ pos \in Nat
      /\ \A t \in Tables : inserted[t] \subseteq Int
  <2>1. TypeOK
    BY DEF IInv
  <2>2. freeIndex \in [Tables -> Nat] /\ pos \in Nat /\ \A t \in Tables : inserted[t] \subseteq Keys
    BY <2>1 DEF TypeOK
  <2>3. e \in InputEntry
    BY <2>1, <2>2, InputType DEF ScanEntry
  <2>4. Keys \subseteq Int
    BY KeysAssumption
  <2> QED
    BY <2>1, <2>2, <2>3, <2>4 DEF InputEntry
<1>2. /\ phase = "scan" /\ pos < Len(ours) /\ pos' = pos + 1
      /\ UNCHANGED <<input, touched, inserted, changes>>
      /\ \/ e.table \notin touched /\ UNCHANGED <<phase, mapIds, freeIndex>>
         \/ ScanInsert(e) \/ ScanUpdateOrDelete(e)
  BY DEF ScanEntry, theirsInfo, mapping, result
<1> HIDE DEF e
\* What the three kinds of step have in common.
<1> DEFINE Grows == \A t \in Tables : DOMAIN mapIds[t] \subseteq DOMAIN mapIds'[t]
           Covers == e.op = "insert" /\ e.pk \in inserted[e.table]
                        => e.pk \in DOMAIN mapIds'[e.table]
<1>3. /\ phase' = phase /\ RenumberedKeysFresh' /\ Grows /\ Covers
      /\ \A t \in Tables : freeIndex[t] <= freeIndex'[t] /\ freeIndex'[t] \in Nat
  <2>1. CASE e.table \notin touched /\ UNCHANGED <<phase, mapIds, freeIndex>>
    <3>1. inserted[e.table] = {}
      BY <1>1, <2>1 DEF IInv, InsertedOnlyInTouched
    <3> QED
      BY <1>1, <1>2, <2>1, <3>1 DEF IInv, RenumberedKeysFresh
  <2>2. CASE ScanInsert(e)
    <3>1. CASE e.pk \in inserted[e.table] /\ Renumber(e.table, e.pk)
      <4>1. freeIndex[e.table] # NoIndex
        BY <1>1, <1>2, <3>1, RenumberHasIndex
      <4>2. \A t \in Tables : freeIndex'[t] \in Nat
        BY <1>1, <3>1, RenumberType
      <4>3. /\ RenumberedKeysFresh' /\ Grows /\ UNCHANGED phase
            /\ \A t \in Tables : freeIndex[t] <= freeIndex'[t]
            /\ e.pk \in DOMAIN mapIds'[e.table]
        <5>1. UNCHANGED inserted /\ phase \in {"scan", "finalize"}
          BY <1>2
        <5> QED
          BY <1>1, <3>1, <4>1, <5>1, RenumberFresh
      <4> QED
        BY <4>2, <4>3
    <3>2. CASE e.pk \notin inserted[e.table] /\ UNCHANGED <<phase, mapIds, freeIndex>>
      BY <1>1, <1>2, <3>2 DEF IInv, RenumberedKeysFresh
    <3> QED
      BY <2>2, <3>1, <3>2 DEF ScanInsert
  <2>3. CASE ScanUpdateOrDelete(e)
    <3>1. e.op # "insert" /\ UNCHANGED <<phase, inserted, freeIndex>>
      BY <1>2, <2>3 DEF ScanUpdateOrDelete
    <3>2. CASE mapIds' = WithMapping(e.table, e.pk, InvalidFID)
      BY <1>1, <3>1, <3>2, InvalidateFresh
    <3>3. CASE mapIds' = mapIds
      BY <1>1, <1>2, <3>1, <3>3 DEF IInv, RenumberedKeysFresh
    <3> QED
      BY <2>3, <3>2, <3>3 DEF ScanUpdateOrDelete
  <2> QED
    BY <1>2, <2>1, <2>2, <2>3
<1>4. FreeIndexAboveInserted'
  <2>1. ASSUME NEW t \in Tables, NEW k \in inserted[t] PROVE k < freeIndex'[t]
    <3>1. k < freeIndex[t] /\ freeIndex[t] <= freeIndex'[t]
      BY <1>2, <1>3 DEF IInv, FreeIndexAboveInserted
    <3>2. k \in Int /\ freeIndex[t] \in Nat /\ freeIndex'[t] \in Nat
      BY <1>1, <1>3
    <3> QED
      BY <3>1, <3>2
  <2> QED
    BY <1>2, <2>1 DEF FreeIndexAboveInserted
<1>5. ClashesMapped'
  <2>1. ASSUME NEW i \in 1..Len(ours), i <= pos + 1, ours[i].op = "insert",
               ours[i].pk \in inserted[ours[i].table]
        PROVE  ours[i].pk \in DOMAIN mapIds'[ours[i].table]
    <3>1. CASE i = pos + 1
      BY <1>3, <2>1, <3>1 DEF e
    <3>2. CASE i # pos + 1
      <4>1. i <= pos
        BY <1>1, <2>1, <3>2
      <4>2. ours[i].table \in Tables
        BY <1>1, <2>1, InputType DEF InputEntry
      <4>3. ours[i].pk \in DOMAIN mapIds[ours[i].table]
        BY <1>2, <2>1, <4>1 DEF IInv, ClashesMapped, Scanned
      <4> QED
        BY <1>3, <4>2, <4>3
    <3> QED
      BY <3>1, <3>2
  <2>2. ours' = ours
    BY <1>2 DEF ours
  <2> QED
    BY <1>2, <1>3, <2>1, <2>2 DEF ClashesMapped, Scanned
<1> QED
  BY <1>2, <1>3, <1>4, <1>5 DEF IInv, Safety, NothingMappedYet, InsertedOnlyInTouched,
     NoInsertOnTheirsKey, NoInternalError

\* One turn of the map loop, for any key it may visit.
LEMMA FinalizeSafe ==
    ASSUME IInv, NEW t \in Tables, NEW k \in Keys, FinalizeKey(t, k)
    PROVE  Safety'
<1>1. /\ phase = "finalize"
      /\ UNCHANGED <<input, pos, touched, inserted, changes>>
      /\ \/ UNCHANGED <<phase, mapIds, freeIndex>>
         \/ k \in UsedNewPKs(t) /\ Renumber(t, k)
  BY DEF FinalizeKey, theirsInfo, result
<1>2. CASE UNCHANGED <<phase, mapIds, freeIndex>>
  BY <1>1, <1>2 DEF IInv, Safety, NothingMappedYet, FreeIndexAboveInserted,
     InsertedOnlyInTouched, RenumberedKeysFresh, ClashesMapped, Scanned, ours,
     NoInsertOnTheirsKey, NoInternalError
<1>3. CASE k \in UsedNewPKs(t) /\ Renumber(t, k)
  <2>1. freeIndex[t] # NoIndex
    BY <1>1, <1>3, RenumberHasIndex
  <2>2. /\ RenumberedKeysFresh' /\ UNCHANGED phase
        /\ \A u \in Tables : /\ DOMAIN mapIds[u] \subseteq DOMAIN mapIds'[u]
                             /\ freeIndex[u] <= freeIndex'[u]
    <3>1. UNCHANGED inserted /\ phase \in {"scan", "finalize"}
      BY <1>1
    <3> QED
      BY <1>3, <2>1, <3>1, RenumberFresh
  <2>3. FreeIndexAboveInserted'
    <3>1. TypeOK
      BY DEF IInv
    <3>2. ASSUME NEW u \in Tables, NEW i \in inserted[u] PROVE i < freeIndex'[u]
      <4>1. i < freeIndex[u] /\ freeIndex[u] <= freeIndex'[u]
        BY <1>1, <2>2 DEF IInv, FreeIndexAboveInserted
      <4>2. freeIndex[u] \in Nat /\ freeIndex'[u] \in Nat
        BY <1>3, <3>1, RenumberType DEF TypeOK
      <4>3. i \in Int
        BY <3>1, KeysAssumption DEF TypeOK
      <4> QED
        BY <4>1, <4>2, <4>3
    <3> QED
      BY <1>1, <3>2 DEF FreeIndexAboveInserted
  <2>4. ClashesMapped'
    <3>1. ASSUME NEW i \in 1..Len(ours), ours[i].op = "insert",
                 ours[i].pk \in inserted[ours[i].table]
          PROVE  ours[i].pk \in DOMAIN mapIds'[ours[i].table]
      <4>1. ours[i].table \in Tables
        BY InputType DEF InputEntry, IInv
      <4>2. Len(ours) \in Nat
        BY InputType DEF IInv
      <4> QED
        BY <1>1, <2>2, <3>1, <4>1, <4>2 DEF IInv, ClashesMapped, Scanned
    <3>2. ours' = ours
      BY <1>1 DEF ours
    <3> QED
      BY <1>1, <2>2, <3>1, <3>2 DEF ClashesMapped
  <2> QED
    BY <1>1, <2>2, <2>3, <2>4 DEF IInv, Safety, NothingMappedYet,
       InsertedOnlyInTouched, NoInsertOnTheirsKey, NoInternalError
<1> QED
  BY <1>1, <1>2, <1>3

\* The key handleInsert writes is none theirs inserted.
LEMMA NewPKAvoidsTheirs ==
    ASSUME IInv, phase = "prepare", NEW i \in 1..Len(ours), ours[i].op = "insert"
    PROVE  NewPK(ours[i]) \notin inserted[ours[i].table]
<1> DEFINE e == ours[i]
<1>1. TypeOK
  BY DEF IInv
<1>2. e.table \in Tables /\ e.pk \in Keys /\ i <= Len(ours)
  BY <1>1, InputType DEF InputEntry
<1>3. inserted[e.table] \subseteq Nat
  <2>1. Keys \subseteq Nat
    BY KeysAssumption
  <2>2. inserted[e.table] \subseteq Keys
    BY <1>1, <1>2 DEF TypeOK
  <2> QED
    BY <2>1, <2>2
<1>4. CASE e.pk \notin DOMAIN mapIds[e.table]
  <2>1. e.pk \notin inserted[e.table]
    BY <1>2, <1>4 DEF IInv, ClashesMapped, Scanned
  <2> QED
    BY <1>4, <2>1 DEF NewPK
<1>5. CASE e.pk \in DOMAIN mapIds[e.table]
  <2>1. NewPK(e) = mapIds[e.table][e.pk]
    BY <1>5 DEF NewPK
  <2>2. CASE NewPK(e) = InvalidFID
    BY <1>3, <2>2 DEF InvalidFID
  <2>3. CASE NewPK(e) # InvalidFID
    <3>1. \A j \in inserted[e.table] : j < NewPK(e)
      BY <1>2, <1>5, <2>1, <2>3 DEF IInv, RenumberedKeysFresh
    <3> QED
      BY <1>3, <3>1
  <2> QED
    BY <2>2, <2>3
<1> QED
  BY <1>4, <1>5

\* What prepareNewChangeset keeps is under no key theirs inserted.
LEMMA PrepareSafe == IInv /\ PrepareEntry => Safety'
<1> SUFFICES ASSUME IInv, PrepareEntry PROVE Safety'
  OBVIOUS
<1> DEFINE e == ours[pos + 1]
<1>1. TypeOK /\ pos \in Nat
  BY DEF IInv, TypeOK
<1>2. /\ phase = "prepare" /\ pos < Len(ours)
      /\ UNCHANGED <<phase, input, touched, inserted, mapIds, freeIndex>>
      /\ \/ e.table \notin touched /\ Keep(e)
         \/ e.op = "insert" /\ HandleInsert(e)
         \/ e.op = "delete" /\ HandleDelete(e)
         \/ e.op = "update" /\ HandleUpdate(e)
  BY DEF PrepareEntry, theirsInfo, mapping
<1>3. pos + 1 \in 1..Len(ours) /\ e \in InputEntry /\ e.table \in Tables
  BY <1>1, <1>2, InputType DEF InputEntry
<1>4. NoInsertOnTheirsKey'
  <2>1. /\ e \in Entry /\ [e EXCEPT !.pk = NewPK(e)] \in Entry
        /\ RebasedDelete(e) \in Entry /\ RebasedUpdate(e) \in Entry
    BY <1>1, <1>3, RebasedType
  <2>2. e.op = "insert" => NewPK(e) \notin inserted[e.table]
    BY <1>2, <1>3, NewPKAvoidsTheirs
  <2> HIDE DEF e
  <2>3. CASE e.table \notin touched /\ Keep(e)
    <3>1. e.pk \notin inserted[e.table]
      BY <1>3, <2>3 DEF IInv, InsertedOnlyInTouched
    <3> QED
      BY <1>2, <2>1, <2>3, <3>1, KeepSafe
  <2>4. CASE e.op = "insert" /\ HandleInsert(e)
    <3> DEFINE x == [e EXCEPT !.pk = NewPK(e)]
    <3>1. x.pk = NewPK(e) /\ x.table = e.table
      BY <1>3 DEF InputEntry
    <3>2. Keep(x)
      BY <2>4 DEF HandleInsert
    <3> HIDE DEF x
    <3> QED
      BY <1>2, <2>1, <2>2, <2>4, <3>1, <3>2, KeepSafe DEF x
  <2>5. CASE e.op = "delete" /\ HandleDelete(e)
    <3>1. RebasedDelete(e).op = "delete"
      BY <1>3, <2>5 DEF RebasedDelete, InputEntry
    <3>2. UNCHANGED changes \/ Keep(RebasedDelete(e))
      BY <2>5 DEF HandleDelete
    <3> QED
      BY <1>2, <2>1, <3>1, <3>2, KeepSafe DEF IInv, NoInsertOnTheirsKey
  <2>6. CASE e.op = "update" /\ HandleUpdate(e)
    <3>1. RebasedUpdate(e).op = "update"
      BY <1>3, <2>6 DEF RebasedUpdate, InputEntry
    <3>2. UNCHANGED changes \/ Keep(RebasedUpdate(e))
      BY <2>6 DEF HandleUpdate
    <3> QED
      BY <1>2, <2>1, <3>1, <3>2, KeepSafe DEF IInv, NoInsertOnTheirsKey
  <2> QED
    BY <1>2, <2>3, <2>4, <2>5, <2>6 DEF e
<1> QED
  BY <1>2, <1>4 DEF IInv, Safety, NothingMappedYet, FreeIndexAboveInserted,
     InsertedOnlyInTouched, RenumberedKeysFresh, ClashesMapped, Scanned, ours,
     NoInternalError

\* Every step keeps IInv.
LEMMA NextIInv == IInv /\ [Next]_vars => IInv'
<1> SUFFICES ASSUME IInv, [Next]_vars PROVE IInv'
  OBVIOUS
<1>1. TypeOK'
  BY NextTypeOK DEF IInv
<1>2. Safety'
  <2>1. CASE ParseEntry
    BY <2>1, ParseSafe
  <2>2. CASE StartScan
    BY <2>2, StartScanSafe
  <2>3. CASE ScanEntry
    BY <2>3, ScanSafe
  <2>4. ASSUME NEW t \in Tables, NEW k \in Keys, FinalizeKey(t, k) PROVE Safety'
    BY <2>4, FinalizeSafe
  <2>5. CASE PrepareEntry
    BY <2>5, PrepareSafe
  <2>6. CASE CopyOurs \/ CopyTheirs \/ StartParse \/ WriteTable \/ StartWrite \/ CloseOutput
             \/ UNCHANGED vars
    BY <2>6 DEF CopyOurs, CopyTheirs, StartParse, WriteTable, StartWrite, CloseOutput, vars,
       theirsInfo, mapping, result, IInv, Safety, NothingMappedYet,
       FreeIndexAboveInserted, InsertedOnlyInTouched, RenumberedKeysFresh,
       ClashesMapped, Scanned, ours, NoInsertOnTheirsKey, NoInternalError
  <2>7. CASE StartFinalize \/ StartPrepare
    <3>1. Len(ours) \in Nat
      BY InputType DEF IInv
    <3> QED
      BY <2>7, <3>1 DEF StartFinalize, StartPrepare,
         theirsInfo, mapping, result, IInv, Safety, NothingMappedYet,
         FreeIndexAboveInserted, InsertedOnlyInTouched, RenumberedKeysFresh,
         ClashesMapped, Scanned, ours, NoInsertOnTheirsKey, NoInternalError
  <2> QED
    BY <2>1, <2>2, <2>3, <2>4, <2>5, <2>6, <2>7 DEF Next
<1> QED
  BY <1>1, <1>2 DEF IInv, Safety

-----------------------------------------------------------------------------
(* The theorems *)

\* Rebase's state keeps its types, for every pair of changesets.
THEOREM TypeCorrect == Spec => []TypeOK
<1>1. Init => TypeOK
  BY InitTypeOK
<1>2. TypeOK /\ [Next]_vars => TypeOK'
  BY NextTypeOK
<1> QED
  BY <1>1, <1>2, PTL DEF Spec

\* IInv is inductive, hence an invariant of Rebase.
THEOREM Invariance == Spec => []IInv
<1>1. Init => IInv
  BY InitIInv
<1>2. IInv /\ [Next]_vars => IInv'
  BY NextIInv
<1> QED
  BY <1>1, <1>2, PTL DEF Spec

\* No row of ours is inserted under a key theirs inserted, whatever the two
\* changesets and the order of the map loop.
THEOREM InsertsAvoidTheirs == Spec => []NoInsertOnTheirsKey
<1>1. IInv => NoInsertOnTheirsKey
  BY DEF IInv
<1> QED
  BY <1>1, Invariance, PTL

\* The keys findMappingForNewChangeset gives renumbered rows are fresh and
\* distinct, for every pair of changesets.
THEOREM RenumberingSound == Spec => []RenumberedKeysFresh
<1>1. IInv => RenumberedKeysFresh
  BY DEF IInv
<1> QED
  BY <1>1, Invariance, PTL

\* The "internal error" returns of findMappingForNewChangeset are dead code.
THEOREM InternalErrorsUnreachable == Spec => []NoInternalError
<1>1. IInv => NoInternalError
  BY DEF IInv
<1> QED
  BY <1>1, Invariance, PTL

-----------------------------------------------------------------------------
(* Renumbered rows arrive whole *)

\* A key is mapped in a table theirs changed, and to another key.
MappedElsewhere ==
    \A t \in Tables : \A k \in DOMAIN mapIds[t] : t \in touched /\ mapIds[t][k] # k

Prepared == IF phase = "prepare" THEN pos ELSE Len(ours)

\* The entry of a renumbered row as it has to be kept.
Moved(e) == [e EXCEPT !.pk = NewPK(e)]

Renumbered(e) == e.pk \in DOMAIN mapIds[e.table] /\ NewPK(e) # InvalidFID

\* Every entry of a renumbered row read so far has been kept with its new key.
MovedSoFar ==
    phase \in {"prepare", "write", "done"} =>
        \A i \in 1..Len(ours) :
            i <= Prepared /\ Renumbered(ours[i])
                => Contains(changes[ours[i].table], Moved(ours[i]))

\* One more mapping, to another key.
LEMMA WithMappingElsewhere ==
    ASSUME IInv, MappedElsewhere, UNCHANGED touched, NEW t \in Tables, t \in touched,
           NEW k, NEW n, n # k, mapIds' = WithMapping(t, k, n)
    PROVE  MappedElsewhere'
<1>1. TypeOK /\ mapIds' = WithMapping(t, k, n) /\ touched' = touched
  BY DEF IInv
<1>2. mapIds'[t] = [j \in DOMAIN mapIds[t] \cup {k} |-> IF j = k THEN n ELSE mapIds[t][j]]
  BY <1>1 DEF TypeOK, WithMapping
<1>3. \A u \in Tables : u # t => mapIds'[u] = mapIds[u]
  BY <1>1 DEF TypeOK, WithMapping
<1>4. \A u \in Tables : \A j \in DOMAIN mapIds[u] : u \in touched /\ mapIds[u][j] # j
  BY DEF MappedElsewhere
<1>5. \A j \in DOMAIN mapIds'[t] : t \in touched /\ mapIds'[t][j] # j
  BY <1>2, <1>4
<1>6. \A u \in Tables : \A j \in DOMAIN mapIds'[u] : u \in touched /\ mapIds'[u][j] # j
  BY <1>3, <1>4, <1>5
<1> QED
  BY <1>1, <1>6 DEF MappedElsewhere

\* A renumbering gives a key above the one it replaces.
LEMMA RenumberElsewhere ==
    ASSUME IInv, MappedElsewhere, UNCHANGED touched, NEW t \in Tables, t \in touched,
           NEW k \in Keys, Renumber(t, k), k < freeIndex[t]
    PROVE  MappedElsewhere'
<1>1. k \in Nat /\ freeIndex[t] \in Nat
  BY KeysAssumption DEF IInv, TypeOK
<1>2. CASE UNCHANGED mapIds
  BY <1>2 DEF MappedElsewhere
<1>3. CASE mapIds' = WithMapping(t, k, freeIndex[t])
  BY <1>1, <1>3, WithMappingElsewhere
<1> QED
  BY <1>2, <1>3 DEF Renumber

\* The scan maps keys to other keys.
LEMMA ScanElsewhere == ASSUME IInv, MappedElsewhere, ScanEntry PROVE MappedElsewhere'
<1> DEFINE e == ours[pos + 1]
<1>1. TypeOK /\ pos \in Nat
  BY DEF IInv, TypeOK
<1>2. /\ phase = "scan" /\ pos < Len(ours) /\ UNCHANGED touched
      /\ \/ UNCHANGED mapping
         \/ e.table \in touched /\ (ScanInsert(e) \/ ScanUpdateOrDelete(e))
  BY DEF ScanEntry, theirsInfo
<1>3. e \in InputEntry
  BY <1>1, <1>2, InputType
<1> HIDE DEF e
<1>4. e.pk \in Keys /\ e.pk \in Nat /\ e.table \in Tables
  <2>1. e.pk \in Keys /\ e.table \in Tables
    BY <1>3 DEF InputEntry
  <2>2. Keys \subseteq Nat
    BY KeysAssumption
  <2> QED
    BY <2>1, <2>2
<1>5. CASE UNCHANGED mapIds
  BY <1>2, <1>5 DEF MappedElsewhere
<1>6. CASE e.table \in touched /\ ScanInsert(e)
  <2>1. CASE e.pk \in inserted[e.table] /\ Renumber(e.table, e.pk)
    <3>1. e.pk < freeIndex[e.table]
      BY <1>2, <1>4, <2>1 DEF IInv, FreeIndexAboveInserted
    <3> QED
      BY <1>2, <1>4, <1>6, <2>1, <3>1, RenumberElsewhere
  <2> QED
    BY <1>5, <1>6, <2>1 DEF ScanInsert
<1>7. CASE e.table \in touched /\ ScanUpdateOrDelete(e)
  <2>1. CASE mapIds' = WithMapping(e.table, e.pk, InvalidFID)
    <3>1. InvalidFID # e.pk
      BY <1>4 DEF InvalidFID
    <3> QED
      BY <1>2, <1>4, <1>7, <2>1, <3>1, WithMappingElsewhere
  <2> QED
    BY <1>5, <1>7, <2>1 DEF ScanUpdateOrDelete
<1> QED
  BY <1>2, <1>5, <1>6, <1>7 DEF mapping

\* So does the map loop.
LEMMA FinalizeElsewhere ==
    ASSUME IInv, MappedElsewhere, NEW t \in Tables, NEW k \in Keys, FinalizeKey(t, k)
    PROVE  MappedElsewhere'
<1>1. UNCHANGED touched
  BY DEF FinalizeKey, theirsInfo
<1>2. CASE UNCHANGED mapIds
  BY <1>1, <1>2 DEF MappedElsewhere
<1>3. CASE k \in UsedNewPKs(t) /\ Renumber(t, k)
  <2>1. PICK j \in DOMAIN mapIds[t] : mapIds[t][j] = k /\ k # InvalidFID
    BY <1>3 DEF UsedNewPKs
  <2>2. t \in touched
    BY <2>1 DEF MappedElsewhere
  <2>3. k < freeIndex[t]
    BY <2>1 DEF IInv, RenumberedKeysFresh
  <2> QED
    BY <1>1, <1>3, <2>2, <2>3, RenumberElsewhere
<1> QED
  BY <1>2, <1>3 DEF FinalizeKey

\* With another key an entry of a row theirs changed keeps its own values.
LEMMA RebasedMoved ==
    ASSUME TypeOK, NEW e \in InputEntry, NewPK(e) # e.pk
    PROVE  RebasedDelete(e) = Moved(e) /\ RebasedUpdate(e) = Moved(e)
<1>1. Patched(e) = Blank
  BY DEF Patched
<1>2. e.old \in EntryValues /\ e.new \in EntryValues
  BY DEF InputEntry
<1>3. Overlay(Patched(e), e.old) = e.old
  BY <1>1, <1>2 DEF Overlay, Blank, EntryValues
<1>4. /\ [c \in Cols |-> IF Patched(e)[c] = Undefined THEN e.old[c] ELSE Undefined] = e.old
      /\ [c \in Cols |-> IF Patched(e)[c] = Undefined THEN e.new[c] ELSE Undefined] = e.new
  BY <1>1, <1>2 DEF Blank, EntryValues
<1>5. RebasedDelete(e) = Moved(e)
  BY <1>3 DEF RebasedDelete, Moved, InputEntry
<1>6. RebasedUpdate(e) = Moved(e)
  BY <1>4 DEF RebasedUpdate, Moved, InputEntry
<1> QED
  BY <1>5, <1>6

\* What has been kept stays.
LEMMA KeepContains ==
    ASSUME TypeOK, NEW e \in Entry, Keep(e)
    PROVE  /\ Contains(changes'[e.table], e)
           /\ \A t \in Tables : \A x : Contains(changes[t], x) => Contains(changes'[t], x)
<1>1. e.table \in Tables /\ \A t \in Tables : changes[t] \in Seq(Entry)
  BY DEF Entry, TypeOK
<1>2. \A t \in Tables : changes'[t] = IF t = e.table THEN Append(changes[t], e) ELSE changes[t]
  BY <1>1 DEF Keep, TypeOK
<1>3. ASSUME NEW s \in Seq(Entry)
      PROVE  /\ Contains(Append(s, e), e)
             /\ \A x : Contains(s, x) => Contains(Append(s, e), x)
  <2>1. Len(Append(s, e)) = Len(s) + 1 /\ Len(s) \in Nat
    BY <1>3
  <2>2. Append(s, e)[Len(s) + 1] = e /\ \A i \in 1..Len(s) : Append(s, e)[i] = s[i]
    BY <1>3
  <2> QED
    BY <2>1, <2>2 DEF Contains
<1> QED
  BY <1>1, <1>2, <1>3

\* Preparing an entry of a renumbered row keeps it with nothing but its key changed.
LEMMA PrepareMoved ==
    ASSUME IInv, MappedElsewhere, MovedSoFar, PrepareEntry
    PROVE  MovedSoFar'
<1> DEFINE e == ours[pos + 1]
<1>1. TypeOK /\ pos \in Nat
  BY DEF IInv, TypeOK
<1>2. /\ phase = "prepare" /\ pos < Len(ours) /\ pos' = pos + 1
      /\ UNCHANGED <<phase, input, touched, mapIds>>
      /\ \/ e.table \notin touched /\ Keep(e)
         \/ e.op = "insert" /\ HandleInsert(e)
         \/ e.op = "delete" /\ HandleDelete(e)
         \/ e.op = "update" /\ HandleUpdate(e)
  BY DEF PrepareEntry, theirsInfo, mapping
<1>3. /\ pos + 1 \in 1..Len(ours) /\ Len(ours) \in Nat /\ e \in InputEntry
      /\ \A i \in 1..Len(ours) : ours[i] \in InputEntry
  BY <1>1, <1>2, InputType
<1>4. e.table \in Tables /\ \A i \in 1..Len(ours) : ours[i].table \in Tables
  BY <1>3 DEF InputEntry
<1>5. /\ e \in Entry /\ Moved(e) \in Entry
      /\ RebasedDelete(e) \in Entry /\ RebasedUpdate(e) \in Entry
  BY <1>1, <1>3, RebasedType DEF Moved
<1>6. Moved(e).table = e.table /\ e.op \in Operations /\ (e.op = "update" => e.new # Blank)
  BY <1>3 DEF Moved, InputEntry
<1>7. Renumbered(e) => /\ e.table \in touched /\ NewPK(e) # e.pk
                       /\ RebasedDelete(e) = Moved(e) /\ RebasedUpdate(e) = Moved(e)
  BY <1>1, <1>3, <1>4, RebasedMoved DEF Renumbered, MappedElsewhere, NewPK
<1>8. Moved(e).new = e.new
  BY <1>3 DEF Moved, InputEntry
<1> HIDE DEF e
<1>9. UNCHANGED changes \/ \E x \in Entry : Keep(x)
  BY <1>2, <1>5 DEF HandleInsert, HandleDelete, HandleUpdate, Moved
<1>10. \A t \in Tables : \A x : Contains(changes[t], x) => Contains(changes'[t], x)
  BY <1>1, <1>9, KeepContains
<1>11. Renumbered(e) => Keep(Moved(e))
  BY <1>2, <1>6, <1>7, <1>8 DEF HandleInsert, HandleDelete, HandleUpdate, Renumbered, Moved
<1>12. Renumbered(e) => Contains(changes'[e.table], Moved(e))
  BY <1>1, <1>5, <1>6, <1>11, KeepContains
<1>13. ASSUME NEW i \in 1..Len(ours), i <= pos + 1, Renumbered(ours[i])
       PROVE  Contains(changes'[ours[i].table], Moved(ours[i]))
  <2>1. CASE i = pos + 1
    BY <1>12, <1>13, <2>1 DEF e
  <2>2. CASE i <= pos
    BY <1>2, <1>4, <1>10, <1>13, <2>2 DEF MovedSoFar, Prepared
  <2> QED
    BY <1>1, <1>3, <1>13, <2>1, <2>2
<1>14. /\ ours' = ours /\ Prepared' = pos + 1
       /\ \A x : Renumbered(x)' = Renumbered(x) /\ Moved(x)' = Moved(x)
  BY <1>2 DEF ours, Prepared, Renumbered, Moved, NewPK
<1> QED
  BY <1>13, <1>14 DEF MovedSoFar

MovedInv == MappedElsewhere /\ MovedSoFar

\* Every step preserves both.
LEMMA NextMoved == IInv /\ MovedInv /\ [Next]_vars => MovedInv'
<1> SUFFICES ASSUME IInv, MappedElsewhere, MovedSoFar, [Next]_vars
             PROVE  MappedElsewhere' /\ MovedSoFar'
  BY DEF MovedInv
<1>1. TypeOK /\ Len(ours) \in Nat /\ pos \in Nat
  BY InputType DEF IInv, TypeOK
<1>2. CASE ScanEntry
  <2>1. phase' \in {"scan", "error"}
    BY <1>2 DEF ScanEntry, mapping, ScanInsert, ScanUpdateOrDelete, Renumber
  <2> QED
    BY <1>2, <2>1, ScanElsewhere DEF MovedSoFar
<1>3. ASSUME NEW t \in Tables, NEW k \in Keys, FinalizeKey(t, k)
      PROVE  MappedElsewhere' /\ MovedSoFar'
  <2>1. phase' \in {"finalize", "error"}
    BY <1>3 DEF FinalizeKey, Renumber
  <2> QED
    BY <1>3, <2>1, FinalizeElsewhere DEF MovedSoFar
<1>4. CASE PrepareEntry
  <2>1. MappedElsewhere'
    BY <1>4 DEF PrepareEntry, theirsInfo, mapping, MappedElsewhere
  <2> QED
    BY <1>4, <2>1, PrepareMoved
<1>5. CASE ParseEntry \/ StartScan \/ StartParse
  <2>1. /\ phase' \in {"parse", "scan"} /\ mapIds' = mapIds /\ touched \subseteq touched'
    BY <1>5 DEF ParseEntry, StartScan, StartParse, theirsInfo, mapping
  <2> QED
    BY <2>1 DEF MappedElsewhere, MovedSoFar
<1>6. CASE CopyOurs \/ CopyTheirs
  <2>1. /\ phase = "open" /\ UNCHANGED <<input, touched, mapIds>>
    BY <1>6 DEF CopyOurs, CopyTheirs, theirsInfo, mapping
  <2>2. \A t \in Tables : DOMAIN mapIds[t] = {}
    BY <2>1 DEF IInv, NothingMappedYet
  <2>3. MappedElsewhere'
    BY <2>1 DEF MappedElsewhere
  <2>4. \A i \in 1..Len(ours) : ~Renumbered(ours[i])
    <3> TAKE i \in 1..Len(ours)
    <3>1. ours[i].table \in Tables
      BY <1>1, InputType DEF InputEntry
    <3> QED
      BY <2>2, <3>1 DEF Renumbered
  <2>5. ours' = ours /\ \A x : Renumbered(x)' = Renumbered(x)
    BY <2>1 DEF ours, Renumbered, NewPK
  <2> QED
    BY <2>3, <2>4, <2>5 DEF MovedSoFar
<1>7. CASE \/ StartFinalize \/ StartPrepare \/ StartWrite \/ WriteTable \/ CloseOutput
           \/ UNCHANGED vars
  <2>1. /\ UNCHANGED <<input, touched, mapIds, changes>>
        /\ \/ phase' = "finalize"
           \/ phase' = "prepare" /\ pos' = 0
           \/ phase = "prepare" /\ pos = Len(ours) /\ phase' = "write"
           \/ phase = "write" /\ phase' \in {"write", "done"}
           \/ phase' = phase /\ pos' = pos
    BY <1>7 DEF StartFinalize, StartPrepare, StartWrite, WriteTable, CloseOutput, vars,
                theirsInfo, mapping, result
  <2>2. MappedElsewhere'
    BY <2>1 DEF MappedElsewhere
  <2>3. ours' = ours /\ \A x : Renumbered(x)' = Renumbered(x) /\ Moved(x)' = Moved(x)
    BY <2>1 DEF ours, Renumbered, Moved, NewPK
  <2>4. MovedSoFar'
    BY <1>1, <2>1, <2>3 DEF MovedSoFar, Prepared
  <2> QED
    BY <2>2, <2>4
<1> QED
  BY <1>2, <1>3, <1>4, <1>5, <1>6, <1>7 DEF Next

\* A row of ours that had to be renumbered arrives whole: each of its entries
\* is written with its values as they were and the new key, for any changesets.
THEOREM RenumberedRowsArrive == Spec => []RenumberedRowsMoveWhole
<1>1. Init => MovedInv
  <2> SUFFICES ASSUME Init PROVE MovedInv
    OBVIOUS
  <2>1. phase = "open" /\ \A t \in Tables : DOMAIN mapIds[t] = {}
    BY DEF Init, Fresh
  <2> QED
    BY <2>1 DEF MovedInv, MappedElsewhere, MovedSoFar
<1>2. IInv /\ MovedInv /\ [Next]_vars => MovedInv'
  BY NextMoved
<1>3. IInv /\ MovedInv => RenumberedRowsMoveWhole
  <2> SUFFICES ASSUME IInv, MovedSoFar PROVE RenumberedRowsMoveWhole
    BY DEF MovedInv
  <2>1. DOMAIN ours = 1..Len(ours) /\ Len(ours) \in Nat
    BY InputType DEF IInv
  <2> QED
    BY <2>1 DEF MovedSoFar, RenumberedRowsMoveWhole, Prepared, Renumbered, Moved
<1> QED
  BY <1>1, <1>2, <1>3, Invariance, PTL DEF Spec

-----------------------------------------------------------------------------
(* The merge: what is known of theirs, of the mapping and of what was kept *)

AtRow(e, t, k) == e.table = t /\ e.pk = k

\* Keys get another number because of what theirs inserted, and for nothing else.
TheirsInsertNothing == \A i \in 1..Len(theirs) : theirs[i].op # "insert"

NoneNumbered(t) ==
    /\ inserted[t] = {} /\ freeIndex[t] = NoIndex
    /\ \A k \in DOMAIN mapIds[t] : mapIds[t][k] = InvalidFID

NumberedForTheirs == TheirsInsertNothing => \A t \in Tables : NoneNumbered(t)

\* A call both sides of which have something to say, once per row.
RowsCall == theirs # <<>> /\ ours # <<>> /\ OneEntryPerRow(theirs) /\ OneEntryPerRow(ours)

OpenAtStart == phase = "open" => pos = 0

\* How many entries of theirs parseOldChangeset has read.
TheirsRead == IF phase = "open" THEN 0 ELSE IF phase = "parse" THEN pos ELSE Len(theirs)

\* databaseRebaseInfo tells what theirs' entries read so far do, row by row.
TheirsKnown ==
    /\ \A t \in Tables : t \in touched <=> \E i \in 1..TheirsRead : theirs[i].table = t
    /\ \A t \in Tables, k \in Keys :
        k \in deleted[t] <=>
            \E i \in 1..TheirsRead : theirs[i].op = "delete" /\ AtRow(theirs[i], t, k)
    /\ \A t \in Tables, k \in Keys :
        (\A i \in 1..TheirsRead : ~(theirs[i].op = "update" /\ AtRow(theirs[i], t, k)))
            => updated[t][k] = Blank
    /\ \A i \in 1..TheirsRead :
        theirs[i].op = "update" => updated[theirs[i].table][theirs[i].pk] = theirs[i].new

\* How many entries of ours findMappingForNewChangeset has read.
OursScanned ==
    IF phase \in {"open", "parse"} THEN 0 ELSE IF phase = "scan" THEN pos ELSE Len(ours)

\* A key is mapped for an entry of ours: an insert to a key, an update or a delete
\* to none, if theirs deleted the row, and then always.
Explains(e, t, k, n) ==
    /\ AtRow(e, t, k)
    /\ IF e.op = "insert" THEN n # InvalidFID ELSE k \in deleted[t] /\ n = InvalidFID

OursMapped ==
    /\ \A t \in Tables : \A k \in DOMAIN mapIds[t] :
        /\ t \in touched
        /\ \E i \in 1..OursScanned : Explains(ours[i], t, k, mapIds[t][k])
    /\ \A i \in 1..OursScanned :
        ours[i].op # "insert" /\ ours[i].table \in touched /\ ours[i].pk \in deleted[ours[i].table]
            => ours[i].pk \in DOMAIN mapIds[ours[i].table]
    /\ \A t \in Tables : \A k \in unmapped[t] :
        /\ t \in touched
        /\ \E i \in 1..OursScanned : AtRow(ours[i], t, k) /\ ours[i].op = "insert"

\* How many entries of ours prepareNewChangeset has read.
OursPrepared ==
    IF phase \in {"write", "done"} THEN Len(ours) ELSE IF phase = "prepare" THEN pos ELSE 0

\* What prepareNewChangeset makes of an entry, and when it makes nothing of it.
Rebased(e) ==
    IF e.table \notin touched THEN e
    ELSE IF e.op = "insert" THEN Moved(e)
    ELSE IF e.op = "delete" THEN RebasedDelete(e)
    ELSE RebasedUpdate(e)

Dropped(e) ==
    /\ e.table \in touched
    /\ \/ e.op # "insert" /\ NewPK(e) = InvalidFID
       \/ e.op = "update" /\ RebasedUpdate(e).new = Blank

\* The conflict an update of ours may cause.
ItemsOf(e) ==
    IF NewPK(e) = InvalidFID
    THEN ConflictItems(e, {c \in Cols : e.new[c] # Undefined}, Blank)
    ELSE ConflictItems(e, ContestedCols(e), Patched(e))

ConflictOf(e) == [pk |-> e.pk, table |-> e.table, items |-> ItemsOf(e)]

Reports(e) == e.table \in touched /\ e.op = "update" /\ ItemsOf(e) # {}

\* Something kept for table t, and the entry of ours it was made of.
MadeOf(y, t, i) == ours[i].table = t /\ ~Dropped(ours[i]) /\ y = Rebased(ours[i])

\* What has been kept is what the entries read so far were rebased to, each once;
\* each table is named once, and each conflict is reported.
KeptOfOurs ==
    \A t \in Tables : \A m \in 1..Len(changes[t]) :
        \E i \in 1..OursPrepared : MadeOf(changes[t][m], t, i)

OursNotLost ==
    \A i \in 1..OursPrepared :
        ~Dropped(ours[i]) =>
            \E m \in 1..Len(changes[ours[i].table]) : changes[ours[i].table][m] = Rebased(ours[i])

KeptApart ==
    \A t \in Tables : \A l, m \in 1..Len(changes[t]) :
        l # m => \E i, j \in 1..OursPrepared :
                    i # j /\ MadeOf(changes[t][l], t, i) /\ MadeOf(changes[t][m], t, j)

OursKept == KeptOfOurs /\ OursNotLost /\ KeptApart

TablesNamed ==
    /\ \A i, j \in 1..Len(tableOrder) : tableOrder[i] = tableOrder[j] => i = j
    /\ \A i \in 1..OursPrepared : \E j \in 1..Len(tableOrder) : tableOrder[j] = ours[i].table

ConflictsKnown ==
    conflicts = {ConflictOf(ours[i]) : i \in {j \in 1..OursPrepared : Reports(ours[j])}}

\* How many tables prepareNewChangeset has written.
TablesWritten ==
    IF phase = "done" THEN Len(tableOrder) ELSE IF phase = "write" THEN pos ELSE 0

\* The output has the kept entries of the tables written, each once.
OutputFromKept ==
    \A l \in 1..Len(output) :
        \E q \in 1..TablesWritten : \E m \in 1..Len(changes[tableOrder[q]]) :
            output[l] = changes[tableOrder[q]][m]

KeptInOutput ==
    \A q \in 1..TablesWritten : \A m \in 1..Len(changes[tableOrder[q]]) :
        \E l \in 1..Len(output) : output[l] = changes[tableOrder[q]][m]

TwoOfTable(x, y, t) ==
    \E m, n \in 1..Len(changes[t]) : m # n /\ x = changes[t][m] /\ y = changes[t][n]

KeptOnce ==
    \A l, r \in 1..Len(output) :
        l # r /\ output[l].table = output[r].table
            => TwoOfTable(output[l], output[r], output[l].table)

OutputKept == OutputFromKept /\ KeptInOutput /\ KeptOnce

-----------------------------------------------------------------------------
(* Reading theirs *)

\* Reading one more entry of theirs records what it does to its row, which no entry
\* read before is about.
LEMMA ParseKnown ==
    ASSUME IInv, OneEntryPerRow(theirs), TheirsKnown, ParseEntry
    PROVE  TheirsKnown'
<1> DEFINE e == theirs[pos + 1]
<1>1. TypeOK /\ pos \in Nat
  BY DEF IInv, TypeOK
<1>2. /\ phase = "parse" /\ phase' = "parse" /\ pos < Len(theirs) /\ pos' = pos + 1
      /\ input' = input /\ touched' = touched \cup {e.table}
      /\ deleted' = IF e.op = "delete" THEN RecordDeleted(e) ELSE deleted
      /\ updated' = IF e.op = "update" THEN RecordUpdated(e) ELSE updated
  BY DEF ParseEntry
<1>3. /\ e \in InputEntry /\ Len(theirs) \in Nat /\ pos + 1 \in 1..Len(theirs)
      /\ \A i \in 1..Len(theirs) : theirs[i] \in InputEntry
  BY <1>1, <1>2, InputType
<1>4. \A i \in 1..pos : i \in 1..Len(theirs) /\ ~(AtRow(theirs[i], e.table, e.pk))
  <2> TAKE i \in 1..pos
  <2>1. i \in 1..Len(theirs) /\ i # pos + 1
    BY <1>1, <1>2, <1>3
  <2>2. DOMAIN theirs = 1..Len(theirs)
    BY <1>1, InputType
  <2> QED
    BY <1>3, <2>1, <2>2 DEF OneEntryPerRow, AtRow
<1>5. /\ TheirsRead = pos /\ TheirsRead' = pos + 1 /\ theirs' = theirs
      /\ 1..(pos + 1) = 1..pos \cup {pos + 1}
  BY <1>1, <1>2 DEF TheirsRead, theirs
<1>6. e = theirs[pos + 1]
  OBVIOUS
<1> HIDE DEF e
<1>7. e.table \in Tables /\ e.pk \in Keys
  BY <1>3 DEF InputEntry
<1>8. \A t \in Tables, k \in Keys :
        k \in deleted'[t] <=> k \in deleted[t] \/ (e.op = "delete" /\ AtRow(e, t, k))
  BY <1>1, <1>2, <1>7 DEF RecordDeleted, TypeOK, AtRow
<1>9. \A t \in Tables, k \in Keys :
        updated'[t][k] = IF e.op = "update" /\ AtRow(e, t, k) THEN e.new ELSE updated[t][k]
  BY <1>1, <1>2, <1>7 DEF RecordUpdated, TypeOK, AtRow
<1>10. \A t \in Tables : t \in touched' <=> \E i \in 1..(pos + 1) : theirs[i].table = t
  BY <1>2, <1>5, <1>6 DEF TheirsKnown
<1>11. ASSUME NEW t \in Tables, NEW k \in Keys
       PROVE  k \in deleted'[t] <=>
                \E i \in 1..(pos + 1) : theirs[i].op = "delete" /\ AtRow(theirs[i], t, k)
  BY <1>5, <1>6, <1>8 DEF TheirsKnown
<1>12. ASSUME NEW t \in Tables, NEW k \in Keys,
              \A i \in 1..(pos + 1) : ~(theirs[i].op = "update" /\ AtRow(theirs[i], t, k))
       PROVE  updated'[t][k] = Blank
  <2>1. ~(e.op = "update" /\ AtRow(e, t, k)) /\ updated[t][k] = Blank
    BY <1>5, <1>6, <1>12 DEF TheirsKnown
  <2> QED
    BY <1>9, <2>1
<1>13. ASSUME NEW i \in 1..(pos + 1), theirs[i].op = "update"
       PROVE  updated'[theirs[i].table][theirs[i].pk] = theirs[i].new
  <2>1. CASE i = pos + 1
    BY <1>6, <1>7, <1>9, <1>13, <2>1 DEF AtRow
  <2>2. CASE i \in 1..pos
    <3>1. /\ theirs[i].table \in Tables /\ theirs[i].pk \in Keys
          /\ ~AtRow(e, theirs[i].table, theirs[i].pk)
      BY <1>3, <1>4, <2>2 DEF InputEntry, AtRow
    <3>2. updated[theirs[i].table][theirs[i].pk] = theirs[i].new
      BY <1>5, <1>13, <2>2 DEF TheirsKnown
    <3> QED
      BY <1>9, <3>1, <3>2
  <2> QED
    BY <1>5, <2>1, <2>2
<1> QED
  BY <1>5, <1>10, <1>11, <1>12, <1>13 DEF TheirsKnown

\* Steps that read no entry of theirs.
LEMMA SameTheirs ==
    ASSUME TheirsKnown, UNCHANGED <<input, theirsInfo>>, TheirsRead' = TheirsRead
    PROVE  TheirsKnown'
<1>1. theirs' = theirs /\ touched' = touched /\ deleted' = deleted /\ updated' = updated
  BY DEF theirs, theirsInfo
<1> QED
  BY <1>1 DEF TheirsKnown

-----------------------------------------------------------------------------
(* The mapping *)

\* One more mapping, which an entry of ours explains.
LEMMA OneMoreMapped ==
    ASSUME TypeOK, NEW n \in Nat, NEW i \in 1..n, UNCHANGED <<touched, deleted>>,
           \A t \in Tables : \A k \in DOMAIN mapIds[t] :
              t \in touched /\ \E j \in 1..n : Explains(ours[j], t, k, mapIds[t][k]),
           NEW t \in Tables, t \in touched, NEW k, NEW m,
           mapIds' = WithMapping(t, k, m), Explains(ours[i], t, k, m)
    PROVE  /\ k \in DOMAIN mapIds'[t]
           /\ \A u \in Tables : DOMAIN mapIds[u] \subseteq DOMAIN mapIds'[u]
           /\ \A u \in Tables : \A l \in DOMAIN mapIds'[u] :
                u \in touched /\ \E j \in 1..n : Explains(ours[j], u, l, mapIds'[u][l])
<1>1. \A u \in Tables :
        /\ DOMAIN mapIds'[u] = IF u = t THEN DOMAIN mapIds[u] \cup {k} ELSE DOMAIN mapIds[u]
        /\ \A l \in DOMAIN mapIds'[u] :
             mapIds'[u][l] = IF u = t /\ l = k THEN m ELSE mapIds[u][l]
  <2>1. TypeOK /\ mapIds' = WithMapping(t, k, m)
    OBVIOUS
  <2> QED
    BY <2>1, WithMappingValue
<1>2. ASSUME NEW u \in Tables, NEW l \in DOMAIN mapIds'[u]
      PROVE  u \in touched /\ \E j \in 1..n : Explains(ours[j], u, l, mapIds'[u][l])
  <2>1. CASE u = t /\ l = k
    BY <1>1, <2>1
  <2>2. CASE ~(u = t /\ l = k)
    <3>1. l \in DOMAIN mapIds[u] /\ mapIds'[u][l] = mapIds[u][l]
      BY <1>1, <2>2
    <3> QED
      BY <3>1
  <2> QED
    BY <2>1, <2>2
<1> QED
  BY <1>1, <1>2

\* Scanning one more entry of ours maps its key when theirs inserted it, or deleted
\* it and the entry is no insert.
LEMMA ScanMapped ==
    ASSUME IInv, OursMapped, ScanEntry, phase' # "error"
    PROVE  OursMapped'
<1> DEFINE e == ours[pos + 1]
<1>1. TypeOK /\ pos \in Nat
  BY DEF IInv, TypeOK
<1>2. /\ phase = "scan" /\ pos < Len(ours) /\ pos' = pos + 1
      /\ UNCHANGED <<input, touched, deleted>>
      /\ \/ e.table \notin touched /\ UNCHANGED <<phase, mapping>>
         \/ e.table \in touched /\ (ScanInsert(e) \/ ScanUpdateOrDelete(e))
  BY DEF ScanEntry, theirsInfo
<1>3. /\ e \in InputEntry /\ Len(ours) \in Nat /\ pos + 1 \in 1..Len(ours)
  BY <1>1, <1>2, InputType
<1>4. phase' = "scan"
  BY <1>2 DEF ScanInsert, ScanUpdateOrDelete, Renumber
<1>5. /\ OursScanned = pos /\ OursScanned' = pos + 1 /\ ours' = ours
      /\ 1..(pos + 1) = 1..pos \cup {pos + 1} /\ pos + 1 \in Nat /\ pos + 1 \in 1..(pos + 1)
  BY <1>1, <1>2, <1>4 DEF OursScanned, ours
<1>6. e = ours[pos + 1]
  OBVIOUS
<1> HIDE DEF e
<1>7. e.table \in Tables /\ e.pk \in Keys /\ e.op \in Operations
  BY <1>3 DEF InputEntry
<1>8. AtRow(e, e.table, e.pk)
  BY DEF AtRow
<1>9. \A x, t, k, n : Explains(x, t, k, n)' = Explains(x, t, k, n)
  BY <1>2 DEF Explains, AtRow
<1>10. \A t \in Tables : \A k \in DOMAIN mapIds[t] :
         t \in touched /\ \E j \in 1..(pos + 1) : Explains(ours[j], t, k, mapIds[t][k])
  BY <1>5 DEF OursMapped
<1>11. \A i \in 1..pos :
        ours[i].op # "insert" /\ ours[i].table \in touched /\ ours[i].pk \in deleted[ours[i].table]
            => ours[i].pk \in DOMAIN mapIds[ours[i].table]
  BY <1>5 DEF OursMapped
<1>12. \A i \in 1..pos : ours[i].table \in Tables
  BY <1>1, <1>2, <1>3, InputType DEF InputEntry
<1>13. \A t \in Tables : \A k \in unmapped[t] :
        t \in touched /\ \E i \in 1..(pos + 1) : AtRow(ours[i], t, k) /\ ours[i].op = "insert"
  BY <1>5 DEF OursMapped
\* the mappings
<1>14. /\ \A t \in Tables : DOMAIN mapIds[t] \subseteq DOMAIN mapIds'[t]
       /\ \A t \in Tables : \A k \in DOMAIN mapIds'[t] :
            t \in touched /\ \E j \in 1..(pos + 1) : Explains(ours[j], t, k, mapIds'[t][k])
  <2>1. CASE UNCHANGED mapIds
    BY <1>10, <2>1
  <2>2. ASSUME NEW m, mapIds' = WithMapping(e.table, e.pk, m), e.table \in touched,
               Explains(e, e.table, e.pk, m)
        PROVE  /\ \A t \in Tables : DOMAIN mapIds[t] \subseteq DOMAIN mapIds'[t]
               /\ \A t \in Tables : \A k \in DOMAIN mapIds'[t] :
                    t \in touched /\ \E j \in 1..(pos + 1) : Explains(ours[j], t, k, mapIds'[t][k])
    <3>1. Explains(ours[pos + 1], e.table, e.pk, m)
      BY <1>6, <2>2
    <3> QED
      BY <1>1, <1>2, <1>5, <1>7, <1>10, <2>2, <3>1, OneMoreMapped
  <2>3. CASE e.table \in touched /\ ScanInsert(e) /\ mapIds' # mapIds
    <3>1. e.op = "insert" /\ mapIds' = WithMapping(e.table, e.pk, freeIndex[e.table])
      BY <2>3 DEF ScanInsert, Renumber
    <3>2. freeIndex[e.table] # InvalidFID
      BY <1>1, <1>7 DEF TypeOK, InvalidFID
    <3>3. Explains(e, e.table, e.pk, freeIndex[e.table])
      BY <1>8, <3>1, <3>2 DEF Explains
    <3> QED
      BY <2>2, <2>3, <3>1, <3>3
  <2>4. CASE e.table \in touched /\ ScanUpdateOrDelete(e) /\ mapIds' # mapIds
    <3>1. /\ e.op # "insert" /\ e.pk \in deleted[e.table]
          /\ mapIds' = WithMapping(e.table, e.pk, InvalidFID)
      BY <2>4 DEF ScanUpdateOrDelete
    <3>2. Explains(e, e.table, e.pk, InvalidFID)
      BY <1>8, <3>1 DEF Explains
    <3> QED
      BY <2>2, <2>4, <3>1, <3>2
  <2> QED
    BY <1>2, <2>1, <2>3, <2>4 DEF mapping
<1>15. e.op # "insert" /\ e.table \in touched /\ e.pk \in deleted[e.table]
         => e.pk \in DOMAIN mapIds'[e.table]
  <2> HAVE e.op # "insert" /\ e.table \in touched /\ e.pk \in deleted[e.table]
  <2>1. mapIds' = WithMapping(e.table, e.pk, InvalidFID)
    BY <1>2 DEF ScanInsert, ScanUpdateOrDelete
  <2> QED
    BY <1>1, <1>7, <2>1 DEF TypeOK, WithMapping
<1>16. ASSUME NEW i \in 1..(pos + 1), ours[i].op # "insert", ours[i].table \in touched,
              ours[i].pk \in deleted[ours[i].table]
       PROVE  ours[i].pk \in DOMAIN mapIds'[ours[i].table]
  <2>1. CASE i = pos + 1
    BY <1>6, <1>15, <1>16, <2>1
  <2>2. CASE i \in 1..pos
    BY <1>11, <1>12, <1>14, <1>16, <2>2
  <2> QED
    BY <1>5, <2>1, <2>2
<1>17. ASSUME NEW t \in Tables, NEW k \in unmapped'[t]
       PROVE  t \in touched /\ \E i \in 1..(pos + 1) : AtRow(ours[i], t, k) /\ ours[i].op = "insert"
  <2>1. CASE k \in unmapped[t]
    BY <1>13, <2>1
  <2>2. CASE k \notin unmapped[t]
    <3>1. /\ e.table \in touched /\ e.op = "insert"
          /\ unmapped' = [unmapped EXCEPT ![e.table] = @ \cup {e.pk}]
      BY <1>2, <1>17, <2>2 DEF mapping, ScanInsert, ScanUpdateOrDelete
    <3>2. t = e.table /\ k = e.pk
      BY <1>1, <1>17, <2>2, <3>1 DEF TypeOK
    <3> QED
      BY <1>5, <1>6, <1>8, <3>1, <3>2
  <2> QED
    BY <2>1, <2>2
<1> QED
  BY <1>2, <1>5, <1>9, <1>14, <1>16, <1>17 DEF OursMapped

\* The keys the second loop maps are of inserts the scan met.
LEMMA FinalizeMapped ==
    ASSUME IInv, OursMapped, NEW t \in Tables, NEW k \in Keys, FinalizeKey(t, k), phase' # "error"
    PROVE  OursMapped'
<1>1. TypeOK /\ Len(ours) \in Nat
  BY InputType DEF IInv
<1>2. /\ phase = "finalize" /\ phase' = "finalize" /\ k \in unmapped[t]
      /\ unmapped' = [unmapped EXCEPT ![t] = @ \ {k}]
      /\ \/ UNCHANGED mapIds
         \/ mapIds' = WithMapping(t, k, freeIndex[t])
      /\ UNCHANGED <<input, touched, deleted>>
  BY DEF FinalizeKey, Renumber, theirsInfo
<1>3. OursScanned = Len(ours) /\ OursScanned' = Len(ours) /\ ours' = ours
  BY <1>2 DEF OursScanned, ours
<1>4. \A u \in Tables : unmapped'[u] \subseteq unmapped[u]
  BY <1>1, <1>2 DEF TypeOK
<1>5. \A x, u, l, n : Explains(x, u, l, n)' = Explains(x, u, l, n)
  BY <1>2 DEF Explains, AtRow
<1>6. \A u \in Tables : \A l \in DOMAIN mapIds[u] :
        u \in touched /\ \E j \in 1..Len(ours) : Explains(ours[j], u, l, mapIds[u][l])
  BY <1>3 DEF OursMapped
<1>7. \A i \in 1..Len(ours) : ours[i].table \in Tables
  BY <1>1, InputType DEF InputEntry
<1>8. /\ \A u \in Tables : DOMAIN mapIds[u] \subseteq DOMAIN mapIds'[u]
      /\ \A u \in Tables : \A l \in DOMAIN mapIds'[u] :
            u \in touched /\ \E j \in 1..Len(ours) : Explains(ours[j], u, l, mapIds'[u][l])
  <2>1. CASE UNCHANGED mapIds
    BY <1>6, <2>1
  <2>2. CASE mapIds' = WithMapping(t, k, freeIndex[t])
    <3>1. PICK i \in 1..Len(ours) : AtRow(ours[i], t, k) /\ ours[i].op = "insert"
      BY <1>2, <1>3 DEF OursMapped
    <3>2. freeIndex[t] # InvalidFID
      BY <1>1 DEF TypeOK, InvalidFID
    <3>3. Explains(ours[i], t, k, freeIndex[t])
      BY <3>1, <3>2 DEF Explains
    <3>4. t \in touched
      BY <1>2 DEF OursMapped
    <3> QED
      BY <1>1, <1>2, <1>6, <2>2, <3>3, <3>4, OneMoreMapped
  <2> QED
    BY <1>2, <2>1, <2>2
<1>9. ASSUME NEW i \in 1..Len(ours), ours[i].op # "insert", ours[i].table \in touched,
             ours[i].pk \in deleted[ours[i].table]
      PROVE  ours[i].pk \in DOMAIN mapIds'[ours[i].table]
  BY <1>3, <1>7, <1>8, <1>9 DEF OursMapped
<1>10. ASSUME NEW u \in Tables, NEW l \in unmapped'[u]
       PROVE  u \in touched /\ \E i \in 1..Len(ours) : AtRow(ours[i], u, l) /\ ours[i].op = "insert"
  BY <1>3, <1>4, <1>10 DEF OursMapped
<1> QED
  BY <1>2, <1>3, <1>5, <1>8, <1>9, <1>10 DEF OursMapped

\* Steps that leave the mapping alone.
LEMMA SameMapped ==
    ASSUME OursMapped, UNCHANGED <<input, touched, deleted, mapIds, unmapped>>,
           OursScanned' = OursScanned
    PROVE  OursMapped'
<1>1. ours' = ours
  BY DEF ours
<1>2. \A x, u, l, n : Explains(x, u, l, n)' = Explains(x, u, l, n)
  BY DEF Explains, AtRow
<1> QED
  BY <1>1, <1>2 DEF OursMapped

-----------------------------------------------------------------------------
(* What is kept *)

\* Once the mapping is complete: an insert has a key, an update or a delete keeps
\* its own unless theirs deleted the row.
LEMMA NewKey ==
    ASSUME IInv, OneEntryPerRow(ours), OursMapped, OursScanned = Len(ours), NEW i \in 1..Len(ours)
    PROVE  LET e == ours[i] IN
           /\ e.op = "insert" => NewPK(e) # InvalidFID
           /\ e.op # "insert" =>
                NewPK(e) = IF e.table \in touched /\ e.pk \in deleted[e.table]
                           THEN InvalidFID ELSE e.pk
           /\ e.table \notin touched => NewPK(e) = e.pk
<1> DEFINE e == ours[i]
<1>1. TypeOK
  BY DEF IInv
<1>2. e \in InputEntry /\ DOMAIN ours = 1..Len(ours)
  BY <1>1, InputType
<1>3. e.table \in Tables /\ e.pk \in Keys
  BY <1>2 DEF InputEntry
<1>4. e.pk # InvalidFID
  BY <1>3, KeysAssumption DEF InvalidFID
<1>5. CASE e.pk \in DOMAIN mapIds[e.table]
  <2>1. NewPK(e) = mapIds[e.table][e.pk]
    BY <1>5 DEF NewPK
  <2>2. e.table \in touched
    BY <1>3, <1>5 DEF OursMapped
  <2>3. PICK j \in 1..Len(ours) : Explains(ours[j], e.table, e.pk, mapIds[e.table][e.pk])
    BY <1>3, <1>5 DEF OursMapped
  <2>4. j = i
    BY <1>2, <2>3 DEF OneEntryPerRow, Explains, AtRow
  <2>5. IF e.op = "insert" THEN NewPK(e) # InvalidFID
        ELSE e.pk \in deleted[e.table] /\ NewPK(e) = InvalidFID
    BY <2>1, <2>3, <2>4 DEF Explains
  <2> QED
    BY <2>2, <2>5
<1>6. CASE e.pk \notin DOMAIN mapIds[e.table]
  <2>1. NewPK(e) = e.pk
    BY <1>6 DEF NewPK
  <2>2. e.op # "insert" => ~(e.table \in touched /\ e.pk \in deleted[e.table])
    BY <1>6 DEF OursMapped
  <2> QED
    BY <1>4, <2>1, <2>2
<1> QED
  BY <1>5, <1>6

\* What an entry is rebased to keeps its table and its operation; an insert keeps
\* its row, the others their key.
LEMMA RebasedFields ==
    ASSUME IInv, OneEntryPerRow(ours), OursMapped, OursScanned = Len(ours), NEW i \in 1..Len(ours)
    PROVE  LET e == ours[i] IN
           /\ Rebased(e) \in Entry
           /\ Rebased(e).table = e.table /\ Rebased(e).op = e.op
           /\ Rebased(e).pk = NewPK(e)
           /\ e.op = "insert" => Rebased(e).new = e.new
           /\ ~Dropped(e) /\ e.op # "insert" => NewPK(e) = e.pk
<1> DEFINE e == ours[i]
<1>1. TypeOK
  BY DEF IInv
<1>2. e \in InputEntry
  BY <1>1, InputType
<1>3. /\ e.table \notin touched => NewPK(e) = e.pk
      /\ e.op # "insert" => NewPK(e) = InvalidFID \/ NewPK(e) = e.pk
      /\ e.op # "insert" /\ e.table \notin touched => NewPK(e) = e.pk
  BY NewKey
<1> HIDE DEF e
<1>4. /\ e \in Entry /\ Moved(e) \in Entry
      /\ RebasedDelete(e) \in Entry /\ RebasedUpdate(e) \in Entry
  BY <1>1, <1>2, RebasedType DEF Moved
<1>5. /\ Moved(e).table = e.table /\ Moved(e).op = e.op /\ Moved(e).pk = NewPK(e)
      /\ Moved(e).new = e.new
  BY <1>2 DEF Moved, InputEntry
<1>6. /\ RebasedDelete(e).table = e.table /\ RebasedDelete(e).op = e.op
      /\ RebasedDelete(e).pk = NewPK(e)
  BY <1>2 DEF RebasedDelete, InputEntry
<1>7. /\ RebasedUpdate(e).table = e.table /\ RebasedUpdate(e).op = e.op
      /\ RebasedUpdate(e).pk = NewPK(e)
  BY <1>2 DEF RebasedUpdate, InputEntry
<1>8. /\ Rebased(e) \in Entry
      /\ Rebased(e).table = e.table /\ Rebased(e).op = e.op
      /\ Rebased(e).pk = NewPK(e)
      /\ e.op = "insert" => Rebased(e).new = e.new
  BY <1>3, <1>4, <1>5, <1>6, <1>7 DEF Rebased
<1>9. ~Dropped(e) /\ e.op # "insert" => NewPK(e) = e.pk
  BY <1>3 DEF Dropped
<1> QED
  BY <1>8, <1>9 DEF e

\* One step of prepareNewChangeset keeps what the entry is rebased to, or drops it.
LEMMA KeptOrDropped ==
    ASSUME IInv, PrepareEntry
    PROVE  \/ Dropped(ours[pos + 1]) /\ UNCHANGED changes
           \/ ~Dropped(ours[pos + 1]) /\ Keep(Rebased(ours[pos + 1]))
<1> DEFINE e == ours[pos + 1]
<1>1. TypeOK
  BY DEF IInv
<1>2. pos + 1 \in 1..Len(ours)
  BY <1>1, InputType DEF PrepareEntry, TypeOK
<1>3. e.op \in {"insert", "update", "delete"}
  BY <1>1, <1>2, InputType DEF InputEntry, Operations
<1>4. \/ e.table \notin touched /\ Keep(e)
      \/ e.table \in touched /\ e.op = "insert" /\ HandleInsert(e)
      \/ e.table \in touched /\ e.op = "delete" /\ HandleDelete(e)
      \/ e.table \in touched /\ e.op = "update" /\ HandleUpdate(e)
  BY DEF PrepareEntry
<1> HIDE DEF e
<1>5. CASE e.table \notin touched /\ Keep(e)
  BY <1>5 DEF Dropped, Rebased, e
<1>6. CASE e.table \in touched /\ e.op = "insert" /\ HandleInsert(e)
  BY <1>6 DEF Dropped, Rebased, HandleInsert, Moved, e
<1>7. CASE e.table \in touched /\ e.op = "delete" /\ HandleDelete(e)
  BY <1>7 DEF Dropped, Rebased, HandleDelete, e
<1>8. CASE e.table \in touched /\ e.op = "update" /\ HandleUpdate(e)
  BY <1>8 DEF Dropped, Rebased, HandleUpdate, e
<1> QED
  BY <1>4, <1>5, <1>6, <1>7, <1>8

\* prepareNewChangeset keeps what the entry is rebased to, once.
LEMMA PrepareKept ==
    ASSUME IInv, OneEntryPerRow(ours), OursMapped, OursKept, PrepareEntry
    PROVE  OursKept'
<1> DEFINE e == ours[pos + 1]
           x == Rebased(e)
<1>1. TypeOK /\ pos \in Nat
  BY DEF IInv, TypeOK
<1>2. /\ phase = "prepare" /\ phase' = "prepare" /\ pos < Len(ours) /\ pos' = pos + 1
      /\ UNCHANGED <<input, touched, updated, mapIds>>
  BY DEF PrepareEntry, theirsInfo, mapping
<1>3. /\ Len(ours) \in Nat /\ pos + 1 \in 1..Len(ours) /\ DOMAIN ours = 1..Len(ours)
      /\ 1..(pos + 1) = 1..pos \cup {pos + 1} /\ pos + 1 \in 1..(pos + 1)
  BY <1>1, <1>2, InputType
<1>4. /\ OursPrepared = pos /\ OursPrepared' = pos + 1 /\ ours' = ours
      /\ OursScanned = Len(ours)
  BY <1>2 DEF OursPrepared, OursScanned, ours
<1>5. \A y : Rebased(y)' = Rebased(y) /\ Dropped(y)' = Dropped(y)
  BY <1>2 DEF Rebased, Dropped, Moved, RebasedDelete, RebasedUpdate, NewPK, Patched
<1>6. \A i \in 1..Len(ours) :
        /\ Rebased(ours[i]) \in Entry
        /\ Rebased(ours[i]).table = ours[i].table /\ Rebased(ours[i]).op = ours[i].op
        /\ ~Dropped(ours[i]) /\ ours[i].op # "insert" => Rebased(ours[i]).pk = ours[i].pk
  BY <1>4, RebasedFields
<1>7. /\ x \in Entry /\ x.table = e.table /\ e.table \in Tables
      /\ x.op = e.op
      /\ ~Dropped(e) /\ e.op # "insert" => x.pk = e.pk
  BY <1>3, <1>6 DEF Entry
<1>8. \/ Dropped(e) /\ UNCHANGED changes
      \/ ~Dropped(e) /\ Keep(x)
  BY KeptOrDropped
<1>9. \A t \in Tables : \A m \in 1..Len(changes[t]) : \E i \in 1..pos :
        ours[i].table = t /\ ~Dropped(ours[i]) /\ changes[t][m] = Rebased(ours[i])
  BY <1>4 DEF OursKept, KeptOfOurs, MadeOf
<1>10. \A i \in 1..pos : ~Dropped(ours[i]) =>
        \E m \in 1..Len(changes[ours[i].table]) : changes[ours[i].table][m] = Rebased(ours[i])
  BY <1>4 DEF OursKept, OursNotLost
<1>11. e = ours[pos + 1]
  OBVIOUS
<1>15. \A y, t, i : MadeOf(y, t, i)' = MadeOf(y, t, i)
  BY <1>4, <1>5 DEF MadeOf
<1>14. ASSUME NEW t \in Tables, NEW l \in 1..Len(changes[t]), NEW m \in 1..Len(changes[t]), l # m
       PROVE  \E i, j \in 1..(pos + 1) : i # j /\ MadeOf(changes[t][l], t, i) /\ MadeOf(changes[t][m], t, j)
  <2>1. \E i, j \in 1..pos : i # j /\ MadeOf(changes[t][l], t, i) /\ MadeOf(changes[t][m], t, j)
    BY <1>4, <1>14 DEF OursKept, KeptApart
  <2> QED
    BY <1>3, <2>1
<1>12. CASE Dropped(e) /\ UNCHANGED changes
  <2>1. \A t \in Tables : \A m \in 1..Len(changes'[t]) : \E i \in 1..(pos + 1) :
          ours[i].table = t /\ ~Dropped(ours[i]) /\ changes'[t][m] = Rebased(ours[i])
    BY <1>3, <1>9, <1>12
  <2>2. \A i \in 1..(pos + 1) : ~Dropped(ours[i]) =>
          \E m \in 1..Len(changes'[ours[i].table]) : changes'[ours[i].table][m] = Rebased(ours[i])
    BY <1>3, <1>10, <1>12
  <2> QED
    <3>1. KeptOfOurs'
      BY <1>4, <1>5, <2>1 DEF KeptOfOurs, MadeOf
    <3>2. OursNotLost'
      BY <1>4, <1>5, <2>2 DEF OursNotLost
    <3>3. KeptApart'
      BY <1>4, <1>12, <1>14, <1>15 DEF KeptApart
    <3> QED
      BY <3>1, <3>2, <3>3 DEF OursKept
<1> HIDE DEF e, x
<1>13. CASE ~Dropped(e) /\ Keep(x)
  <2>1. /\ \A t \in Tables : changes[t] \in Seq(Entry)
        /\ \A t \in Tables : changes'[t] = IF t = e.table THEN Append(changes[t], x) ELSE changes[t]
    BY <1>1, <1>7, <1>13 DEF Keep, TypeOK
  <2>2. \A t \in Tables :
          /\ Len(changes[t]) \in Nat
          /\ \A m \in 1..Len(changes[t]) : changes'[t][m] = changes[t][m]
          /\ t # e.table => Len(changes'[t]) = Len(changes[t])
          /\ t = e.table => /\ Len(changes'[t]) = Len(changes[t]) + 1
                            /\ changes'[t][Len(changes[t]) + 1] = x
    <3> TAKE t \in Tables
    <3>1. changes[t] \in Seq(Entry) /\ x \in Entry
      BY <1>7, <2>1
    <3>2. CASE t # e.table
      <4>1. changes'[t] = changes[t]
        BY <2>1, <3>2
      <4> QED
        BY <3>1, <3>2, <4>1
    <3>3. CASE t = e.table
      <4>1. changes'[t] = Append(changes[t], x)
        BY <2>1, <3>3
      <4>2. ASSUME NEW s \in Seq(Entry)
            PROVE  /\ Len(s) \in Nat /\ Len(Append(s, x)) = Len(s) + 1
                   /\ \A m \in 1..Len(s) : Append(s, x)[m] = s[m]
                   /\ Append(s, x)[Len(s) + 1] = x
        BY <3>1
      <4> QED
        BY <3>1, <3>3, <4>1, <4>2
    <3> QED
      BY <3>2, <3>3
  <2>3. ASSUME NEW t \in Tables, NEW m \in 1..Len(changes'[t])
        PROVE  \/ m \in 1..Len(changes[t]) /\ changes'[t][m] = changes[t][m]
               \/ t = e.table /\ m = Len(changes[t]) + 1 /\ changes'[t][m] = x
    <3>1. CASE t # e.table
      BY <2>2, <3>1
    <3>2. CASE t = e.table
      <4>1. Len(changes'[t]) = Len(changes[t]) + 1 /\ Len(changes[t]) \in Nat
        BY <2>2, <3>2
      <4>2. m \in 1..Len(changes[t]) \/ m = Len(changes[t]) + 1
        BY <4>1
      <4> QED
        BY <2>2, <3>2, <4>2
    <3> QED
      BY <3>1, <3>2
  <2>4. \A t \in Tables : 1..Len(changes[t]) \subseteq 1..Len(changes'[t])
    <3> TAKE t \in Tables
    <3>1. Len(changes[t]) \in Nat /\ (Len(changes'[t]) = Len(changes[t]) \/ Len(changes'[t]) = Len(changes[t]) + 1)
      BY <2>2
    <3> QED
      BY <3>1
  <2>5. \A i \in 1..pos : i \in 1..Len(ours) /\ ours[i].table \in Tables
    <3>1. \A i \in 1..pos : i \in 1..Len(ours)
      BY <1>1, <1>2, <1>3
    <3> QED
      BY <1>6, <3>1 DEF Entry
  <2>6. ASSUME NEW t \in Tables, NEW m \in 1..Len(changes'[t])
        PROVE  \E i \in 1..(pos + 1) :
                 ours[i].table = t /\ ~Dropped(ours[i]) /\ changes'[t][m] = Rebased(ours[i])
    <3>1. CASE m \in 1..Len(changes[t]) /\ changes'[t][m] = changes[t][m]
      <4>1. PICK i \in 1..pos : /\ ours[i].table = t /\ ~Dropped(ours[i])
                                /\ changes[t][m] = Rebased(ours[i])
        BY <1>9, <3>1
      <4>2. i \in 1..(pos + 1)
        BY <1>3
      <4> QED
        BY <3>1, <4>1, <4>2
    <3>2. CASE t = e.table /\ m = Len(changes[t]) + 1 /\ changes'[t][m] = x
      BY <1>3, <1>11, <1>13, <3>2 DEF x
    <3> QED
      BY <2>3, <3>1, <3>2
  <2>7. ASSUME NEW i \in 1..(pos + 1), ~Dropped(ours[i])
        PROVE  \E m \in 1..Len(changes'[ours[i].table]) : changes'[ours[i].table][m] = Rebased(ours[i])
    <3>1. CASE i = pos + 1
      <4>1. Len(changes[e.table]) + 1 \in 1..Len(changes'[e.table])
        BY <1>7, <2>2
      <4>2. changes'[e.table][Len(changes[e.table]) + 1] = x
        BY <1>7, <2>2
      <4> QED
        BY <1>11, <3>1, <4>1, <4>2 DEF x
    <3>2. CASE i \in 1..pos
      <4>1. PICK m \in 1..Len(changes[ours[i].table]) : changes[ours[i].table][m] = Rebased(ours[i])
        BY <1>10, <2>7, <3>2
      <4> QED
        BY <2>2, <2>4, <2>5, <3>2, <4>1
    <3> QED
      BY <1>3, <3>1, <3>2
  \* an entry kept earlier is another one of ours
  <2>8. ASSUME NEW t \in Tables, NEW l \in 1..Len(changes'[t]), NEW m \in 1..Len(changes'[t]), l # m
        PROVE  \E i, j \in 1..(pos + 1) :
                 i # j /\ MadeOf(changes'[t][l], t, i) /\ MadeOf(changes'[t][m], t, j)
    <3>1. CASE l \in 1..Len(changes[t]) /\ m \in 1..Len(changes[t])
      <4>1. changes'[t][l] = changes[t][l] /\ changes'[t][m] = changes[t][m]
        BY <2>2, <3>1
      <4> QED
        BY <1>14, <2>8, <3>1, <4>1
    <3>2. ASSUME NEW n \in 1..Len(changes[t]), NEW new \in 1..Len(changes'[t]),
                 new \notin 1..Len(changes[t])
          PROVE  \E i \in 1..pos : /\ i # pos + 1
                                   /\ MadeOf(changes'[t][n], t, i) /\ MadeOf(changes'[t][new], t, pos + 1)
      <4>1. changes'[t][n] = changes[t][n]
        BY <2>2, <3>2
      <4>2. PICK i \in 1..pos : MadeOf(changes[t][n], t, i)
        BY <1>9, <3>2 DEF MadeOf
      <4>3. i # pos + 1
        BY <1>1
      <4>4. t = e.table /\ changes'[t][new] = x
        BY <2>3, <3>2
      <4>5. MadeOf(changes'[t][new], t, pos + 1)
        BY <1>11, <1>13, <4>4 DEF MadeOf, x
      <4> QED
        BY <4>1, <4>2, <4>3, <4>5
    <3>3. CASE l \notin 1..Len(changes[t]) /\ m \in 1..Len(changes[t])
      BY <1>3, <3>2, <3>3
    <3>4. CASE l \in 1..Len(changes[t]) /\ m \notin 1..Len(changes[t])
      BY <1>3, <3>2, <3>4
    <3>5. CASE l \notin 1..Len(changes[t]) /\ m \notin 1..Len(changes[t])
      BY <2>3, <2>8, <3>5
    <3> QED
      BY <3>1, <3>3, <3>4, <3>5
  <2> QED
    <3>1. KeptOfOurs'
      BY <1>4, <1>5, <2>6 DEF KeptOfOurs, MadeOf
    <3>2. OursNotLost'
      BY <1>4, <1>5, <2>7 DEF OursNotLost
    <3>3. KeptApart'
      BY <1>4, <1>15, <2>8 DEF KeptApart
    <3> QED
      BY <3>1, <3>2, <3>3 DEF OursKept
<1> QED
  BY <1>8, <1>12, <1>13

\* It names the table of the entry, if it is a new one.
LEMMA PrepareNamed ==
    ASSUME IInv, TablesNamed, PrepareEntry
    PROVE  TablesNamed'
<1> DEFINE t == ours[pos + 1].table
           s == tableOrder
<1>1. /\ pos \in Nat /\ s \in Seq(Tables) /\ Len(s) \in Nat /\ TypeOK
      /\ 1..(pos + 1) = 1..pos \cup {pos + 1}
  BY DEF IInv, TypeOK
<1>2. /\ phase = "prepare" /\ phase' = "prepare" /\ pos < Len(ours) /\ pos' = pos + 1
      /\ s' = IF Contains(s, t) THEN s ELSE Append(s, t)
      /\ input' = input
  BY DEF PrepareEntry
<1>3. t \in Tables
  <2>1. pos + 1 \in 1..Len(ours)
    BY <1>1, <1>2, InputType
  <2> QED
    BY <1>1, <2>1, InputType DEF InputEntry
<1>4. OursPrepared = pos /\ OursPrepared' = pos + 1 /\ ours' = ours
  BY <1>2 DEF OursPrepared, ours
<1>5. /\ \A i, j \in 1..Len(s) : s[i] = s[j] => i = j
      /\ \A i \in 1..pos : \E j \in 1..Len(s) : s[j] = ours[i].table
  BY <1>4 DEF TablesNamed
<1>6. t = ours[pos + 1].table
  OBVIOUS
<1> HIDE DEF t, s
<1>7. CASE Contains(s, t)
  <2>1. s' = s /\ \E j \in 1..Len(s) : s[j] = t
    BY <1>2, <1>7 DEF Contains
  <2>2. \A i \in 1..(pos + 1) : \E j \in 1..Len(s) : s[j] = ours[i].table
    BY <1>1, <1>5, <1>6, <2>1
  <2> QED
    BY <1>4, <1>5, <2>1, <2>2 DEF TablesNamed, s
<1>8. CASE ~Contains(s, t)
  <2>1. s' = Append(s, t) /\ \A j \in 1..Len(s) : s[j] # t
    BY <1>2, <1>8 DEF Contains
  <2>2. /\ Len(s') = Len(s) + 1 /\ s'[Len(s) + 1] = t
        /\ \A j \in 1..Len(s) : s'[j] = s[j]
        /\ 1..Len(s') = 1..Len(s) \cup {Len(s) + 1}
    BY <1>1, <1>3, <2>1
  <2>3. \A i \in 1..(pos + 1) : \E j \in 1..Len(s') : s'[j] = ours[i].table
    <3> TAKE i \in 1..(pos + 1)
    <3>1. CASE i = pos + 1
      BY <1>6, <2>2, <3>1
    <3>2. CASE i \in 1..pos
      <4>1. PICK j \in 1..Len(s) : s[j] = ours[i].table
        BY <1>5, <3>2
      <4> QED
        BY <2>2, <4>1
    <3> QED
      BY <1>1, <3>1, <3>2
  <2>4. \A i, j \in 1..Len(s') : s'[i] = s'[j] => i = j
    BY <1>5, <2>1, <2>2
  <2> QED
    BY <1>4, <2>3, <2>4 DEF TablesNamed, s
<1> QED
  BY <1>7, <1>8

\* It reports the conflict of an update, if there is one.
LEMMA PrepareConflicts ==
    ASSUME IInv, ConflictsKnown, PrepareEntry
    PROVE  ConflictsKnown'
<1> DEFINE e == ours[pos + 1]
<1>1. TypeOK /\ pos \in Nat /\ 1..(pos + 1) = 1..pos \cup {pos + 1}
  BY DEF IInv, TypeOK
<1>2. /\ phase = "prepare" /\ phase' = "prepare" /\ pos < Len(ours) /\ pos' = pos + 1
      /\ UNCHANGED <<input, touched, updated, mapIds>>
      /\ \/ e.table \notin touched /\ UNCHANGED conflicts
         \/ e.table \in touched /\ e.op = "insert" /\ HandleInsert(e)
         \/ e.table \in touched /\ e.op = "delete" /\ HandleDelete(e)
         \/ e.table \in touched /\ e.op = "update" /\ HandleUpdate(e)
  BY DEF PrepareEntry, theirsInfo, mapping
<1>3. OursPrepared = pos /\ OursPrepared' = pos + 1 /\ ours' = ours
  BY <1>2 DEF OursPrepared, ours
<1>4. \A y : Reports(y)' = Reports(y) /\ ConflictOf(y)' = ConflictOf(y)
  BY <1>2 DEF Reports, ConflictOf, ItemsOf, ConflictItems, ContestedCols, NewPK, Patched
<1>5. conflicts = {ConflictOf(ours[i]) : i \in {j \in 1..pos : Reports(ours[j])}}
  BY <1>3 DEF ConflictsKnown
<1>6. e = ours[pos + 1]
  OBVIOUS
<1> HIDE DEF e
<1>7. conflicts' = IF Reports(e) THEN conflicts \cup {ConflictOf(e)} ELSE conflicts
  <2>1. CASE e.table \notin touched /\ UNCHANGED conflicts
    BY <2>1 DEF Reports
  <2>2. CASE e.op = "insert" /\ HandleInsert(e)
    BY <2>2 DEF Reports, HandleInsert
  <2>3. CASE e.op = "delete" /\ HandleDelete(e)
    BY <2>3 DEF Reports, HandleDelete
  <2>4. CASE e.table \in touched /\ e.op = "update" /\ HandleUpdate(e)
    <3>1. AddConflict(e, ItemsOf(e))
      BY <2>4 DEF HandleUpdate, ItemsOf
    <3> QED
      BY <2>4, <3>1 DEF AddConflict, Reports, ConflictOf
  <2> QED
    BY <1>2, <2>1, <2>2, <2>3, <2>4
<1>8. conflicts' = {ConflictOf(ours[i]) : i \in {j \in 1..(pos + 1) : Reports(ours[j])}}
  BY <1>1, <1>5, <1>6, <1>7
<1> QED
  BY <1>3, <1>4, <1>8 DEF ConflictsKnown

\* Nothing has been prepared yet, or nothing has changed since.
LEMMA SameKept ==
    ASSUME OursKept, TablesNamed, ConflictsKnown, UNCHANGED <<input, changes, tableOrder, conflicts>>,
           OursPrepared' = OursPrepared,
           OursPrepared = 0 \/ UNCHANGED <<touched, updated, mapIds>>
    PROVE  OursKept' /\ TablesNamed' /\ ConflictsKnown'
<1>1. ours' = ours
  BY DEF ours
<1>2. TablesNamed'
  BY <1>1 DEF TablesNamed
<1>3. CASE OursPrepared = 0
  <2>1. 1..OursPrepared = {} /\ 1..OursPrepared' = {}
    BY <1>3
  <2>2. OursKept'
    BY <2>1 DEF OursKept, KeptOfOurs, OursNotLost, KeptApart
  <2>3. conflicts = {} /\ conflicts' = {}
    BY <2>1 DEF ConflictsKnown
  <2>4. ConflictsKnown'
    BY <2>1, <2>3 DEF ConflictsKnown
  <2> QED
    BY <1>2, <2>2, <2>4
<1>4. CASE UNCHANGED <<touched, updated, mapIds>>
  <2>1. \A y : /\ Rebased(y)' = Rebased(y) /\ Dropped(y)' = Dropped(y)
               /\ Reports(y)' = Reports(y) /\ ConflictOf(y)' = ConflictOf(y)
    BY <1>4 DEF Rebased, Dropped, Moved, RebasedDelete, RebasedUpdate, NewPK, Patched,
                Reports, ConflictOf, ItemsOf, ConflictItems, ContestedCols
  <2>4. \A y, t, i : MadeOf(y, t, i)' = MadeOf(y, t, i)
    BY <1>1, <2>1 DEF MadeOf
  <2>5. KeptOfOurs'
    BY <2>4 DEF OursKept, KeptOfOurs
  <2>6. OursNotLost'
    BY <1>1, <2>1 DEF OursKept, OursNotLost
  <2>7. KeptApart'
    BY <2>4 DEF OursKept, KeptApart
  <2>2. OursKept'
    BY <2>5, <2>6, <2>7 DEF OursKept
  <2>3. ConflictsKnown'
    BY <1>1, <2>1 DEF ConflictsKnown
  <2> QED
    BY <1>2, <2>2, <2>3
<1> QED
  BY <1>3, <1>4

-----------------------------------------------------------------------------
(* The output *)

\* The entries kept for a table are of that table.
LEMMA KeptTable ==
    ASSUME IInv, OneEntryPerRow(ours), OursMapped, OursKept, OursScanned = Len(ours),
           OursPrepared = Len(ours), NEW t \in Tables, NEW m \in 1..Len(changes[t])
    PROVE  changes[t][m].table = t
<1>1. PICK i \in 1..Len(ours) : ours[i].table = t /\ changes[t][m] = Rebased(ours[i])
  BY DEF OursKept, KeptOfOurs, MadeOf
<1>2. Rebased(ours[i]).table = ours[i].table
  BY RebasedFields
<1> QED
  BY <1>1, <1>2

\* Writing one more table adds what was kept for it to the output.
LEMMA WriteOutput ==
    ASSUME IInv, OneEntryPerRow(ours), OursMapped, OursKept, TablesNamed, OutputKept, WriteTable
    PROVE  OutputKept'
<1> DEFINE t == tableOrder[pos + 1]
           s == changes[t]
           N == Len(output)
<1>1. /\ TypeOK /\ pos \in Nat /\ tableOrder \in Seq(Tables) /\ Len(tableOrder) \in Nat
      /\ output \in Seq(Entry) /\ \A u \in Tables : changes[u] \in Seq(Entry)
  BY DEF IInv, TypeOK
<1>2. /\ phase = "write" /\ phase' = "write" /\ pos < Len(tableOrder) /\ pos' = pos + 1
      /\ output' = output \o s /\ UNCHANGED <<changes, tableOrder>>
  BY DEF WriteTable
<1>3. /\ TablesWritten = pos /\ TablesWritten' = pos + 1
      /\ 1..(pos + 1) = 1..pos \cup {pos + 1} /\ pos + 1 \in 1..Len(tableOrder)
      /\ \A q \in 1..pos : q \in 1..Len(tableOrder) /\ q # pos + 1
  BY <1>1, <1>2 DEF TablesWritten
<1>4. OursScanned = Len(ours) /\ OursPrepared = Len(ours)
  BY <1>2 DEF OursScanned, OursPrepared
<1>5. \A u \in Tables : \A m \in 1..Len(changes[u]) : changes[u][m].table = u
  BY <1>4, KeptTable
<1>6. t \in Tables /\ s \in Seq(Entry) /\ \A q \in 1..pos : tableOrder[q] \in Tables /\ tableOrder[q] # t
  BY <1>1, <1>3 DEF TablesNamed
<1>7. t = tableOrder[pos + 1] /\ s = changes[t]
  OBVIOUS
<1>8. /\ \A l \in 1..N : \E q \in 1..pos : \E m \in 1..Len(changes[tableOrder[q]]) :
            output[l] = changes[tableOrder[q]][m]
      /\ \A q \in 1..pos : \A m \in 1..Len(changes[tableOrder[q]]) :
            \E l \in 1..N : output[l] = changes[tableOrder[q]][m]
      /\ \A l, r \in 1..N : l # r /\ output[l].table = output[r].table
            => TwoOfTable(output[l], output[r], output[l].table)
  BY <1>3 DEF OutputKept, OutputFromKept, KeptInOutput, KeptOnce
<1> HIDE DEF t, s, N
<1>9. /\ Len(output') = N + Len(s) /\ N \in Nat /\ Len(s) \in Nat
      /\ \A l \in 1..N : l \in 1..Len(output') /\ output'[l] = output[l]
      /\ \A l \in 1..Len(s) : N + l \in 1..Len(output') /\ output'[N + l] = s[l]
      /\ \A l \in 1..Len(output') : l \in 1..N \/ l - N \in 1..Len(s)
  BY <1>1, <1>2, <1>6, Joined DEF N
<1>10. \A l \in 1..Len(output') :
         \/ l \in 1..N /\ output'[l] = output[l]
         \/ l - N \in 1..Len(s) /\ output'[l] = s[l - N]
  <2> TAKE l \in 1..Len(output')
  <2>1. CASE l \in 1..N
    BY <1>9, <2>1
  <2>2. CASE l - N \in 1..Len(s)
    <3>1. N + (l - N) = l
      BY <1>9
    <3> QED
      BY <1>9, <2>2, <3>1
  <2> QED
    BY <1>9, <2>1, <2>2
<1>11. ASSUME NEW l \in 1..Len(output')
       PROVE  \E q \in 1..(pos + 1) : \E m \in 1..Len(changes[tableOrder[q]]) :
                output'[l] = changes[tableOrder[q]][m]
  <2>1. CASE l \in 1..N /\ output'[l] = output[l]
    <3>1. PICK q \in 1..pos :
            \E m \in 1..Len(changes[tableOrder[q]]) : output[l] = changes[tableOrder[q]][m]
      BY <1>8, <2>1
    <3>2. q \in 1..(pos + 1)
      BY <1>3
    <3>3. \E m \in 1..Len(changes[tableOrder[q]]) : output'[l] = changes[tableOrder[q]][m]
      BY <2>1, <3>1
    <3> QED
      BY <3>2, <3>3
  <2>2. CASE l - N \in 1..Len(s) /\ output'[l] = s[l - N]
    <3>1. /\ pos + 1 \in 1..(pos + 1) /\ l - N \in 1..Len(changes[tableOrder[pos + 1]])
          /\ output'[l] = changes[tableOrder[pos + 1]][l - N]
      BY <1>3, <1>7, <2>2
    <3> QED
      BY <3>1, Zenon
  <2> QED
    BY <1>10, <2>1, <2>2
<1>12. ASSUME NEW q \in 1..(pos + 1), NEW m \in 1..Len(changes[tableOrder[q]])
       PROVE  \E l \in 1..Len(output') : output'[l] = changes[tableOrder[q]][m]
  <2>1. CASE q \in 1..pos
    BY <1>8, <1>9, <2>1
  <2>2. CASE q = pos + 1
    BY <1>7, <1>9, <2>2
  <2> QED
    BY <1>3, <2>1, <2>2
<1>13. \A l \in 1..N : output[l].table # t
  <2> TAKE l \in 1..N
  <2>1. PICK q \in 1..pos : \E m \in 1..Len(changes[tableOrder[q]]) :
            output[l] = changes[tableOrder[q]][m]
    BY <1>8
  <2> QED
    BY <1>5, <1>6, <2>1
<1>14. \A m \in 1..Len(s) : s[m].table = t
  BY <1>5, <1>6, <1>7
<1>15. ASSUME NEW l \in 1..Len(output'), NEW r \in 1..Len(output'), l # r,
              output'[l].table = output'[r].table
       PROVE  TwoOfTable(output'[l], output'[r], output'[l].table)
  <2>1. CASE l \in 1..N /\ r \in 1..N /\ output'[l] = output[l] /\ output'[r] = output[r]
    BY <1>8, <1>15, <2>1
  <2>2. CASE /\ l - N \in 1..Len(s) /\ output'[l] = s[l - N]
             /\ r - N \in 1..Len(s) /\ output'[r] = s[r - N]
    <3>1. l - N # r - N
      BY <1>9, <1>15
    <3>2. output'[l].table = t
      BY <1>14, <2>2
    <3> QED
      BY <1>7, <2>2, <3>1, <3>2 DEF TwoOfTable
  <2> QED
    BY <1>10, <1>13, <1>14, <1>15, <2>1, <2>2
<1>16. \A x, y, u : TwoOfTable(x, y, u)' = TwoOfTable(x, y, u)
  BY <1>2 DEF TwoOfTable
<1>17. OutputFromKept'
  BY <1>2, <1>3, <1>11 DEF OutputFromKept
<1>18. KeptInOutput'
  BY <1>2, <1>3, <1>12 DEF KeptInOutput
<1>19. KeptOnce'
  BY <1>15, <1>16 DEF KeptOnce
<1> QED
  BY <1>17, <1>18, <1>19 DEF OutputKept

\* Steps that write nothing.
LEMMA SameOutput ==
    ASSUME OutputKept, output' = output, TablesWritten' = TablesWritten,
           TablesWritten = 0 \/ UNCHANGED <<changes, tableOrder>>
    PROVE  OutputKept'
<1>1. CASE TablesWritten = 0
  <2>1. 1..TablesWritten = {} /\ 1..TablesWritten' = {} /\ 1..Len(output) = {}
    BY <1>1 DEF OutputKept, OutputFromKept
  <2> QED
    BY <2>1 DEF OutputKept, OutputFromKept, KeptInOutput, KeptOnce
<1>2. CASE UNCHANGED <<changes, tableOrder>>
  <2>1. OutputFromKept'
    BY <1>2 DEF OutputKept, OutputFromKept
  <2>2. KeptInOutput'
    BY <1>2 DEF OutputKept, KeptInOutput
  <2>3. KeptOnce'
    <3>1. \A x, y, t : TwoOfTable(x, y, t)' = TwoOfTable(x, y, t)
      BY <1>2 DEF TwoOfTable
    <3> QED
      BY <3>1 DEF OutputKept, KeptOnce
  <2> QED
    BY <2>1, <2>2, <2>3 DEF OutputKept
<1> QED
  BY <1>1, <1>2

-----------------------------------------------------------------------------
(* Together *)

\* Both changesets were made from BASE.
ContractKept == MadeFrom(input.base, theirs) /\ MadeFrom(input.base, ours)

\* In every state: once per row, what the parts above say of the entries read so far.
MergeInv ==
    /\ OpenAtStart
    /\ ContractKept
    /\ NumberedForTheirs
    /\ RowsCall =>
        TheirsKnown /\ OursMapped /\ OursKept /\ TablesNamed /\ ConflictsKnown /\ OutputKept

\* When Rebase opens the files nothing is known, mapped, kept or written.
LEMMA FreshMerge == Fresh /\ ContractKept => MergeInv
<1> SUFFICES ASSUME Fresh, ContractKept PROVE MergeInv
  OBVIOUS
<1>1. /\ phase = "open" /\ pos = 0 /\ touched = {} /\ conflicts = {}
      /\ output = <<>> /\ tableOrder = <<>>
      /\ \A t \in Tables : /\ deleted[t] = {} /\ DOMAIN mapIds[t] = {} /\ unmapped[t] = {}
                            /\ changes[t] = <<>>
                            /\ inserted[t] = {} /\ freeIndex[t] = NoIndex
                            /\ \A k \in Keys : updated[t][k] = Blank
  BY DEF Fresh
<1>2. TheirsRead = 0 /\ OursScanned = 0 /\ OursPrepared = 0 /\ TablesWritten = 0
  BY <1>1 DEF TheirsRead, OursScanned, OursPrepared, TablesWritten
<1>3. \A i \in 1..0 : FALSE
  OBVIOUS
<1>4. TheirsKnown
  BY <1>1, <1>2, <1>3 DEF TheirsKnown
<1>5. OursMapped
  BY <1>1, <1>2, <1>3 DEF OursMapped
<1>6. OursKept /\ TablesNamed /\ ConflictsKnown
  BY <1>1, <1>2, <1>3 DEF OursKept, KeptOfOurs, OursNotLost, KeptApart, TablesNamed, ConflictsKnown
<1>7. OutputKept
  BY <1>1, <1>2, <1>3 DEF OutputKept, OutputFromKept, KeptInOutput, KeptOnce
<1>8. NumberedForTheirs
  BY <1>1 DEF NumberedForTheirs, NoneNumbered
<1> QED
  BY <1>1, <1>4, <1>5, <1>6, <1>7, <1>8 DEF MergeInv, OpenAtStart

LEMMA InitMerge == Init => MergeInv
BY FreshMerge, ContractAssumption DEF Init, ContractKept, theirs, ours

\* Without an insert in theirs there is no free index, so nothing can be given one.
LEMMA NextNumbered == IInv /\ NumberedForTheirs /\ [Next]_vars => NumberedForTheirs'
<1> SUFFICES ASSUME IInv, [Next]_vars, TheirsInsertNothing', NumberedForTheirs, NEW t \in Tables
             PROVE  NoneNumbered(t)'
  BY DEF NumberedForTheirs
<1>1. /\ input' = input /\ theirs' = theirs
  BY DEF Next, CopyOurs, CopyTheirs, StartParse, ParseEntry, StartScan, ScanEntry, StartFinalize,
         FinalizeKey, StartPrepare, PrepareEntry, StartWrite, WriteTable, CloseOutput, vars, theirs
<1>2. phase' # "error"
  BY NextIInv DEF IInv, NoInternalError
<1>3. /\ TheirsInsertNothing
      /\ \A u \in Tables : NoneNumbered(u)
  BY <1>1 DEF TheirsInsertNothing, NumberedForTheirs
<1>4. /\ TypeOK /\ Len(theirs) \in Nat
      /\ DOMAIN mapIds = Tables
      /\ inserted[t] = {} /\ freeIndex[t] = NoIndex
      /\ \A k \in DOMAIN mapIds[t] : mapIds[t][k] = InvalidFID
  BY <1>3, InputType DEF IInv, TypeOK, NoneNumbered
<1>5. CASE UNCHANGED <<inserted, freeIndex, mapIds>>
  BY <1>4, <1>5 DEF NoneNumbered
<1>6. CASE ParseEntry
  <2>1. pos + 1 \in 1..Len(theirs)
    BY <1>4, <1>6 DEF ParseEntry, TypeOK
  <2> QED
    BY <1>3, <1>5, <1>6, <2>1 DEF ParseEntry, TheirsInsertNothing, mapping
<1>7. CASE StartScan
  BY <1>4, <1>7 DEF StartScan, FirstFree, NoneNumbered, theirsInfo
<1>8. CASE ScanEntry
  <2> DEFINE e == ours[pos + 1]
  <2>1. /\ inserted' = inserted
        /\ \/ UNCHANGED mapping
           \/ e.table \in touched /\ (ScanInsert(e) \/ ScanUpdateOrDelete(e))
    BY <1>8 DEF ScanEntry, theirsInfo
  <2>2. touched \subseteq Tables
    BY <1>4 DEF TypeOK
  <2> HIDE DEF e
  <2>3. ~Renumber(e.table, e.pk) \/ e.table \notin Tables
    BY <1>2, <1>3 DEF Renumber, NoneNumbered
  <2>4. CASE UNCHANGED mapping
    BY <1>5, <2>1, <2>4 DEF mapping
  <2>5. CASE e.table \in touched /\ ScanInsert(e)
    BY <1>5, <2>1, <2>2, <2>3, <2>5 DEF ScanInsert
  <2>6. CASE e.table \in touched /\ ScanUpdateOrDelete(e)
    <3>1. /\ freeIndex' = freeIndex
          /\ mapIds' = mapIds \/ mapIds' = WithMapping(e.table, e.pk, InvalidFID)
      BY <2>6 DEF ScanUpdateOrDelete
    <3>2. \A k \in DOMAIN mapIds'[t] : mapIds'[t][k] = InvalidFID
      BY <1>4, <3>1 DEF WithMapping
    <3> QED
      BY <1>4, <2>1, <3>1, <3>2 DEF NoneNumbered
  <2> QED
    BY <2>1, <2>4, <2>5, <2>6
<1>9. ASSUME NEW u \in Tables, NEW k \in Keys, FinalizeKey(u, k) PROVE NoneNumbered(t)'
  <2>1. ~Renumber(u, k)
    BY <1>2, <1>3 DEF Renumber, NoneNumbered
  <2> QED
    BY <1>5, <1>9, <2>1 DEF FinalizeKey, theirsInfo
<1>10. CASE \/ CopyOurs \/ CopyTheirs \/ StartParse \/ StartFinalize \/ StartPrepare
            \/ PrepareEntry \/ StartWrite \/ WriteTable \/ CloseOutput \/ UNCHANGED vars
  BY <1>5, <1>10 DEF CopyOurs, CopyTheirs, StartParse, StartFinalize, StartPrepare,
     PrepareEntry, StartWrite, WriteTable, CloseOutput, vars, theirsInfo, mapping
<1> QED
  BY <1>6, <1>7, <1>8, <1>9, <1>10 DEF Next

\* Every step preserves it: the parse, the scan, the map loop, the preparation and
\* the writing each extend one part, and the others carry over.
LEMMA NextMerge == IInv /\ MergeInv /\ [Next]_vars => MergeInv'
<1> SUFFICES ASSUME IInv, MergeInv, [Next]_vars PROVE MergeInv'
  OBVIOUS
<1>1. input' = input
  BY DEF Next, CopyOurs, CopyTheirs, StartParse, ParseEntry, StartScan, ScanEntry, StartFinalize,
         FinalizeKey, StartPrepare, PrepareEntry, StartWrite, WriteTable, CloseOutput, vars
<1>2. /\ RowsCall' = RowsCall /\ Len(ours) \in Nat /\ Len(theirs) \in Nat
      /\ ours' = ours /\ theirs' = theirs
  BY <1>1, InputType DEF RowsCall, theirs, ours, OneEntryPerRow, IInv
<1>3. phase' # "error"
  BY NextIInv DEF IInv, NoInternalError
<1>4. OpenAtStart'
  <2>1. CASE UNCHANGED vars
    BY <2>1 DEF vars, MergeInv, OpenAtStart
  <2>2. CASE Next
    <3>1. phase' # "open"
      BY <2>2 DEF Next, CopyOurs, CopyTheirs, StartParse, ParseEntry, StartScan, ScanEntry,
         StartFinalize, FinalizeKey, StartPrepare, PrepareEntry, StartWrite, WriteTable,
         CloseOutput, ScanInsert, ScanUpdateOrDelete, Renumber, mapping
    <3> QED
      BY <3>1 DEF OpenAtStart
  <2> QED
    BY <2>1, <2>2
<1> DEFINE Known == TheirsKnown /\ OursMapped /\ OursKept /\ TablesNamed /\ ConflictsKnown /\ OutputKept
<1>5. ASSUME RowsCall PROVE Known'
  <2>1. /\ TheirsKnown /\ OursMapped /\ OursKept /\ TablesNamed /\ ConflictsKnown /\ OutputKept
        /\ OneEntryPerRow(theirs) /\ OneEntryPerRow(ours) /\ theirs # <<>> /\ ours # <<>>
        /\ phase = "open" => pos = 0
    BY <1>5 DEF MergeInv, RowsCall, OpenAtStart
  <2>2. CASE ParseEntry
    <3>1. /\ phase = "parse" /\ phase' = "parse"
          /\ UNCHANGED <<mapIds, unmapped, changes, tableOrder, conflicts, output>>
      BY <2>2 DEF ParseEntry, mapping, result
    <3>2. OursScanned = 0 /\ OursScanned' = 0 /\ OursPrepared = 0 /\ OursPrepared' = 0
          /\ TablesWritten = 0 /\ TablesWritten' = 0
      BY <3>1 DEF OursScanned, OursPrepared, TablesWritten
    <3>3. TheirsKnown'
      BY <2>1, <2>2, ParseKnown
    <3>4. OursMapped'
      <4>1. \A t \in Tables : DOMAIN mapIds[t] = {} /\ unmapped[t] = {}
        BY <2>1, <3>2 DEF OursMapped
      <4> QED
        BY <3>1, <3>2, <4>1 DEF OursMapped
    <3>5. OursKept' /\ TablesNamed' /\ ConflictsKnown'
      BY <1>1, <2>1, <3>1, <3>2, SameKept
    <3>6. OutputKept'
      BY <2>1, <3>1, <3>2, SameOutput
    <3> QED
      BY <3>3, <3>4, <3>5, <3>6
  <2>3. CASE ScanEntry
    <3>1. /\ phase = "scan" /\ phase' = "scan"
          /\ UNCHANGED <<theirsInfo, changes, tableOrder, conflicts, output>>
      BY <1>3, <2>3 DEF ScanEntry, result, ScanInsert, ScanUpdateOrDelete, Renumber, mapping
    <3>2. /\ TheirsRead' = TheirsRead /\ OursPrepared = 0 /\ OursPrepared' = 0
          /\ TablesWritten = 0 /\ TablesWritten' = 0
      BY <1>2, <3>1 DEF TheirsRead, OursPrepared, TablesWritten
    <3>3. TheirsKnown'
      BY <1>1, <2>1, <3>1, <3>2, SameTheirs
    <3>4. OursMapped'
      BY <1>3, <2>1, <2>3, ScanMapped
    <3>5. OursKept' /\ TablesNamed' /\ ConflictsKnown'
      BY <1>1, <2>1, <3>1, <3>2, SameKept
    <3>6. OutputKept'
      BY <2>1, <3>1, <3>2, SameOutput
    <3> QED
      BY <3>3, <3>4, <3>5, <3>6
  <2>4. ASSUME NEW t \in Tables, NEW k \in Keys, FinalizeKey(t, k) PROVE Known'
    <3>1. /\ phase = "finalize" /\ phase' = "finalize"
          /\ UNCHANGED <<theirsInfo, changes, tableOrder, conflicts, output>>
      BY <1>3, <2>4 DEF FinalizeKey, result, Renumber
    <3>2. /\ TheirsRead' = TheirsRead /\ OursPrepared = 0 /\ OursPrepared' = 0
          /\ TablesWritten = 0 /\ TablesWritten' = 0
      BY <1>2, <3>1 DEF TheirsRead, OursPrepared, TablesWritten
    <3>3. TheirsKnown'
      BY <1>1, <2>1, <3>1, <3>2, SameTheirs
    <3>4. OursMapped'
      BY <1>3, <2>1, <2>4, FinalizeMapped
    <3>5. OursKept' /\ TablesNamed' /\ ConflictsKnown'
      BY <1>1, <2>1, <3>1, <3>2, SameKept
    <3>6. OutputKept'
      BY <2>1, <3>1, <3>2, SameOutput
    <3> QED
      BY <3>3, <3>4, <3>5, <3>6
  <2>5. CASE PrepareEntry
    <3>1. /\ phase = "prepare" /\ phase' = "prepare"
          /\ UNCHANGED <<theirsInfo, mapping, output>>
      BY <2>5 DEF PrepareEntry
    <3>2. /\ TheirsRead' = TheirsRead /\ OursScanned' = OursScanned
          /\ TablesWritten = 0 /\ TablesWritten' = 0
      BY <1>2, <3>1 DEF TheirsRead, OursScanned, TablesWritten
    <3>3. TheirsKnown'
      BY <1>1, <2>1, <3>1, <3>2, SameTheirs
    <3>4. OursMapped'
      BY <1>1, <2>1, <3>1, <3>2, SameMapped DEF theirsInfo, mapping
    <3>5. OursKept'
      BY <2>1, <2>5, PrepareKept
    <3>6. TablesNamed'
      BY <2>1, <2>5, PrepareNamed
    <3>7. ConflictsKnown'
      BY <2>1, <2>5, PrepareConflicts
    <3>8. OutputKept'
      BY <2>1, <3>1, <3>2, SameOutput
    <3> QED
      BY <3>3, <3>4, <3>5, <3>6, <3>7, <3>8
  <2>6. CASE WriteTable
    <3>1. /\ phase = "write" /\ phase' = "write"
          /\ UNCHANGED <<theirsInfo, mapping, changes, tableOrder, conflicts>>
      BY <2>6 DEF WriteTable
    <3>2. TheirsRead' = TheirsRead /\ OursScanned' = OursScanned /\ OursPrepared' = OursPrepared
      BY <1>2, <3>1 DEF TheirsRead, OursScanned, OursPrepared
    <3>3. TheirsKnown'
      BY <1>1, <2>1, <3>1, <3>2, SameTheirs
    <3>4. OursMapped'
      BY <1>1, <2>1, <3>1, <3>2, SameMapped DEF theirsInfo, mapping
    <3>5. OursKept' /\ TablesNamed' /\ ConflictsKnown'
      BY <1>1, <2>1, <3>1, <3>2, SameKept DEF theirsInfo, mapping
    <3>6. OutputKept'
      BY <2>1, <2>6, WriteOutput
    <3> QED
      BY <3>3, <3>4, <3>5, <3>6
  <2>7. ASSUME /\ UNCHANGED <<theirsInfo, mapIds, unmapped, result>>
               /\ TheirsRead' = TheirsRead /\ OursScanned' = OursScanned
               /\ OursPrepared' = OursPrepared /\ TablesWritten' = TablesWritten
        PROVE  Known'
    <3>1. TheirsKnown'
      BY <1>1, <2>1, <2>7, SameTheirs
    <3>2. OursMapped'
      BY <1>1, <2>1, <2>7, SameMapped DEF theirsInfo
    <3>3. OursKept' /\ TablesNamed' /\ ConflictsKnown'
      BY <1>1, <2>1, <2>7, SameKept DEF theirsInfo, result
    <3>4. OutputKept'
      BY <2>1, <2>7, SameOutput DEF result
    <3> QED
      BY <3>1, <3>2, <3>3, <3>4
  <2>8. CASE \/ StartParse \/ StartScan \/ StartFinalize \/ StartPrepare \/ StartWrite
             \/ CloseOutput \/ UNCHANGED vars
    <3>1. /\ UNCHANGED <<theirsInfo, mapIds, unmapped, result, tableOrder>>
          /\ \/ phase = "open" /\ phase' = "parse" /\ pos' = 0
             \/ phase = "parse" /\ pos = Len(theirs) /\ phase' = "scan" /\ pos' = 0
             \/ phase = "scan" /\ pos = Len(ours) /\ phase' = "finalize"
             \/ phase = "finalize" /\ phase' = "prepare" /\ pos' = 0
             \/ phase = "prepare" /\ pos = Len(ours) /\ phase' = "write" /\ pos' = 0
             \/ phase = "write" /\ pos = Len(tableOrder) /\ phase' = "done"
             \/ phase' = phase /\ pos' = pos
      BY <2>1, <2>8 DEF StartParse, StartScan, StartFinalize, StartPrepare, StartWrite, CloseOutput,
         vars, mapping, result
    <3>2. /\ TheirsRead' = TheirsRead /\ OursScanned' = OursScanned
          /\ OursPrepared' = OursPrepared /\ TablesWritten' = TablesWritten
      BY <1>2, <3>1 DEF TheirsRead, OursScanned, OursPrepared, TablesWritten
    <3> QED
      BY <2>7, <3>1, <3>2
  <2>9. ~CopyOurs /\ ~CopyTheirs
    BY <2>1 DEF CopyOurs, CopyTheirs
  <2> QED
    BY <2>2, <2>3, <2>4, <2>5, <2>6, <2>8, <2>9 DEF Next
<1>6. ContractKept'
  BY <1>1, <1>2 DEF MergeInv, ContractKept
<1>7. NumberedForTheirs'
  BY NextNumbered DEF MergeInv
<1> QED
  BY <1>2, <1>4, <1>5, <1>6, <1>7 DEF MergeInv

\* In every state of Rebase the four data structures of the code say what they are
\* meant to: databaseRebaseInfo about theirs, rebaseMapping and tableChanges about
\* ours, and the output about tableChanges.
THEOREM MergeInvariance == Spec => [](IInv /\ MergeInv)
<1>1. Init => MergeInv
  BY InitMerge
<1>2. IInv /\ MergeInv /\ [Next]_vars => MergeInv'
  BY NextMerge
<1> QED
  BY <1>1, <1>2, Invariance, PTL DEF Spec

-----------------------------------------------------------------------------
(* The three databases, row by row *)

\* A changeset made from a database, with one entry of a row: what it makes of
\* the rows.
LEMMA MadeRows ==
    ASSUME NEW db \in Database, NEW log \in Seq(InputEntry), MadeFrom(db, log), OneEntryPerRow(log)
    PROVE  /\ Replay(log, db) \in Database
           /\ \A t \in Tables, k \in Keys :
                (\A i \in 1..Len(log) : ~AtRow(log[i], t, k)) => Replay(log, db)[t][k] = db[t][k]
           /\ \A i \in 1..Len(log) : \A t \in Tables, k \in Keys :
                AtRow(log[i], t, k) =>
                    /\ log[i] \in InputEntry /\ WellFormed(log[i])
                    /\ Effective(log[i], db[t][k])
                    /\ Replay(log, db)[t][k] = RowAfter(log[i], db[t][k])
<1> DEFINE N == Len(log)
           d == Replay(log, db)
<1>1. N \in Nat /\ DOMAIN log = 1..N /\ \A i \in 1..N : log[i] \in InputEntry
  OBVIOUS
<1>2. InputEntry \subseteq Entry
  <2>1. Keys \subseteq Int
    BY KeysAssumption
  <2> QED
    BY <2>1 DEF InputEntry, Entry
<1>3. Replay(log, db) # Absent /\ \A i \in 1..N : WellFormed(log[i])
  BY <1>1 DEF MadeFrom
<1>4. \A i \in 1..N : Invertible(log[i])
  BY <1>1, <1>2, <1>3 DEF WellFormed, Invertible
<1>5. \A i, j \in 1..N : SameRow(log[i], log[j]) => i = j
  BY <1>1 DEF OneEntryPerRow, SameRow
<1>6. \A i \in 1..N : TakesEffect(log[i], db)
  BY <1>1, <1>3, <1>4, <1>5, DistinctRowsTakeEffect
<1>7. RowsAfter(log, db, N, d)
  BY <1>1, <1>5, <1>6, ReplayOfDistinctRows
<1> HIDE DEF d, N
<1>8. \A t \in Tables, k \in Keys :
        (\A i \in 1..N : ~AtRow(log[i], t, k)) => d[t][k] = db[t][k]
  BY <1>7 DEF RowsAfter, About, AtRow
<1>9. ASSUME NEW i \in 1..N, NEW t \in Tables, NEW k \in Keys, AtRow(log[i], t, k)
      PROVE  Effective(log[i], db[t][k]) /\ d[t][k] = RowAfter(log[i], db[t][k])
  <2>1. i \in About(log, N, t, k)
    BY <1>9 DEF About, AtRow
  <2>2. Effective(log[i], db[t][k])
    BY <1>6, <1>9 DEF TakesEffect, AtRow
  <2> QED
    BY <1>7, <2>1, <2>2 DEF RowsAfter
<1> QED
  BY <1>1, <1>3, <1>7, <1>8, <1>9 DEF RowsAfter, d, N

\* The arguments of a call: a base, and two changesets made from it.
LEMMA Contract ==
    ASSUME IInv, MergeInv
    PROVE  /\ input.base \in Database
           /\ theirs \in Seq(InputEntry) /\ ours \in Seq(InputEntry)
           /\ MadeFrom(input.base, theirs) /\ MadeFrom(input.base, ours)
<1>1. input \in Input
  BY DEF IInv, TypeOK
<1>2. input.base \in Database
  BY <1>1 DEF Input
<1> QED
  BY <1>2, InputType DEF IInv, MergeInv, ContractKept

\* A call that has rebased something is over.
Over == IInv /\ MergeInv /\ phase = "done" /\ RowsCall

\* At the end all of theirs and ours has been read and all that was kept written.
LEMMA AtTheEnd ==
    ASSUME Over
    PROVE  /\ TypeOK /\ TheirsKnown /\ OursMapped /\ OursKept /\ TablesNamed /\ ConflictsKnown /\ OutputKept
           /\ OneEntryPerRow(theirs) /\ OneEntryPerRow(ours)
           /\ Len(theirs) \in Nat /\ Len(ours) \in Nat
           /\ TheirsRead = Len(theirs) /\ OursScanned = Len(ours) /\ OursPrepared = Len(ours)
           /\ TablesWritten = Len(tableOrder)
BY InputType DEF Over, IInv, MergeInv, RowsCall, TheirsRead, OursScanned, OursPrepared, TablesWritten

\* A row of BASE in THEIRS: gone if its key is recorded as deleted, else changed in
\* the columns recorded as updated, each to another value.
LEMMA TheirsRow ==
    ASSUME Over, NEW t \in Tables, NEW k \in Keys, input.base[t][k] # Absent
    PROVE  /\ input.base[t][k] \in Row
           /\ TheirsDb[t][k] \in Row \cup {Absent}
           /\ TheirsDb[t][k] = Absent <=> k \in deleted[t]
           /\ k \in deleted[t] => t \in touched
           /\ TheirsDb[t][k] # Absent => TheirsDb[t][k] = Overlay(updated[t][k], input.base[t][k])
           /\ updated[t][k] \in EntryValues
           /\ \A c \in Cols : updated[t][k][c] # Undefined => updated[t][k][c] # input.base[t][k][c]
           /\ t \notin touched => updated[t][k] = Blank
<1> DEFINE row == input.base[t][k]
           there == TheirsDb[t][k]
           N == Len(theirs)
<1>1. /\ TheirsKnown /\ TypeOK /\ OneEntryPerRow(theirs)
      /\ TheirsRead = N /\ N \in Nat /\ DOMAIN theirs = 1..N
  BY AtTheEnd, InputType
<1>2. /\ input.base \in Database /\ theirs \in Seq(InputEntry) /\ MadeFrom(input.base, theirs)
  BY Contract DEF Over
<1>3. /\ TheirsDb \in Database
      /\ (\A i \in 1..N : ~AtRow(theirs[i], t, k)) => there = row
      /\ \A i \in 1..N : AtRow(theirs[i], t, k) =>
            /\ theirs[i] \in InputEntry /\ WellFormed(theirs[i])
            /\ Effective(theirs[i], row) /\ there = RowAfter(theirs[i], row)
  BY <1>1, <1>2, MadeRows DEF TheirsDb
<1>4. row \in Row /\ there \in Row \cup {Absent} /\ updated[t][k] \in EntryValues
  BY <1>1, <1>2, <1>3 DEF Database, TypeOK
<1>5. /\ t \in touched <=> \E i \in 1..N : theirs[i].table = t
      /\ k \in deleted[t] <=> \E i \in 1..N : theirs[i].op = "delete" /\ AtRow(theirs[i], t, k)
      /\ (\A i \in 1..N : ~(theirs[i].op = "update" /\ AtRow(theirs[i], t, k))) => updated[t][k] = Blank
      /\ \A i \in 1..N : theirs[i].op = "update" /\ AtRow(theirs[i], t, k) => updated[t][k] = theirs[i].new
  BY <1>1 DEF TheirsKnown, AtRow
<1>6. Overlay(Blank, row) = row /\ \A c \in Cols : Blank[c] = Undefined
  BY <1>4 DEF Overlay, Blank, Row
<1>7. row # Absent /\ Absent \notin Row
  BY AbsentAssumption
<1> HIDE DEF row, there, N
<1>8. CASE \A i \in 1..N : ~AtRow(theirs[i], t, k)
  <2>1. k \notin deleted[t] /\ updated[t][k] = Blank /\ there = row
    BY <1>3, <1>5, <1>8
  <2> QED
    BY <1>4, <1>5, <1>6, <1>7, <2>1 DEF row, there
<1>9. ASSUME NEW i \in 1..N, AtRow(theirs[i], t, k)
      PROVE  /\ there = Absent <=> k \in deleted[t]
             /\ k \in deleted[t] => t \in touched
             /\ there # Absent => there = Overlay(updated[t][k], row)
             /\ \A c \in Cols : updated[t][k][c] # Undefined => updated[t][k][c] # row[c]
             /\ t \notin touched => updated[t][k] = Blank
  <2> DEFINE e == theirs[i]
  <2>1. /\ e \in InputEntry /\ WellFormed(e) /\ Effective(e, row) /\ there = RowAfter(e, row)
        /\ t \in touched
    BY <1>3, <1>5, <1>9 DEF AtRow
  <2>2. \A j \in 1..N : AtRow(theirs[j], t, k) => j = i
    BY <1>1, <1>9 DEF OneEntryPerRow, AtRow
  <2>3. k \in deleted[t] <=> e.op = "delete"
    BY <1>5, <1>9, <2>2
  <2>4. updated[t][k] = IF e.op = "update" THEN e.new ELSE Blank
    BY <1>5, <1>9, <2>2
  <2>5. e.op \in {"insert", "update", "delete"}
    BY <2>1 DEF InputEntry, Operations
  <2> HIDE DEF e
  <2>6. e.op # "insert"
    BY <1>7, <2>1 DEF Effective
  <2>7. CASE e.op = "delete"
    <3>1. there = Absent
      BY <2>1, <2>7 DEF RowAfter
    <3> QED
      BY <1>6, <2>1, <2>3, <2>4, <2>7, <3>1
  <2>8. CASE e.op = "update"
    <3>1. there = Overlay(e.new, row) /\ Matches(e, row)
      BY <2>1, <2>8 DEF RowAfter, Effective
    <3>2. there \in Row
      BY <1>4, <2>1, <3>1 DEF Overlay, Row, InputEntry, EntryValues
    <3>3. \A c \in Cols : e.new[c] # Undefined => e.new[c] # row[c]
      BY <2>1, <2>8, <3>1 DEF Matches, WellFormed
    <3> QED
      BY <1>7, <2>1, <2>3, <2>4, <2>8, <3>1, <3>2, <3>3
  <2> QED
    BY <2>5, <2>6, <2>7, <2>8
<1> QED
  BY <1>4, <1>8, <1>9 DEF row, there

\* An entry of ours, and the row of BASE and of OURS it is about.
LEMMA OursEntry ==
    ASSUME Over, NEW i \in 1..Len(ours)
    PROVE  LET e == ours[i]
               b == input.base[e.table][e.pk]
           IN  /\ e \in InputEntry /\ WellFormed(e) /\ e.table \in Tables /\ e.pk \in Keys
               /\ b \in Row \cup {Absent} /\ OursDb[e.table][e.pk] \in Row \cup {Absent}
               /\ Effective(e, b) /\ OursDb[e.table][e.pk] = RowAfter(e, b)
               /\ b = Absent <=> e.op = "insert"
<1> DEFINE e == ours[i]
           b == input.base[e.table][e.pk]
<1>1. /\ TypeOK /\ OneEntryPerRow(ours) /\ e \in InputEntry
  BY AtTheEnd, InputType
<1>2. /\ input.base \in Database /\ ours \in Seq(InputEntry) /\ MadeFrom(input.base, ours)
  BY Contract DEF Over
<1>3. e.table \in Tables /\ e.pk \in Keys /\ e.op \in {"insert", "update", "delete"}
  BY <1>1 DEF InputEntry, Operations
<1>4. AtRow(e, e.table, e.pk)
  BY DEF AtRow
<1>5. /\ OursDb \in Database
      /\ WellFormed(e) /\ Effective(e, b) /\ OursDb[e.table][e.pk] = RowAfter(e, b)
  BY <1>1, <1>2, <1>3, <1>4, MadeRows DEF OursDb
<1>6. b \in Row \cup {Absent} /\ OursDb[e.table][e.pk] \in Row \cup {Absent}
  BY <1>2, <1>3, <1>5 DEF Database
<1> HIDE DEF e, b
<1>7. b = Absent <=> e.op = "insert"
  BY <1>3, <1>5 DEF Effective, Matches
<1> QED
  BY <1>1, <1>3, <1>5, <1>6, <1>7 DEF e, b

\* A row no entry of ours is about.
LEMMA OursUntouched ==
    ASSUME Over, NEW t \in Tables, NEW k \in Keys, \A i \in 1..Len(ours) : ~AtRow(ours[i], t, k)
    PROVE  OursDb[t][k] = input.base[t][k]
<1>1. OneEntryPerRow(ours)
  BY AtTheEnd
<1>2. /\ input.base \in Database /\ ours \in Seq(InputEntry) /\ MadeFrom(input.base, ours)
  BY Contract DEF Over
<1> QED
  BY <1>1, <1>2, MadeRows DEF OursDb

\* Setting no column changes nothing.
LEMMA OverlayBlank == ASSUME NEW row \in Row PROVE Overlay(Blank, row) = row
<1>1. Overlay(Blank, row) = [c \in Cols |-> row[c]]
  BY DEF Overlay, Blank
<1> QED
  BY <1>1 DEF Row

\* The columns of a row some of whose columns are set.
LEMMA OverlayRow ==
    ASSUME NEW u \in EntryValues, NEW row \in Row
    PROVE  /\ Overlay(u, row) \in Row
           /\ \A c \in Cols : Overlay(u, row)[c] = IF u[c] = Undefined THEN row[c] ELSE u[c]
BY DEF Overlay, EntryValues, Row

\* The merge of a row that is still there on both sides, column by column, ...
LEMMA MergedValues ==
    ASSUME NEW b \in Row, NEW t \in Row, NEW o \in Row
    PROVE  /\ MergedRow(b, t, o) \in Row
           /\ \A c \in Cols : MergedRow(b, t, o)[c] = IF t[c] = b[c] THEN o[c] ELSE t[c]
<1>1. t # Absent /\ o # Absent
  BY AbsentAssumption
<1>2. MergedRow(b, t, o) = [c \in Cols |-> IF t[c] = b[c] THEN o[c] ELSE t[c]]
  BY <1>1 DEF MergedRow
<1> QED
  BY <1>2 DEF Row

\* ... and of one that is not: the deletion wins.
LEMMA MergedWithAbsent ==
    ASSUME NEW b, NEW t, NEW o, t = Absent \/ o = Absent
    PROVE  MergedRow(b, t, o) = Absent
BY DEF MergedRow

\* The pure content of handleUpdate: u is what theirs set, e what we did to the row
\* b of BASE, x what is written. x finds its row in THEIRS and leaves the merge.
LEMMA UpdateMerges ==
    ASSUME NEW b \in Row, NEW u \in EntryValues,
           \A c \in Cols : u[c] # Undefined => u[c] # b[c],
           NEW e, e.op = "update", e.new \in EntryValues, Matches(e, b),
           NEW x, x.op = "update", x.new \in EntryValues,
           \A c \in Cols :
              /\ x.old[c] = IF u[c] = Undefined THEN e.old[c] ELSE Undefined
              /\ x.new[c] = IF u[c] = Undefined THEN e.new[c] ELSE Undefined
    PROVE  /\ Matches(x, Overlay(u, b))
           /\ RowAfter(x, Overlay(u, b)) = MergedRow(b, Overlay(u, b), RowAfter(e, b))
<1> DEFINE t == Overlay(u, b)
           o == Overlay(e.new, b)
           m == Overlay(x.new, t)
<1>1. t \in Row /\ \A c \in Cols : t[c] = IF u[c] = Undefined THEN b[c] ELSE u[c]
  BY OverlayRow
<1>2. o \in Row /\ \A c \in Cols : o[c] = IF e.new[c] = Undefined THEN b[c] ELSE e.new[c]
  BY OverlayRow
<1> HIDE DEF t, o
<1>3. m \in Row /\ \A c \in Cols : m[c] = IF x.new[c] = Undefined THEN t[c] ELSE x.new[c]
  BY <1>1, OverlayRow
<1> HIDE DEF m
<1>4. RowAfter(x, t) = m /\ RowAfter(e, b) = o
  BY DEF RowAfter, m, o
<1>5. \A c \in Cols : e.old[c] # Undefined => b[c] = e.old[c]
  BY DEF Matches
<1>6. Matches(x, t)
  <2>1. t # Absent
    BY <1>1, AbsentAssumption
  <2>2. ASSUME NEW c \in Cols, x.old[c] # Undefined PROVE t[c] = x.old[c]
    <3>1. u[c] = Undefined /\ x.old[c] = e.old[c]
      BY <2>2
    <3> QED
      BY <1>1, <1>5, <2>2, <3>1
  <2> QED
    BY <2>1, <2>2 DEF Matches
<1>7. /\ MergedRow(b, t, o) \in Row
      /\ \A c \in Cols : MergedRow(b, t, o)[c] = IF t[c] = b[c] THEN o[c] ELSE t[c]
  BY <1>1, <1>2, MergedValues
<1>8. ASSUME NEW c \in Cols PROVE m[c] = MergedRow(b, t, o)[c]
  <2>1. CASE u[c] = Undefined
    <3>1. t[c] = b[c] /\ x.new[c] = e.new[c]
      BY <1>1, <2>1
    <3> QED
      BY <1>2, <1>3, <1>7, <3>1
  <2>2. CASE u[c] # Undefined
    <3>1. t[c] = u[c] /\ u[c] # b[c] /\ x.new[c] = Undefined
      BY <1>1, <2>2
    <3> QED
      BY <1>3, <1>7, <3>1
  <2> QED
    BY <2>1, <2>2
<1>9. m = MergedRow(b, t, o)
  BY <1>3, <1>7, <1>8, RowsAreFunctions
<1> QED
  BY <1>4, <1>6, <1>9 DEF t

\* ... and of handleDelete: the old values are those of THEIRS.
LEMMA DeleteMerges ==
    ASSUME NEW b \in Row, NEW u \in EntryValues,
           NEW e, e.op = "delete", e.old \in Row, Matches(e, b),
           NEW x, x.op = "delete", x.old = Overlay(u, e.old)
    PROVE  /\ Matches(x, Overlay(u, b))
           /\ RowAfter(x, Overlay(u, b)) = MergedRow(b, Overlay(u, b), RowAfter(e, b))
<1>1. e.old = b
  <2>1. \A c \in Cols : e.old[c] = b[c]
    BY DefinedInRow DEF Matches
  <2> QED
    BY <2>1, RowsAreFunctions
<1>2. Overlay(u, b) # Absent
  BY OverlayRow, AbsentAssumption
<1>3. Matches(x, Overlay(u, b))
  BY <1>1, <1>2 DEF Matches
<1>4. RowAfter(x, Overlay(u, b)) = Absent /\ RowAfter(e, b) = Absent
  BY DEF RowAfter
<1> QED
  BY <1>3, <1>4, MergedWithAbsent

\* An entry of ours that is no insert, when theirs left its row: what theirs set in
\* it is what prepareNewChangeset patches.
LEMMA PatchedRow ==
    ASSUME Over, NEW i \in 1..Len(ours), ours[i].op # "insert"
    PROVE  LET e == ours[i]
               b == input.base[e.table][e.pk]
               T == TheirsDb[e.table][e.pk]
           IN  /\ b \in Row /\ Matches(e, b)
               /\ NewPK(e) = InvalidFID <=> T = Absent
               /\ NewPK(e) # InvalidFID =>
                    /\ NewPK(e) = e.pk /\ T = Overlay(Patched(e), b)
                    /\ Patched(e) \in EntryValues
                    /\ \A c \in Cols : Patched(e)[c] # Undefined => Patched(e)[c] # b[c]
                    /\ e.table \notin touched => Patched(e) = Blank
<1> DEFINE e == ours[i]
           b == input.base[e.table][e.pk]
           T == TheirsDb[e.table][e.pk]
<1>1. /\ e \in InputEntry /\ WellFormed(e) /\ e.table \in Tables /\ e.pk \in Keys
      /\ Effective(e, b) /\ b # Absent
  BY OursEntry
<1>2. /\ b \in Row
      /\ T = Absent <=> e.pk \in deleted[e.table]
      /\ e.pk \in deleted[e.table] => e.table \in touched
      /\ T # Absent => T = Overlay(updated[e.table][e.pk], b)
      /\ updated[e.table][e.pk] \in EntryValues
      /\ \A c \in Cols : updated[e.table][e.pk][c] # Undefined => updated[e.table][e.pk][c] # b[c]
      /\ e.table \notin touched => updated[e.table][e.pk] = Blank
  BY <1>1, TheirsRow
<1>3. NewPK(e) = IF e.table \in touched /\ e.pk \in deleted[e.table] THEN InvalidFID ELSE e.pk
  BY AtTheEnd, NewKey DEF Over
<1>4. e.pk # InvalidFID
  BY <1>1, KeysAssumption DEF InvalidFID
<1>5. Matches(e, b)
  <2>1. e.op \in {"update", "delete"}
    BY <1>1 DEF InputEntry, Operations
  <2> HIDE DEF e, b
  <2> QED
    BY <1>1, <2>1 DEF Effective
<1> HIDE DEF e, b, T
<1>6. NewPK(e) = InvalidFID <=> T = Absent
  BY <1>2, <1>3, <1>4
<1>7. ASSUME NewPK(e) # InvalidFID
      PROVE  /\ NewPK(e) = e.pk /\ T = Overlay(Patched(e), b)
             /\ Patched(e) \in EntryValues
             /\ \A c \in Cols : Patched(e)[c] # Undefined => Patched(e)[c] # b[c]
             /\ e.table \notin touched => Patched(e) = Blank
  <2>1. NewPK(e) = e.pk /\ T # Absent
    BY <1>3, <1>6, <1>7
  <2>2. Patched(e) = updated[e.table][e.pk]
    BY <2>1 DEF Patched
  <2> QED
    BY <1>2, <2>1, <2>2
<1> QED
  BY <1>2, <1>5, <1>6, <1>7 DEF e, b, T

\* What is kept of such an entry finds its row in THEIRS and leaves the merge.
LEMMA KeptRow ==
    ASSUME Over, NEW i \in 1..Len(ours), ours[i].op # "insert", ~Dropped(ours[i])
    PROVE  LET e == ours[i]
               T == TheirsDb[e.table][e.pk]
           IN  /\ Effective(Rebased(e), T)
               /\ RowAfter(Rebased(e), T)
                    = MergedRow(input.base[e.table][e.pk], T, OursDb[e.table][e.pk])
<1> DEFINE e == ours[i]
           x == Rebased(e)
           b == input.base[e.table][e.pk]
           T == TheirsDb[e.table][e.pk]
           u == Patched(e)
<1>1. /\ e \in InputEntry /\ WellFormed(e)
      /\ Effective(e, b) /\ OursDb[e.table][e.pk] = RowAfter(e, b)
  BY OursEntry
<1>2. x \in Entry /\ x.op = e.op /\ NewPK(e) = e.pk
  BY AtTheEnd, RebasedFields DEF Over
<1>3. NewPK(e) # InvalidFID
  <2>1. e.pk \in Keys
    BY <1>1 DEF InputEntry
  <2> QED
    BY <1>2, <2>1, KeysAssumption DEF InvalidFID
<1>4. /\ b \in Row /\ Matches(e, b) /\ T = Overlay(u, b) /\ u \in EntryValues
      /\ \A c \in Cols : u[c] # Undefined => u[c] # b[c]
      /\ e.table \notin touched => u = Blank
  BY <1>3, PatchedRow
<1>5. /\ e.op \in {"update", "delete"} /\ e.new \in EntryValues /\ e.old \in EntryValues
      /\ x.new \in EntryValues
  BY <1>1, <1>2 DEF InputEntry, Operations, Entry
<1>6. e.table \notin touched => x = e /\ \A c \in Cols : u[c] = Undefined
  BY <1>4 DEF Rebased, Blank
<1>7. ~Dropped(e)
  OBVIOUS
<1> HIDE DEF e, b, T, u
<1>8. CASE e.op = "update"
  <2>1. e.table \in touched => x = RebasedUpdate(e)
    BY <1>8 DEF Rebased
  <2>2. /\ RebasedUpdate(e).old = [c \in Cols |-> IF u[c] = Undefined THEN e.old[c] ELSE Undefined]
        /\ RebasedUpdate(e).new = [c \in Cols |-> IF u[c] = Undefined THEN e.new[c] ELSE Undefined]
    BY <1>1 DEF RebasedUpdate, InputEntry, u
  <2> HIDE DEF x
  <2>3. \A c \in Cols :
          /\ x.old[c] = IF u[c] = Undefined THEN e.old[c] ELSE Undefined
          /\ x.new[c] = IF u[c] = Undefined THEN e.new[c] ELSE Undefined
    BY <1>6, <2>1, <2>2
  <2>4. x.op = "update"
    BY <1>2, <1>8
  <2>5. /\ Matches(x, Overlay(u, b))
        /\ RowAfter(x, Overlay(u, b)) = MergedRow(b, Overlay(u, b), RowAfter(e, b))
    BY <1>4, <1>5, <1>8, <2>3, <2>4, UpdateMerges
  <2>6. x.new # Blank
    <3>1. CASE e.table \in touched
      BY <1>7, <1>8, <2>1, <3>1 DEF Dropped
    <3>2. CASE e.table \notin touched
      BY <1>1, <1>6, <1>8, <3>2 DEF WellFormed
    <3> QED
      BY <3>1, <3>2
  <2>7. Effective(x, T)
    BY <1>4, <2>4, <2>5, <2>6 DEF Effective
  <2> QED
    BY <1>1, <1>4, <2>5, <2>7 DEF e, b, T, x
<1>9. CASE e.op = "delete"
  <2>1. x.old = Overlay(u, e.old) /\ e.old \in Row
    <3>1. e.old \in Row
      BY <1>1, <1>9 DEF WellFormed
    <3>2. CASE e.table \in touched
      <4>1. x = RebasedDelete(e)
        BY <1>9, <3>2 DEF Rebased
      <4> QED
        BY <1>1, <3>1, <4>1 DEF RebasedDelete, InputEntry, u
    <3>3. CASE e.table \notin touched
      BY <1>4, <1>6, <3>1, <3>3, OverlayBlank
    <3> QED
      BY <3>1, <3>2, <3>3
  <2> HIDE DEF x
  <2>2. x.op = "delete"
    BY <1>2, <1>9
  <2>3. /\ Matches(x, Overlay(u, b))
        /\ RowAfter(x, Overlay(u, b)) = MergedRow(b, Overlay(u, b), RowAfter(e, b))
    BY <1>4, <1>9, <2>1, <2>2, DeleteMerges
  <2>4. Effective(x, T)
    BY <1>4, <2>2, <2>3 DEF Effective
  <2> QED
    BY <1>1, <1>4, <2>3, <2>4 DEF e, b, T, x
<1> QED
  BY <1>5, <1>8, <1>9

\* Nothing is kept of an entry that has nothing to add to THEIRS.
LEMMA DroppedRow ==
    ASSUME Over, NEW i \in 1..Len(ours), Dropped(ours[i])
    PROVE  LET e == ours[i]
               T == TheirsDb[e.table][e.pk]
           IN  /\ e.op # "insert"
               /\ MergedRow(input.base[e.table][e.pk], T, OursDb[e.table][e.pk]) = T
<1> DEFINE e == ours[i]
           b == input.base[e.table][e.pk]
           T == TheirsDb[e.table][e.pk]
           O == OursDb[e.table][e.pk]
           u == Patched(e)
<1>1. e.op # "insert" /\ e.table \in touched
  BY DEF Dropped
<1>2. /\ e \in InputEntry /\ WellFormed(e) /\ O = RowAfter(e, b)
  BY OursEntry
<1>3. NewPK(e) = InvalidFID <=> T = Absent
  BY <1>1, PatchedRow
<1>4. CASE NewPK(e) = InvalidFID
  BY <1>1, <1>3, <1>4, MergedWithAbsent
<1>5. CASE NewPK(e) # InvalidFID
  <2>1. e.op = "update" /\ RebasedUpdate(e).new = Blank
    BY <1>5 DEF Dropped
  <2>2. /\ b \in Row /\ Matches(e, b) /\ T = Overlay(u, b) /\ u \in EntryValues
        /\ \A c \in Cols : u[c] # Undefined => u[c] # b[c]
    BY <1>1, <1>5, PatchedRow
  <2> HIDE DEF e, b, T, O, u
  <2>3. RebasedUpdate(e).new = [c \in Cols |-> IF u[c] = Undefined THEN e.new[c] ELSE Undefined]
    BY <1>2 DEF RebasedUpdate, InputEntry, u
  <2>4. \A c \in Cols : u[c] = Undefined => e.new[c] = Undefined
    BY <2>1, <2>3 DEF Blank
  <2>5. O = Overlay(e.new, b) /\ e.new \in EntryValues
    BY <1>2, <2>1 DEF RowAfter, InputEntry
  <2>6. /\ T \in Row /\ \A c \in Cols : T[c] = IF u[c] = Undefined THEN b[c] ELSE u[c]
        /\ O \in Row /\ \A c \in Cols : O[c] = IF e.new[c] = Undefined THEN b[c] ELSE e.new[c]
    BY <2>2, <2>5, OverlayRow
  <2>7. /\ MergedRow(b, T, O) \in Row
        /\ \A c \in Cols : MergedRow(b, T, O)[c] = IF T[c] = b[c] THEN O[c] ELSE T[c]
    BY <2>2, <2>6, MergedValues
  <2>8. ASSUME NEW c \in Cols PROVE MergedRow(b, T, O)[c] = T[c]
    BY <2>2, <2>4, <2>6, <2>7
  <2>9. MergedRow(b, T, O) = T
    BY <2>6, <2>7, <2>8, RowsAreFunctions
  <2> QED
    BY <1>1, <2>9 DEF e, b, T, O
<1> QED
  BY <1>1, <1>4, <1>5

\* A row we left alone is the one of THEIRS.
LEMMA UntouchedRow ==
    ASSUME Over, NEW t \in Tables, NEW k \in Keys, input.base[t][k] # Absent,
           \A i \in 1..Len(ours) : ~AtRow(ours[i], t, k)
    PROVE  MergedRow(input.base[t][k], TheirsDb[t][k], OursDb[t][k]) = TheirsDb[t][k]
<1> DEFINE b == input.base[t][k]
           T == TheirsDb[t][k]
<1>1. OursDb[t][k] = b
  BY OursUntouched
<1>2. b \in Row /\ T \in Row \cup {Absent}
  BY TheirsRow
<1> HIDE DEF b, T
<1>3. CASE T = Absent
  BY <1>3, MergedWithAbsent DEF T
<1>4. CASE T \in Row
  <2>1. /\ MergedRow(b, T, b) \in Row
        /\ \A c \in Cols : MergedRow(b, T, b)[c] = IF T[c] = b[c] THEN b[c] ELSE T[c]
    BY <1>2, <1>4, MergedValues
  <2>2. MergedRow(b, T, b) = T
    BY <1>4, <2>1, RowsAreFunctions
  <2> QED
    BY <1>1, <2>2 DEF b, T
<1> QED
  BY <1>2, <1>3, <1>4

\* The rows we inserted are those of our insert entries.
LEMMA InsertsOfOurs ==
    ASSUME Over, NEW t \in Tables, NEW j \in Keys
    PROVE  j \in OurInserts(t) <=>
             \E i \in 1..Len(ours) : ours[i].op = "insert" /\ AtRow(ours[i], t, j)
<1>1. ASSUME j \in OurInserts(t)
      PROVE  \E i \in 1..Len(ours) : ours[i].op = "insert" /\ AtRow(ours[i], t, j)
  <2>1. input.base[t][j] = Absent /\ OursDb[t][j] # Absent
    BY <1>1 DEF OurInserts
  <2>2. PICK i \in 1..Len(ours) : AtRow(ours[i], t, j)
    BY <2>1, OursUntouched
  <2>3. ours[i].op = "insert"
    BY <2>1, <2>2, OursEntry DEF AtRow
  <2> QED
    BY <2>2, <2>3
<1>2. ASSUME NEW i \in 1..Len(ours), ours[i].op = "insert", AtRow(ours[i], t, j)
      PROVE  j \in OurInserts(t)
  <2>1. /\ input.base[t][j] = Absent /\ WellFormed(ours[i])
        /\ OursDb[t][j] = RowAfter(ours[i], input.base[t][j])
    BY <1>2, OursEntry DEF AtRow
  <2>2. OursDb[t][j] = ours[i].new /\ ours[i].new \in Row
    BY <1>2, <2>1 DEF RowAfter, WellFormed
  <2> QED
    BY <2>1, <2>2, AbsentAssumption DEF OurInserts
<1> QED
  BY <1>1, <1>2

\* Our inserts are all kept, under the keys of the merge and with our rows.
LEMMA InsertKept ==
    ASSUME Over, NEW i \in 1..Len(ours), ours[i].op = "insert"
    PROVE  LET e == ours[i] IN
           /\ ~Dropped(e) /\ Rebased(e).op = "insert" /\ Rebased(e).table = e.table
           /\ Rebased(e).pk = KeyInMerge(e.table, e.pk)
           /\ Rebased(e).new = OursDb[e.table][e.pk]
<1> DEFINE e == ours[i]
<1>1. Rebased(e).op = "insert" /\ Rebased(e).table = e.table /\ Rebased(e).pk = NewPK(e)
      /\ Rebased(e).new = e.new
  BY AtTheEnd, RebasedFields DEF Over
<1>2. OursDb[e.table][e.pk] = RowAfter(e, input.base[e.table][e.pk])
  BY OursEntry
<1>3. e.op = "insert"
  OBVIOUS
<1> HIDE DEF e
<1>4. ~Dropped(e)
  BY <1>3 DEF Dropped
<1>5. NewPK(e) = KeyInMerge(e.table, e.pk)
  BY DEF NewPK, KeyInMerge
<1>6. OursDb[e.table][e.pk] = e.new
  BY <1>2, <1>3 DEF RowAfter
<1> QED
  BY <1>1, <1>4, <1>5, <1>6 DEF e

\* The output is what the entries of ours are rebased to, dropped ones left out.
LEMMA OutputOfOurs ==
    ASSUME Over
    PROVE  /\ \A l \in 1..Len(output) : \E i \in 1..Len(ours) :
                ~Dropped(ours[i]) /\ output[l] = Rebased(ours[i])
           /\ \A i \in 1..Len(ours) :
                ~Dropped(ours[i]) => \E l \in 1..Len(output) : output[l] = Rebased(ours[i])
<1>1. /\ tableOrder \in Seq(Tables) /\ Len(tableOrder) \in Nat
      /\ OursKept /\ TablesNamed /\ OutputKept
      /\ OursPrepared = Len(ours) /\ TablesWritten = Len(tableOrder)
  BY AtTheEnd DEF TypeOK
<1>2. \A q \in 1..Len(tableOrder) : tableOrder[q] \in Tables
  BY <1>1
<1>3. ASSUME NEW l \in 1..Len(output)
      PROVE  \E i \in 1..Len(ours) : ~Dropped(ours[i]) /\ output[l] = Rebased(ours[i])
  <2>1. PICK q \in 1..Len(tableOrder) :
          \E m \in 1..Len(changes[tableOrder[q]]) : output[l] = changes[tableOrder[q]][m]
    BY <1>1 DEF OutputKept, OutputFromKept
  <2> DEFINE t == tableOrder[q]
  <2>2. PICK m \in 1..Len(changes[t]) : output[l] = changes[t][m]
    BY <2>1
  <2>3. t \in Tables
    BY <1>2
  <2> HIDE DEF t
  <2>4. PICK i \in 1..Len(ours) : MadeOf(changes[t][m], t, i)
    BY <1>1, <2>2, <2>3 DEF OursKept, KeptOfOurs
  <2> QED
    BY <2>2, <2>4 DEF MadeOf
<1>4. ASSUME NEW i \in 1..Len(ours), ~Dropped(ours[i])
      PROVE  \E l \in 1..Len(output) : output[l] = Rebased(ours[i])
  <2>1. PICK m \in 1..Len(changes[ours[i].table]) : changes[ours[i].table][m] = Rebased(ours[i])
    BY <1>1, <1>4 DEF OursKept, OursNotLost
  <2>2. PICK q \in 1..Len(tableOrder) : tableOrder[q] = ours[i].table
    BY <1>1 DEF TablesNamed
  <2>3. m \in 1..Len(changes[tableOrder[q]])
    BY <2>1, <2>2
  <2> QED
    BY <1>1, <2>1, <2>2, <2>3 DEF OutputKept, KeptInOutput
<1> QED
  BY <1>3, <1>4

\* A kept insert has room in THEIRS; any other kept entry finds its row there.
LEMMA KeptTakesEffect ==
    ASSUME Over, InsertsHaveRoom, NEW t \in Tables, NEW m \in 1..Len(changes[t])
    PROVE  /\ changes[t][m].table = t /\ TakesEffect(changes[t][m], TheirsDb)
           /\ changes[t][m].op # "insert" => TheirsDb[t][changes[t][m].pk] # Absent
<1> DEFINE x == changes[t][m]
<1>1. OursKept /\ OursPrepared = Len(ours) /\ changes \in [Tables -> Seq(Entry)]
  BY AtTheEnd DEF TypeOK
<1>2. PICK i \in 1..Len(ours) : ours[i].table = t /\ ~Dropped(ours[i]) /\ x = Rebased(ours[i])
  BY <1>1 DEF OursKept, KeptOfOurs, MadeOf
<1>3. /\ x.table = t /\ x.op = ours[i].op
      /\ ours[i].op # "insert" => x.pk = ours[i].pk
  BY <1>2, AtTheEnd, RebasedFields DEF Over
<1>4. m \in DOMAIN changes[t]
  BY <1>1
<1> HIDE DEF x
<1>5. CASE x.op = "insert"
  <2>1. m \in InsertsIn(t)
    BY <1>4, <1>5 DEF InsertsIn, x
  <2>2. x.pk \in Keys /\ TheirsDb[t][x.pk] = Absent
    BY <2>1 DEF InsertsHaveRoom, x
  <2>3. x.new \in Row \cup {Absent}
    BY <1>2, <1>3, <1>5, InsertKept, OursEntry
  <2>4. TakesEffect(x, TheirsDb)
    BY <1>3, <1>5, <2>2, <2>3 DEF TakesEffect, Effective, RowAfter
  <2> QED
    BY <1>3, <1>5, <2>4 DEF x
<1>6. CASE x.op # "insert"
  <2>1. /\ ours[i].pk \in Keys
        /\ ours[i].op \in {"update", "delete"}
    BY <1>3, <1>6, OursEntry DEF InputEntry, Operations
  <2>2. Effective(x, TheirsDb[t][x.pk])
    BY <1>2, <1>3, <1>6, KeptRow
  <2>3. TheirsDb[t][x.pk] # Absent
    BY <1>3, <2>1, <2>2 DEF Effective, Matches
  <2>4. RowAfter(x, TheirsDb[t][x.pk]) \in Row \cup {Absent}
    <3>1. RowAfter(x, TheirsDb[t][x.pk])
            = MergedRow(input.base[t][x.pk], TheirsDb[t][x.pk], OursDb[t][x.pk])
      BY <1>2, <1>3, <1>6, KeptRow
    <3>2. input.base[t][x.pk] # Absent /\ OursDb[t][x.pk] \in Row \cup {Absent}
      BY <1>2, <1>3, <1>6, OursEntry
    <3>3. input.base[t][x.pk] \in Row /\ TheirsDb[t][x.pk] \in Row \cup {Absent}
      BY <1>3, <1>6, <2>1, <3>2, TheirsRow
    <3> QED
      BY <3>1, <3>2, <3>3, MergedValues, MergedWithAbsent
  <2>5. TakesEffect(x, TheirsDb)
    BY <1>3, <1>6, <2>1, <2>2, <2>4 DEF TakesEffect
  <2> QED
    BY <1>3, <1>6, <2>3, <2>5 DEF x
<1> QED
  BY <1>5, <1>6

\* Hence every entry of the output would take effect on THEIRS.
LEMMA OutputTakesEffect ==
    ASSUME Over, InsertsHaveRoom
    PROVE  \A l \in 1..Len(output) : TakesEffect(output[l], TheirsDb)
<1> TAKE l \in 1..Len(output)
<1>1. /\ tableOrder \in Seq(Tables) /\ Len(tableOrder) \in Nat
      /\ OutputKept /\ TablesWritten = Len(tableOrder)
  BY AtTheEnd DEF TypeOK
<1>2. \A q \in 1..Len(tableOrder) : tableOrder[q] \in Tables
  BY <1>1
<1>3. PICK q \in 1..Len(tableOrder) :
        \E m \in 1..Len(changes[tableOrder[q]]) : output[l] = changes[tableOrder[q]][m]
  BY <1>1 DEF OutputKept, OutputFromKept
<1> DEFINE t == tableOrder[q]
<1>4. PICK m \in 1..Len(changes[t]) : output[l] = changes[t][m]
  BY <1>3
<1>5. t \in Tables
  BY <1>2
<1> HIDE DEF t
<1> QED
  BY <1>4, <1>5, KeptTakesEffect

\* No row of THEIRS has two entries in the output.
LEMMA OutputOfDistinctRows ==
    ASSUME Over, InsertsHaveRoom
    PROVE  \A l, r \in 1..Len(output) : SameRow(output[l], output[r]) => l = r
<1> SUFFICES ASSUME NEW l \in 1..Len(output), NEW r \in 1..Len(output),
                    SameRow(output[l], output[r]), l # r
             PROVE  FALSE
  OBVIOUS
<1> DEFINE t == output[l].table
<1>1. /\ OursKept /\ OutputKept /\ changes \in [Tables -> Seq(Entry)]
      /\ OursPrepared = Len(ours)
      /\ output[l].table = output[r].table /\ output[l].pk = output[r].pk
  BY AtTheEnd DEF TypeOK, SameRow
<1>2. TwoOfTable(output[l], output[r], t)
  BY <1>1 DEF OutputKept, KeptOnce
<1>3. t \in Tables
  BY OutputTakesEffect DEF TakesEffect
<1> HIDE DEF t
<1>4. PICK m \in 1..Len(changes[t]) : \E n \in 1..Len(changes[t]) :
        m # n /\ output[l] = changes[t][m] /\ output[r] = changes[t][n]
  BY <1>2 DEF TwoOfTable
<1>5. PICK n \in 1..Len(changes[t]) :
        m # n /\ output[l] = changes[t][m] /\ output[r] = changes[t][n]
  BY <1>4
<1>6. changes[t][m].pk = changes[t][n].pk /\ DOMAIN changes[t] = 1..Len(changes[t])
  BY <1>1, <1>3, <1>5
<1>7. \A p \in 1..Len(changes[t]) : changes[t][p].op = "insert" <=> p \in InsertsIn(t)
  BY <1>6 DEF InsertsIn
<1>8. CASE changes[t][m].op = "insert" /\ changes[t][n].op = "insert"
  BY <1>3, <1>5, <1>6, <1>7, <1>8 DEF InsertsHaveRoom
<1>9. CASE changes[t][m].op # "insert" /\ changes[t][n].op # "insert"
  <2>1. PICK i \in 1..Len(ours) : \E j \in 1..Len(ours) :
          i # j /\ MadeOf(changes[t][m], t, i) /\ MadeOf(changes[t][n], t, j)
    BY <1>1, <1>3, <1>5 DEF OursKept, KeptApart
  <2>2. PICK j \in 1..Len(ours) :
          i # j /\ MadeOf(changes[t][m], t, i) /\ MadeOf(changes[t][n], t, j)
    BY <2>1
  <2>3. changes[t][m].pk = ours[i].pk
    BY <1>9, <2>2, AtTheEnd, RebasedFields DEF Over, MadeOf
  <2>4. changes[t][n].pk = ours[j].pk
    BY <1>9, <2>2, AtTheEnd, RebasedFields DEF Over, MadeOf
  <2>5. DOMAIN ours = 1..Len(ours) /\ OneEntryPerRow(ours)
    BY AtTheEnd, InputType
  <2> QED
    BY <1>6, <2>2, <2>3, <2>4, <2>5 DEF OneEntryPerRow, MadeOf
<1>10. CASE changes[t][m].op = "insert" /\ changes[t][n].op # "insert"
  <2>1. TheirsDb[t][changes[t][m].pk] = Absent
    BY <1>3, <1>7, <1>10 DEF InsertsHaveRoom
  <2>2. TheirsDb[t][changes[t][n].pk] # Absent
    BY <1>3, <1>10, KeptTakesEffect
  <2> QED
    BY <1>6, <2>1, <2>2
<1>11. CASE changes[t][m].op # "insert" /\ changes[t][n].op = "insert"
  <2>1. TheirsDb[t][changes[t][n].pk] = Absent
    BY <1>3, <1>7, <1>11 DEF InsertsHaveRoom
  <2>2. TheirsDb[t][changes[t][m].pk] # Absent
    BY <1>3, <1>11, KeptTakesEffect
  <2> QED
    BY <1>6, <2>1, <2>2
<1> QED
  BY <1>8, <1>9, <1>10, <1>11

\* Where no insert of ours arrives and no other entry of ours has been kept, the
\* output leaves the row of THEIRS alone.
LEMMA NothingWritten ==
    ASSUME Over, NEW t \in Tables, NEW k \in Keys,
           ~\E j \in OurInserts(t) : KeyInMerge(t, j) = k,
           \A i \in 1..Len(ours) : AtRow(ours[i], t, k) => Dropped(ours[i]) \/ ours[i].op = "insert"
    PROVE  About(output, Len(output), t, k) = {}
<1> SUFFICES ASSUME NEW l \in 1..Len(output), output[l].table = t, output[l].pk = k
             PROVE  FALSE
  BY DEF About
<1>1. PICK i \in 1..Len(ours) : ~Dropped(ours[i]) /\ output[l] = Rebased(ours[i])
  BY OutputOfOurs
<1>2. ours[i].table = t /\ ours[i].pk \in Keys
  BY <1>1, AtTheEnd, RebasedFields, OursEntry DEF Over
<1>3. CASE ours[i].op = "insert"
  <2>1. ours[i].pk \in OurInserts(t)
    BY <1>2, <1>3, InsertsOfOurs DEF AtRow
  <2>2. KeyInMerge(t, ours[i].pk) = k
    BY <1>1, <1>2, <1>3, InsertKept
  <2> QED
    BY <2>1, <2>2
<1>4. CASE ours[i].op # "insert"
  <2>1. ours[i].pk = k
    BY <1>1, <1>4, AtTheEnd, RebasedFields DEF Over
  <2> QED
    BY <1>1, <1>2, <1>4, <2>1 DEF AtRow
<1> QED
  BY <1>3, <1>4

\* The row of the three-way merge at a key.
RowInMerge(t, k) ==
    IF \E j \in OurInserts(t) : KeyInMerge(t, j) = k
    THEN OursDb[t][CHOOSE j \in OurInserts(t) : KeyInMerge(t, j) = k]
    ELSE IF input.base[t][k] # Absent
    THEN MergedRow(input.base[t][k], TheirsDb[t][k], OursDb[t][k])
    ELSE TheirsDb[t][k]

\* Where the output leads to, row by row: a row we inserted, a row of BASE one of
\* our entries changed, or a row of THEIRS left alone.
LEMMA RowReached ==
    ASSUME Over, InsertsHaveRoom, NEW d, RowsAfter(output, TheirsDb, Len(output), d),
           NEW t \in Tables, NEW k \in Keys
    PROVE  d[t][k] = RowInMerge(t, k)
<1>1. /\ About(output, Len(output), t, k) = {} => d[t][k] = TheirsDb[t][k]
      /\ \A l \in 1..Len(output) : output[l].table = t /\ output[l].pk = k
            => d[t][k] = RowAfter(output[l], TheirsDb[t][k])
  BY DEF RowsAfter, About
<1>2. CASE \E j \in OurInserts(t) : KeyInMerge(t, j) = k
  <2> DEFINE j == CHOOSE j \in OurInserts(t) : KeyInMerge(t, j) = k
  <2>1. j \in OurInserts(t) /\ KeyInMerge(t, j) = k
    BY <1>2
  <2>2. RowInMerge(t, k) = OursDb[t][j]
    BY <1>2 DEF RowInMerge
  <2> HIDE DEF j
  <2>3. j \in Keys
    BY <2>1 DEF OurInserts
  <2>4. PICK i \in 1..Len(ours) : ours[i].op = "insert" /\ AtRow(ours[i], t, j)
    BY <2>1, <2>3, InsertsOfOurs
  <2>5. /\ ~Dropped(ours[i]) /\ Rebased(ours[i]).op = "insert"
        /\ Rebased(ours[i]).table = t /\ Rebased(ours[i]).pk = k
        /\ Rebased(ours[i]).new = OursDb[t][j]
    BY <2>1, <2>4, InsertKept DEF AtRow
  <2>6. PICK l \in 1..Len(output) : output[l] = Rebased(ours[i])
    BY <2>5, OutputOfOurs
  <2>7. d[t][k] = output[l].new
    BY <1>1, <2>5, <2>6 DEF RowAfter
  <2> QED
    BY <2>2, <2>5, <2>6, <2>7
<1>3. CASE ~\E j \in OurInserts(t) : KeyInMerge(t, j) = k
  <2>1. ASSUME NEW i \in 1..Len(ours), AtRow(ours[i], t, k), ours[i].op # "insert", ~Dropped(ours[i])
        PROVE  d[t][k] = RowInMerge(t, k)
    <3>1. PICK l \in 1..Len(output) : output[l] = Rebased(ours[i])
      BY <2>1, OutputOfOurs
    <3>2. output[l].table = t /\ output[l].pk = k
      BY <2>1, <3>1, AtTheEnd, RebasedFields DEF Over, AtRow
    <3>3. RowAfter(output[l], TheirsDb[t][k])
            = MergedRow(input.base[t][k], TheirsDb[t][k], OursDb[t][k])
      BY <2>1, <3>1, KeptRow DEF AtRow
    <3>4. input.base[t][k] # Absent
      BY <2>1, OursEntry DEF AtRow
    <3> QED
      BY <1>1, <1>3, <3>2, <3>3, <3>4 DEF RowInMerge
  <2>2. ASSUME \A i \in 1..Len(ours) :
                  AtRow(ours[i], t, k) => Dropped(ours[i]) \/ ours[i].op = "insert"
        PROVE  d[t][k] = RowInMerge(t, k)
    <3>1. d[t][k] = TheirsDb[t][k]
      BY <1>1, <1>3, <2>2, NothingWritten
    <3>2. CASE input.base[t][k] = Absent
      BY <1>3, <3>1, <3>2 DEF RowInMerge
    <3>3. CASE input.base[t][k] # Absent
      <4>1. MergedRow(input.base[t][k], TheirsDb[t][k], OursDb[t][k]) = TheirsDb[t][k]
        <5>1. CASE \A i \in 1..Len(ours) : ~AtRow(ours[i], t, k)
          BY <3>3, <5>1, UntouchedRow
        <5>2. ASSUME NEW i \in 1..Len(ours), AtRow(ours[i], t, k)
              PROVE  MergedRow(input.base[t][k], TheirsDb[t][k], OursDb[t][k]) = TheirsDb[t][k]
          <6>1. Dropped(ours[i])
            BY <2>2, <3>3, <5>2, OursEntry DEF AtRow
          <6> QED
            BY <5>2, <6>1, DroppedRow DEF AtRow
        <5> QED
          BY <5>1, <5>2
      <4> QED
        BY <1>3, <3>1, <3>3, <4>1 DEF RowInMerge
    <3> QED
      BY <3>2, <3>3
  <2> QED
    BY <2>1, <2>2
<1> QED
  BY <1>2, <1>3

\* A replay of distinct rows that would each take effect arrives there.
LEMMA OutputReplays ==
    ASSUME Over, InsertsHaveRoom
    PROVE  Replay(output, TheirsDb) = ThreeWayMerge /\ ThreeWayMerge \in Database
<1> DEFINE d == Replay(output, TheirsDb)
<1>1. output \in Seq(Entry) /\ Len(output) \in Nat /\ OneEntryPerRow(theirs)
  BY AtTheEnd DEF TypeOK
<1>2. /\ input.base \in Database /\ theirs \in Seq(InputEntry) /\ MadeFrom(input.base, theirs)
  BY Contract DEF Over
<1>3. TheirsDb \in Database
  BY <1>1, <1>2, MadeRows DEF TheirsDb
<1>4. RowsAfter(output, TheirsDb, Len(output), d)
  BY <1>1, <1>3, OutputTakesEffect, OutputOfDistinctRows, ReplayOfDistinctRows
<1> HIDE DEF d
<1>5. d \in Database
  BY <1>4 DEF RowsAfter
<1>6. \A t \in Tables, k \in Keys : d[t][k] = RowInMerge(t, k)
  BY <1>4, RowReached
<1>7. ThreeWayMerge = [t \in Tables |-> [k \in Keys |-> RowInMerge(t, k)]]
  BY DEF ThreeWayMerge, RowInMerge
<1>8. d = [t \in Tables |-> [k \in Keys |-> RowInMerge(t, k)]]
  <2>1. d = [t \in Tables |-> d[t]] /\ \A t \in Tables : d[t] = [k \in Keys |-> d[t][k]]
    BY <1>5 DEF Database
  <2>2. \A t \in Tables : d[t] = [k \in Keys |-> RowInMerge(t, k)]
    BY <1>6, <2>1
  <2> QED
    BY <2>1, <2>2
<1> QED
  BY <1>5, <1>7, <1>8 DEF d

LEMMA OverMerged == ASSUME Over PROVE OutputYieldsMerge
BY OutputReplays DEF OutputYieldsMerge

\* What the properties say of a finished call, in terms of the invariant.
LEMMA FinishedOver == IInv /\ MergeInv /\ FinishedRows => Over
BY DEF FinishedRows, Finished, Over, RowsCall

\* Whatever the two changesets made from BASE, and whatever the order of the map
\* loop, the file Rebase writes leads from THEIRS to the three-way merge, provided
\* the keys our inserts are given have room.
THEOREM MergeReached == Spec => []OutputYieldsMerge
<1>1. IInv /\ MergeInv => OutputYieldsMerge
  BY FinishedOver, OverMerged DEF OutputYieldsMerge
<1> QED
  BY <1>1, MergeInvariance, PTL

-----------------------------------------------------------------------------
(* Updates of ours, column by column *)

\* What an update of ours does to a column it sets.
LEMMA UpdatedColumn ==
    ASSUME Over, NEW i \in 1..Len(ours), ours[i].op = "update",
           NEW c \in Cols, ours[i].new[c] # Undefined
    PROVE  LET e == ours[i] IN
           /\ e.old[c] = input.base[e.table][e.pk][c]
           /\ e.new[c] # input.base[e.table][e.pk][c]
           /\ OursDb[e.table][e.pk][c] = e.new[c]
<1> DEFINE e == ours[i]
           b == input.base[e.table][e.pk]
<1>1. /\ e \in InputEntry /\ WellFormed(e) /\ OursDb[e.table][e.pk] = RowAfter(e, b)
  BY OursEntry
<1>2. Matches(e, b) /\ e.op = "update" /\ e.new[c] # Undefined
  BY PatchedRow
<1> HIDE DEF e, b
<1>3. e.old[c] # Undefined /\ e.old[c] # e.new[c]
  BY <1>1, <1>2 DEF WellFormed
<1>4. e.old[c] = b[c]
  BY <1>2, <1>3 DEF Matches
<1>5. RowAfter(e, b)[c] = e.new[c]
  BY <1>2 DEF RowAfter, Overlay
<1> QED
  BY <1>1, <1>3, <1>4, <1>5 DEF e, b

\* An update of ours, column by column: theirs deleted the row, left the column, or
\* set it.
LEMMA OverLossless == ASSUME Over PROVE NoEditSilentlyLost
<1> SUFFICES ASSUME NEW i \in DOMAIN ours, NEW c \in Cols,
                    ours[i].op = "update", ours[i].new[c] # Undefined,
                    <<ours[i].table, c>> \notin TimestampCols
             PROVE  LET e == ours[i] IN
                    Written(e, c) \/ TheirsValue(e, c) = e.new[c] \/ Reported(e, c)
  BY DEF NoEditSilentlyLost
<1> DEFINE e == ours[i]
           b == input.base[e.table][e.pk]
           T == TheirsDb[e.table][e.pk]
           P == Patched(e)
<1>1. /\ TypeOK /\ DOMAIN ours = 1..Len(ours) /\ i \in 1..Len(ours)
      /\ ConflictsKnown /\ OursPrepared = Len(ours)
      /\ output \in Seq(Entry)
  BY AtTheEnd, InputType DEF TypeOK
<1>2. /\ b \in Row
      /\ NewPK(e) = InvalidFID <=> T = Absent
      /\ NewPK(e) # InvalidFID =>
            /\ NewPK(e) = e.pk /\ T = Overlay(P, b) /\ P \in EntryValues
            /\ e.table \notin touched => P = Blank
  BY <1>1, PatchedRow
<1>3. e.old[c] = b[c] /\ e.new[c] # Undefined /\ e.op = "update"
      /\ <<e.table, c>> \notin TimestampCols
  BY <1>1, UpdatedColumn
<1>4. e \in InputEntry
  BY <1>1, OursEntry
<1>5. e.table \notin touched => NewPK(e) # InvalidFID
  <2>1. e.table \notin touched => NewPK(e) = e.pk
    BY <1>1, AtTheEnd, NewKey DEF Over
  <2> QED
    BY <1>4, <2>1, KeysAssumption DEF InputEntry, InvalidFID
\* a conflict with such an item is reported
<1>6. ASSUME e.table \in touched,
             [col |-> c, base |-> e.old[c], theirs |-> TheirsValue(e, c), ours |-> e.new[c]]
                \in ItemsOf(e)
      PROVE  Reported(e, c)
  <2>1. Reports(e)
    BY <1>3, <1>6 DEF Reports
  <2>2. ConflictOf(e) \in conflicts
    BY <1>1, <2>1 DEF ConflictsKnown
  <2>3. ConflictOf(e).table = e.table /\ ConflictOf(e).pk = e.pk /\ ConflictOf(e).items = ItemsOf(e)
    BY DEF ConflictOf
  <2>4. [col |-> c, base |-> b[c], theirs |-> TheirsValue(e, c), ours |-> e.new[c]]
            \in ConflictOf(e).items
    BY <1>3, <1>6, <2>3
  <2> HIDE DEF e
  <2> QED
    BY <2>2, <2>3, <2>4 DEF Reported, b
<1>7. CASE NewPK(e) = InvalidFID
  <2>1. e.table \in touched /\ TheirsValue(e, c) = Undefined
    BY <1>2, <1>5, <1>7 DEF TheirsValue
  <2>2. Blank[c] = Undefined
    BY DEF Blank
  <2> HIDE DEF e
  <2>3. [col |-> c, base |-> e.old[c], theirs |-> Blank[c], ours |-> e.new[c]] \in ItemsOf(e)
    BY <1>3, <1>7 DEF ItemsOf, ConflictItems
  <2> QED
    BY <1>6, <2>1, <2>2, <2>3 DEF e
<1>8. CASE NewPK(e) # InvalidFID /\ P[c] = Undefined
  <2>1. /\ e.table \in touched => Rebased(e) = RebasedUpdate(e)
        /\ e.table \notin touched => Rebased(e) = e
    BY <1>3 DEF Rebased
  <2>2. RebasedUpdate(e).new[c] = e.new[c]
    BY <1>4, <1>8 DEF RebasedUpdate, InputEntry
  <2>3. RebasedUpdate(e).new # Blank
    BY <1>3, <2>2 DEF Blank
  <2>4. ~Dropped(e)
    BY <1>8, <2>3 DEF Dropped
  <2>5. PICK l \in 1..Len(output) : output[l] = Rebased(e)
    BY <1>1, <2>4, OutputOfOurs
  <2>6. Rebased(e).op = "update" /\ Rebased(e).table = e.table /\ Rebased(e).pk = e.pk
    BY <1>1, <1>2, <1>3, <1>8, AtTheEnd, RebasedFields DEF Over
  <2>7. Rebased(e).new[c] = e.new[c]
    BY <2>1, <2>2
  <2>8. l \in DOMAIN output
    BY <1>1
  <2> HIDE DEF e
  <2>9. Written(e, c)
    BY <2>5, <2>6, <2>7, <2>8 DEF Written
  <2> QED
    BY <2>9 DEF e
<1>9. CASE NewPK(e) # InvalidFID /\ P[c] # Undefined
  <2>1. T # Absent /\ T = Overlay(P, b)
    BY <1>2, <1>9
  <2>2. TheirsValue(e, c) = P[c]
    BY <1>2, <1>9, <2>1, OverlayRow DEF TheirsValue
  <2>3. e.table \in touched
    BY <1>2, <1>9 DEF Blank
  <2>4. CASE P[c] # e.new[c]
    <3> HIDE DEF e
    <3>1. c \in ContestedCols(e)
      BY <1>3, <1>9, <2>4 DEF ContestedCols, P
    <3>2. [col |-> c, base |-> e.old[c], theirs |-> P[c], ours |-> e.new[c]] \in ItemsOf(e)
      BY <1>3, <1>9, <3>1 DEF ItemsOf, ConflictItems, P
    <3> QED
      BY <1>6, <2>2, <2>3, <3>2 DEF e
  <2> QED
    BY <2>2, <2>4
<1> QED
  BY <1>7, <1>8, <1>9

\* Every reported item is of a column our update set and theirs set otherwise.
LEMMA OverGenuine == ASSUME Over PROVE ConflictsAreGenuine
<1> SUFFICES ASSUME NEW cf \in conflicts, NEW item \in cf.items
             PROVE  LET was == input.base[cf.table][cf.pk][item.col]
                        now == TheirsDb[cf.table][cf.pk]
                    IN  /\ OursDb[cf.table][cf.pk][item.col] = item.ours
                        /\ item.ours # was
                        /\ now # Absent => now[item.col] \notin {was, item.ours}
                        /\ <<cf.table, item.col>> \notin TimestampCols
  BY DEF ConflictsAreGenuine
<1>1. ConflictsKnown /\ OursPrepared = Len(ours)
  BY AtTheEnd
<1>2. PICK i \in 1..Len(ours) : Reports(ours[i]) /\ cf = ConflictOf(ours[i])
  BY <1>1 DEF ConflictsKnown
<1> DEFINE e == ours[i]
           b == input.base[e.table][e.pk]
           T == TheirsDb[e.table][e.pk]
           P == Patched(e)
           c == item.col
<1>3. e.op = "update" /\ cf.table = e.table /\ cf.pk = e.pk /\ item \in ItemsOf(e)
  BY <1>2 DEF Reports, ConflictOf
<1>4. /\ b \in Row
      /\ NewPK(e) = InvalidFID <=> T = Absent
      /\ NewPK(e) # InvalidFID =>
            /\ T = Overlay(P, b) /\ P \in EntryValues
            /\ \A d \in Cols : P[d] # Undefined => P[d] # b[d]
  BY <1>3, PatchedRow
<1> HIDE DEF e, b, T, P
<1>5. /\ c \in Cols /\ <<e.table, c>> \notin TimestampCols /\ item.ours = e.new[c]
      /\ e.new[c] # Undefined
      /\ NewPK(e) # InvalidFID => P[c] # Undefined /\ P[c] # e.new[c]
  <2>1. CASE NewPK(e) = InvalidFID
    <3>1. PICK d \in {x \in Cols : e.new[x] # Undefined} :
            /\ <<e.table, d>> \notin TimestampCols
            /\ item = [col |-> d, base |-> e.old[d], theirs |-> Blank[d], ours |-> e.new[d]]
      BY <1>3, <2>1 DEF ItemsOf, ConflictItems
    <3> QED
      BY <2>1, <3>1
  <2>2. CASE NewPK(e) # InvalidFID
    <3>1. PICK d \in ContestedCols(e) :
            /\ <<e.table, d>> \notin TimestampCols
            /\ item = [col |-> d, base |-> e.old[d], theirs |-> P[d], ours |-> e.new[d]]
      BY <1>3, <2>2 DEF ItemsOf, ConflictItems, P
    <3>2. d \in Cols /\ P[d] # Undefined /\ e.new[d] # Undefined /\ P[d] # e.new[d]
      BY DEF ContestedCols, P
    <3> QED
      BY <3>1, <3>2
  <2> QED
    BY <2>1, <2>2
<1> HIDE DEF c
<1>6. e.new[c] # b[c] /\ OursDb[e.table][e.pk][c] = e.new[c]
  BY <1>3, <1>5, UpdatedColumn DEF e, b
<1>7. T # Absent => T[c] = P[c] /\ P[c] # b[c] /\ P[c] # e.new[c]
  BY <1>4, <1>5, OverlayRow
<1> QED
  BY <1>3, <1>5, <1>6, <1>7 DEF b, T, c

\* handleUpdate loses no edit of a column silently: it is written, made by theirs
\* too, reported with the right values, or the gpkg_contents timestamp.
THEOREM EditsKept == Spec => []NoEditSilentlyLost
<1>1. IInv /\ MergeInv => NoEditSilentlyLost
  BY FinishedOver, OverLossless DEF NoEditSilentlyLost
<1> QED
  BY <1>1, MergeInvariance, PTL

\* addConflictItem is only reached for columns both sides changed, to different
\* values, or that we changed in a row theirs deleted.
THEOREM GenuineConflicts == Spec => []ConflictsAreGenuine
<1>1. IInv /\ MergeInv => ConflictsAreGenuine
  BY FinishedOver, OverGenuine DEF ConflictsAreGenuine
<1> QED
  BY <1>1, MergeInvariance, PTL

-----------------------------------------------------------------------------
(* When theirs insert nothing *)

\* Our inserts keep their keys.
LEMMA InsertsKeepKeys ==
    ASSUME Over, TheirsInsertNothing, NEW i \in 1..Len(ours), ours[i].op = "insert"
    PROVE  KeyInMerge(ours[i].table, ours[i].pk) = ours[i].pk
<1> DEFINE t == ours[i].table
           k == ours[i].pk
<1>1. /\ OursMapped /\ OneEntryPerRow(ours) /\ OursScanned = Len(ours)
      /\ DOMAIN ours = 1..Len(ours)
  BY AtTheEnd, InputType DEF Over, IInv
<1>2. t \in Tables /\ k \in Keys
  BY OursEntry
<1>3. NoneNumbered(t)
  BY <1>2 DEF Over, MergeInv, NumberedForTheirs
<1> HIDE DEF t, k
<1>4. ASSUME k \in DOMAIN mapIds[t] PROVE FALSE
  <2>1. mapIds[t][k] = InvalidFID
    BY <1>3, <1>4 DEF NoneNumbered
  <2>2. PICK j \in 1..Len(ours) : Explains(ours[j], t, k, InvalidFID)
    BY <1>1, <1>2, <1>4, <2>1 DEF OursMapped
  <2>3. AtRow(ours[j], t, k) /\ ours[j].op # "insert"
    BY <2>2 DEF Explains
  <2>4. j = i
    BY <1>1, <2>3 DEF OneEntryPerRow, AtRow, t, k
  <2> QED
    BY <2>3, <2>4
<1> QED
  BY <1>4 DEF KeyInMerge, t, k

\* The rows BASE has not THEIRS has not.
LEMMA NothingNewInTheirs ==
    ASSUME Over, TheirsInsertNothing,
           NEW t \in Tables, NEW k \in Keys, input.base[t][k] = Absent
    PROVE  TheirsDb[t][k] = Absent
<1>1. /\ OneEntryPerRow(theirs)
      /\ input.base \in Database /\ theirs \in Seq(InputEntry) /\ MadeFrom(input.base, theirs)
  BY AtTheEnd, Contract DEF Over
<1>2. \A i \in 1..Len(theirs) : ~AtRow(theirs[i], t, k)
  <2> SUFFICES ASSUME NEW i \in 1..Len(theirs), AtRow(theirs[i], t, k) PROVE FALSE
    OBVIOUS
  <2>1. theirs[i] \in InputEntry /\ Effective(theirs[i], Absent)
    BY <1>1, MadeRows
  <2>2. theirs[i].op \in {"update", "delete"}
    BY <2>1 DEF TheirsInsertNothing, InputEntry, Operations
  <2> QED
    BY <2>1, <2>2 DEF Effective, Matches
<1> QED
  BY <1>1, <1>2, MadeRows DEF TheirsDb

\* InsertsHaveRoom, which the code does not provide for in general, holds of every call
\* in which theirs inserted no row, for whatever order the maps are traversed in.
THEOREM RoomWithoutInserts == ASSUME Over, TheirsInsertNothing PROVE InsertsHaveRoom
<1>1. /\ OursKept /\ OursPrepared = Len(ours) /\ changes \in [Tables -> Seq(Entry)]
      /\ OneEntryPerRow(ours) /\ DOMAIN ours = 1..Len(ours)
  BY AtTheEnd, InputType DEF TypeOK, Over, IInv
<1>2. ASSUME NEW t \in Tables, NEW i \in 1..Len(ours), NEW y, MadeOf(y, t, i), y.op = "insert"
      PROVE  ours[i].op = "insert" /\ ours[i].table = t /\ y.pk = ours[i].pk
  <2>1. ours[i].table = t /\ y = Rebased(ours[i])
    BY <1>2 DEF MadeOf
  <2>2. ours[i].op = "insert"
    BY <1>2, <2>1, AtTheEnd, RebasedFields DEF Over
  <2> QED
    BY <2>1, <2>2, InsertKept, InsertsKeepKeys
<1>3. ASSUME NEW t \in Tables, NEW m \in InsertsIn(t)
      PROVE  changes[t][m].pk \in Keys /\ TheirsDb[t][changes[t][m].pk] = Absent
  <2>1. m \in 1..Len(changes[t]) /\ changes[t][m].op = "insert"
    BY <1>1 DEF InsertsIn
  <2>2. PICK i \in 1..Len(ours) : MadeOf(changes[t][m], t, i)
    BY <1>1, <2>1 DEF OursKept, KeptOfOurs
  <2>3. ours[i].op = "insert" /\ ours[i].table = t /\ changes[t][m].pk = ours[i].pk
    BY <1>2, <2>1, <2>2
  <2>4. ours[i].pk \in Keys /\ input.base[t][ours[i].pk] = Absent
    BY <2>3, OursEntry
  <2> QED
    BY <2>3, <2>4, NothingNewInTheirs
<1>4. ASSUME NEW t \in Tables, NEW m \in InsertsIn(t), NEW n \in InsertsIn(t),
             changes[t][m].pk = changes[t][n].pk, m # n
      PROVE  FALSE
  <2>1. /\ m \in 1..Len(changes[t]) /\ changes[t][m].op = "insert"
        /\ n \in 1..Len(changes[t]) /\ changes[t][n].op = "insert"
    BY <1>1 DEF InsertsIn
  <2>2. PICK i \in 1..Len(ours) : \E j \in 1..Len(ours) :
          i # j /\ MadeOf(changes[t][m], t, i) /\ MadeOf(changes[t][n], t, j)
    BY <1>1, <1>4, <2>1 DEF OursKept, KeptApart
  <2>3. PICK j \in 1..Len(ours) :
          i # j /\ MadeOf(changes[t][m], t, i) /\ MadeOf(changes[t][n], t, j)
    BY <2>2
  <2>4. ours[i].table = t /\ changes[t][m].pk = ours[i].pk
    BY <1>2, <2>1, <2>3
  <2>5. ours[j].table = t /\ changes[t][n].pk = ours[j].pk
    BY <1>2, <2>1, <2>3
  <2> QED
    BY <1>1, <1>4, <2>3, <2>4, <2>5 DEF OneEntryPerRow
<1> QED
  BY <1>3, <1>4 DEF InsertsHaveRoom

-----------------------------------------------------------------------------
(* Where the arguments come from *)

\* What CreateChangeset makes of BASE and of any other version meets the
\* contract Rebase asks of its arguments, and has one entry per row: the
\* theorems above are about every call that makes both changesets from BASE
\* first, as geodiff.Rebase does.
THEOREM CreatedMeetsContract ==
    ASSUME NEW base \in Database, NEW is \in Database
    PROVE  /\ CreateChangeset(base, is) \in Seq(InputEntry)
           /\ MadeFrom(base, CreateChangeset(base, is))
           /\ OneEntryPerRow(CreateChangeset(base, is))
<1> DEFINE log == CreateChangeset(base, is)
<1>1. /\ log \in Seq(Entry)
      /\ \A i \in 1..Len(log) : WellFormed(log[i]) /\ TakesEffect(log[i], base)
      /\ \A i, j \in 1..Len(log) : SameRow(log[i], log[j]) => i = j
      /\ Replay(log, base) = is
  BY ChangesetReplays
<1>2. \A i \in 1..Len(log) : log[i].pk \in Keys
  BY <1>1 DEF TakesEffect
<1> HIDE DEF log
<1>3. DOMAIN log = 1..Len(log) /\ Len(log) \in Nat /\ \A i \in 1..Len(log) : log[i] \in Entry
  BY <1>1
<1>4. ASSUME NEW i \in 1..Len(log) PROVE log[i] \in InputEntry
  BY <1>1, <1>2, <1>3 DEF InputEntry, Entry, WellFormed
<1>5. log \in Seq(InputEntry)
  BY <1>1, <1>3, <1>4
<1>6. is # Absent
  BY AbsentAssumption
<1> QED
  BY <1>1, <1>3, <1>5, <1>6 DEF MadeFrom, OneEntryPerRow, SameRow, log
=============================================================================
