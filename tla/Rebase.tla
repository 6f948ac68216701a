------------------------------- MODULE Rebase -------------------------------
(***************************************************************************)
(* driver.Rebase: given the changesets BASE->THEIRS and BASE->OURS, write  *)
(* the changeset THEIRS->MERGED.                                           *)
(*                                                                         *)
(* theirs is read once (parseOldChangeset), ours twice: once to decide     *)
(* which of our keys must be renumbered (findMappingForNewChangeset, which *)
(* ends with a loop over a Go map, in no fixed order) and, after a rewind, *)
(* once to write our changes as changes of THEIRS (prepareNewChangeset).   *)
(*                                                                         *)
(* Changesets may hold several entries of one row, as those ConcatChanges  *)
(* appends do.                                                             *)
(***************************************************************************)
EXTENDS Changeset

CONSTANTS
    Inputs,        \* the calls: a base and the two changesets made from it
    TimestampCols  \* <<table, column>>: column 4 of gpkg_contents

\* An update sets a column: CreateChangeset, the concatenation and Rebase itself
\* write no other.
InputEntry == {e \in [op : Operations, table : Tables, pk : Keys,
                      old : EntryValues, new : EntryValues] :
                  e.op = "update" => e.new # Blank}

Input == [base : Database, theirs : Seq(InputEntry), ours : Seq(InputEntry)]

ASSUME InputsAssumption == Inputs \subseteq Input

\* The contract: both changesets were made from BASE.
MadeFrom(base, log) == Replay(log, base) # Absent /\ \A i \in DOMAIN log : WellFormed(log[i])

ASSUME ContractAssumption ==
    \A i \in Inputs : MadeFrom(i.base, i.theirs) /\ MadeFrom(i.base, i.ours)

VARIABLES
    phase,       \* where Rebase is
    input,       \* the arguments of the call
    pos,         \* entries the open reader has returned so far
    touched,     \* tables of databaseRebaseInfo
    inserted,    \* tableRebaseInfo, per table: keys theirs inserted,
    deleted,     \*   keys theirs deleted,
    updated,     \*   the new values of theirs' last update of a key
    mapIds,      \* rebaseMapping.mapIds: per table, old key -> new key
    unmapped,    \* rebaseMapping.unmappedInsertIds not visited yet
    freeIndex,   \* freeIndices, NoIndex when the table has none
    changes,     \* tableChanges: the entries kept, per table
    tableOrder,  \* tables in the order ours names them
    conflicts,   \* the ConflictFeatures returned
    output       \* the file THEIRS->MERGED

theirsInfo == <<touched, inserted, deleted, updated>>
mapping == <<mapIds, unmapped, freeIndex>>
result == <<changes, tableOrder, conflicts, output>>
vars == <<phase, input, pos, theirsInfo, mapping, result>>

InvalidFID == -1
NoIndex == 0

Phases == {"open", "parse", "scan", "finalize", "prepare", "write", "done", "error"}

Conflict ==
    [pk : Keys, table : Tables,
     items : SUBSET [col : Cols, base : Vals \cup {Undefined},
                     theirs : Vals \cup {Undefined}, ours : Vals]]

theirs == input.theirs
ours == input.ours

-----------------------------------------------------------------------------
\* What Rebase and its structures hold before a file is open.
Fresh ==
    /\ phase = "open"
    /\ pos = 0
    /\ touched = {}
    /\ inserted = [t \in Tables |-> {}]
    /\ deleted = [t \in Tables |-> {}]
    /\ updated = [t \in Tables |-> [k \in Keys |-> Blank]]
    /\ mapIds = [t \in Tables |-> <<>>]
    /\ unmapped = [t \in Tables |-> {}]
    /\ freeIndex = [t \in Tables |-> NoIndex]
    /\ changes = [t \in Tables |-> <<>>]
    /\ tableOrder = <<>>
    /\ conflicts = {}
    /\ output = <<>>

Init == input \in Inputs /\ Fresh

\* An empty changeset on either side: the other one is copied.
CopyOurs ==
    /\ phase = "open" /\ theirs = <<>>
    /\ output' = ours
    /\ phase' = "done"
    /\ UNCHANGED <<input, pos, theirsInfo, mapping, changes, tableOrder, conflicts>>

CopyTheirs ==
    /\ phase = "open" /\ theirs # <<>> /\ ours = <<>>
    /\ output' = theirs
    /\ phase' = "done"
    /\ UNCHANGED <<input, pos, theirsInfo, mapping, changes, tableOrder, conflicts>>

StartParse ==
    /\ phase = "open" /\ theirs # <<>> /\ ours # <<>>
    /\ phase' = "parse"
    /\ UNCHANGED <<input, pos, theirsInfo, mapping, result>>

-----------------------------------------------------------------------------
(* Step 1: parseOldChangeset *)

RecordInserted(e) == [inserted EXCEPT ![e.table] = @ \cup {e.pk}]
RecordDeleted(e) == [deleted EXCEPT ![e.table] = @ \cup {e.pk}]
RecordUpdated(e) == [updated EXCEPT ![e.table][e.pk] = e.new]

ParseEntry ==
    /\ phase = "parse" /\ pos < Len(theirs)
    /\ pos' = pos + 1
    /\ LET e == theirs[pos + 1] IN
       /\ touched' = touched \cup {e.table}
       /\ inserted' = IF e.op = "insert" THEN RecordInserted(e) ELSE inserted
       /\ deleted' = IF e.op = "delete" THEN RecordDeleted(e) ELSE deleted
       /\ updated' = IF e.op = "update" THEN RecordUpdated(e) ELSE updated
    /\ UNCHANGED <<phase, input, mapping, result>>

\* Fault: the largest key theirs inserted, not the one above it.
FirstFreeOffByOne(S) == IF S = {} THEN NoIndex ELSE Max(S \cup {0})

\* The first index findMappingForNewChangeset takes for free: one above every
\* key theirs inserted, the scan for the maximum starting at 0.
FirstFree(S) == IF S = {} THEN NoIndex ELSE Max(S \cup {0}) + 1

StartScan ==
    /\ phase = "parse" /\ pos = Len(theirs)
    /\ phase' = "scan"
    /\ pos' = 0
    /\ freeIndex' = [t \in Tables |-> FirstFree(inserted[t])]
    /\ UNCHANGED <<input, theirsInfo, mapIds, unmapped, result>>

-----------------------------------------------------------------------------
(* Step 2: findMappingForNewChangeset *)

\* addPkeyMapping
WithMapping(t, oldPK, newPK) ==
    [mapIds EXCEPT ![t] =
        [k \in DOMAIN mapIds[t] \cup {oldPK} |->
            IF k = oldPK THEN newPK ELSE mapIds[t][k]]]

\* Fault: freeIdx++ is forgotten.
RenumberSame(t, k) ==
    IF freeIndex[t] = NoIndex
    THEN phase' = "error" /\ UNCHANGED <<mapIds, freeIndex>>
    ELSE mapIds' = WithMapping(t, k, freeIndex[t]) /\ UNCHANGED <<phase, freeIndex>>

\* Without a free index both loops return an internal error.
Renumber(t, k) ==
    IF freeIndex[t] = NoIndex
    THEN phase' = "error" /\ UNCHANGED <<mapIds, freeIndex>>
    ELSE /\ mapIds' = WithMapping(t, k, freeIndex[t])
         /\ freeIndex' = [freeIndex EXCEPT ![t] = @ + 1]
         /\ UNCHANGED phase

ScanInsert(e) ==
    /\ e.op = "insert"
    /\ \/ /\ e.pk \in inserted[e.table]
          /\ Renumber(e.table, e.pk)
          /\ UNCHANGED unmapped
       \/ /\ e.pk \notin inserted[e.table]
          /\ unmapped' = [unmapped EXCEPT ![e.table] = @ \cup {e.pk}]
          /\ UNCHANGED <<phase, mapIds, freeIndex>>

ScanUpdateOrDelete(e) ==
    /\ e.op \in {"update", "delete"}
    /\ mapIds' = IF e.pk \in deleted[e.table]
                 THEN WithMapping(e.table, e.pk, InvalidFID)
                 ELSE mapIds
    /\ UNCHANGED <<phase, unmapped, freeIndex>>

ScanEntry ==
    /\ phase = "scan" /\ pos < Len(ours)
    /\ pos' = pos + 1
    /\ LET e == ours[pos + 1] IN
       \/ /\ e.table \notin touched
          /\ UNCHANGED <<phase, mapping>>
       \/ /\ e.table \in touched
          /\ ScanInsert(e) \/ ScanUpdateOrDelete(e)
    /\ UNCHANGED <<input, theirsInfo, result>>

StartFinalize ==
    /\ phase = "scan" /\ pos = Len(ours)
    /\ phase' = "finalize"
    /\ UNCHANGED <<input, pos, theirsInfo, mapping, result>>

\* Fault: the keys of the map are collected, not its values.
UsedOldPKs(t) == DOMAIN mapIds[t]

\* usedNewPKs
UsedNewPKs(t) == {mapIds[t][k] : k \in DOMAIN mapIds[t]} \ {InvalidFID}

\* One turn of `for pk := range unmappedSet`: any key not visited yet.
FinalizeKey(t, k) ==
    /\ phase = "finalize" /\ k \in unmapped[t]
    /\ unmapped' = [unmapped EXCEPT ![t] = @ \ {k}]
    /\ \/ /\ k \notin UsedNewPKs(t)
          /\ UNCHANGED <<phase, mapIds, freeIndex>>
       \/ k \in UsedNewPKs(t) /\ Renumber(t, k)
    /\ UNCHANGED <<input, pos, theirsInfo, result>>

\* Rewind
StartPrepare ==
    /\ phase = "finalize" /\ \A t \in Tables : unmapped[t] = {}
    /\ phase' = "prepare"
    /\ pos' = 0
    /\ UNCHANGED <<input, theirsInfo, mapping, result>>

-----------------------------------------------------------------------------
(* Step 3: prepareNewChangeset and its handlers *)

\* hasOldPkey, getNewPkey
NewPK(e) == IF e.pk \in DOMAIN mapIds[e.table] THEN mapIds[e.table][e.pk] ELSE e.pk

\* Fault: theirs' update of the old number is taken for a renumbered row.
PatchedAlways(e) == updated[e.table][e.pk]

\* The columns theirs set in the row the entry is about. A renumbered key is
\* our own row: theirs' row of the old number is another one.
Patched(e) == IF NewPK(e) # e.pk THEN Blank ELSE updated[e.table][e.pk]

ConflictItems(e, cols, patched) ==
    {[col |-> c, base |-> e.old[c], theirs |-> patched[c], ours |-> e.new[c]] :
        c \in {d \in cols : <<e.table, d>> \notin TimestampCols}}

\* A ConflictFeature without items is not reported.
AddConflict(e, items) ==
    conflicts' = IF items = {} THEN conflicts
                 ELSE conflicts \cup {[pk |-> e.pk, table |-> e.table, items |-> items]}

Keep(e) == changes' = [changes EXCEPT ![e.table] = Append(@, e)]

HandleInsert(e) ==
    /\ Keep([e EXCEPT !.pk = NewPK(e)])
    /\ UNCHANGED conflicts

\* Fault: the old values are those of BASE.
RebasedDeleteOfBase(e) == [e EXCEPT !.pk = NewPK(e)]

RebasedDelete(e) ==
    [e EXCEPT !.pk = NewPK(e), !.old = Overlay(Patched(e), e.old)]

HandleDelete(e) ==
    /\ IF NewPK(e) = InvalidFID THEN UNCHANGED changes ELSE Keep(RebasedDelete(e))
    /\ UNCHANGED conflicts

\* Our new values in the columns theirs left alone.
RebasedUpdate(e) ==
    LET untouched(values) ==
            [c \in Cols |-> IF Patched(e)[c] = Undefined THEN values[c] ELSE Undefined]
    IN  [e EXCEPT !.pk = NewPK(e), !.old = untouched(e.old), !.new = untouched(e.new)]

\* Fault: columns we did not change count.
ContestedByTheirs(e) == {c \in Cols : Patched(e)[c] # Undefined /\ Patched(e)[c] # e.new[c]}

\* Fault: the same edit on both sides counts.
ContestedEvenIfSame(e) == {c \in Cols : Patched(e)[c] # Undefined /\ e.new[c] # Undefined}

ContestedCols(e) ==
    {c \in Cols : /\ Patched(e)[c] # Undefined
                  /\ e.new[c] # Undefined
                  /\ Patched(e)[c] # e.new[c]}

\* Fault: an update of a row theirs deleted is dropped without a conflict.
HandleUpdateQuietly(e) ==
    IF NewPK(e) = InvalidFID
    THEN UNCHANGED <<changes, conflicts>>
    ELSE /\ AddConflict(e, ConflictItems(e, ContestedCols(e), Patched(e)))
         /\ IF RebasedUpdate(e).new = Blank THEN UNCHANGED changes ELSE Keep(RebasedUpdate(e))

HandleUpdate(e) ==
    \/ /\ NewPK(e) = InvalidFID
       /\ AddConflict(e, ConflictItems(e, {c \in Cols : e.new[c] # Undefined}, Blank))
       /\ UNCHANGED changes
    \/ /\ NewPK(e) # InvalidFID
       /\ AddConflict(e, ConflictItems(e, ContestedCols(e), Patched(e)))
       /\ IF RebasedUpdate(e).new = Blank THEN UNCHANGED changes ELSE Keep(RebasedUpdate(e))

PrepareEntry ==
    /\ phase = "prepare" /\ pos < Len(ours)
    /\ pos' = pos + 1
    /\ LET e == ours[pos + 1] IN
       /\ tableOrder' = IF Contains(tableOrder, e.table) THEN tableOrder
                        ELSE Append(tableOrder, e.table)
       /\ \/ e.table \notin touched /\ Keep(e) /\ UNCHANGED conflicts
          \/ e.table \in touched /\ e.op = "insert" /\ HandleInsert(e)
          \/ e.table \in touched /\ e.op = "delete" /\ HandleDelete(e)
          \/ e.table \in touched /\ e.op = "update" /\ HandleUpdate(e)
    /\ UNCHANGED <<phase, input, theirsInfo, mapping, output>>

StartWrite ==
    /\ phase = "prepare" /\ pos = Len(ours)
    /\ phase' = "write"
    /\ pos' = 0
    /\ UNCHANGED <<input, theirsInfo, mapping, result>>

\* The entries of one table, in the order of tableOrder.
WriteTable ==
    /\ phase = "write" /\ pos < Len(tableOrder)
    /\ pos' = pos + 1
    /\ output' = output \o changes[tableOrder[pos + 1]]
    /\ UNCHANGED <<phase, input, theirsInfo, mapping, changes, tableOrder, conflicts>>

CloseOutput ==
    /\ phase = "write" /\ pos = Len(tableOrder)
    /\ phase' = "done"
    /\ UNCHANGED <<input, pos, theirsInfo, mapping, result>>

-----------------------------------------------------------------------------
Next ==
    \/ CopyOurs \/ CopyTheirs \/ StartParse
    \/ ParseEntry \/ StartScan
    \/ ScanEntry \/ StartFinalize
    \/ \E t \in Tables : \E k \in Keys : FinalizeKey(t, k)
    \/ StartPrepare \/ PrepareEntry
    \/ StartWrite \/ WriteTable \/ CloseOutput

Spec == Init /\ [][Next]_vars

-----------------------------------------------------------------------------
(* Properties *)

\* Every variable of Rebase holds what the Go code can hold in it.
TypeOK ==
    /\ phase \in Phases
    /\ input \in Input
    /\ pos \in Nat
    /\ touched \subseteq Tables
    /\ inserted \in [Tables -> SUBSET Keys]
    /\ deleted \in [Tables -> SUBSET Keys]
    /\ updated \in [Tables -> [Keys -> EntryValues]]
    /\ DOMAIN mapIds = Tables
    /\ \A t \in Tables : /\ DOMAIN mapIds[t] \subseteq Keys
                         /\ \A k \in DOMAIN mapIds[t] : mapIds[t][k] \in Int
    /\ unmapped \in [Tables -> SUBSET Keys]
    /\ freeIndex \in [Tables -> Nat]
    /\ changes \in [Tables -> Seq(Entry)]
    /\ tableOrder \in Seq(Tables)
    /\ conflicts \subseteq Conflict
    /\ output \in Seq(Entry)

\* The "internal error: freeIndices missing" returns of
\* findMappingForNewChangeset (both of them) are never taken.
NoInternalError == phase # "error"

\* The keys handed out for renumbered rows lie above every key theirs
\* inserted, below the next free index, and no two of our keys share one:
\* what addPkeyMapping(pk, freeIdx); freeIdx++ is relied on for, across both
\* loops of findMappingForNewChangeset.
RenumberedKeysFresh ==
    \A t \in Tables : \A k \in DOMAIN mapIds[t] :
        mapIds[t][k] # InvalidFID =>
            /\ mapIds[t][k] < freeIndex[t]
            /\ \A i \in inserted[t] : i < mapIds[t][k]
            /\ \A j \in DOMAIN mapIds[t] : mapIds[t][j] = mapIds[t][k] => j = k

\* No row we insert is written under a key theirs inserted: the purpose of
\* renumbering. It is about every entry prepareNewChangeset keeps, in tables
\* theirs changed or not, whatever the order of the map loop was.
NoInsertOnTheirsKey ==
    \A t \in Tables : \A i \in DOMAIN changes[t] :
        changes[t][i].op = "insert" => changes[t][i].pk \notin inserted[t]

\* Every entry of a row we inserted and had to renumber reaches the output with
\* nothing but its key changed, its later updates and deletes too, whatever
\* theirs did to its own row of the old number.
RenumberedRowsMoveWhole ==
    phase = "done" =>
        \A i \in DOMAIN ours :
            LET e == ours[i] IN
            e.pk \in DOMAIN mapIds[e.table] /\ NewPK(e) # InvalidFID =>
                Contains(changes[e.table], [e EXCEPT !.pk = NewPK(e)])

-----------------------------------------------------------------------------
(* The merge, against the three databases *)

TheirsDb == Replay(theirs, input.base)
OursDb == Replay(ours, input.base)

Finished == phase = "done" /\ theirs # <<>> /\ ours # <<>>

\* One entry per row, as CreateChangeset and ConcatChangesets write them; only
\* geodiff.ConcatChanges appends more.
OneEntryPerRow(log) ==
    \A i, j \in DOMAIN log :
        log[i].table = log[j].table /\ log[i].pk = log[j].pk => i = j

FinishedRows == Finished /\ OneEntryPerRow(theirs) /\ OneEntryPerRow(ours)

InsertsIn(t) == {i \in DOMAIN changes[t] : changes[t][i].op = "insert"}

\* Our inserted rows have keys of their own that no row of THEIRS has. The code
\* aims at it and may miss it, see InsertedKeysDistinct and RebasedKeysFree.
InsertsHaveRoom ==
    \A t \in Tables :
        /\ \A i \in InsertsIn(t) : /\ changes[t][i].pk \in Keys
                                   /\ TheirsDb[t][changes[t][i].pk] = Absent
        /\ \A i, j \in InsertsIn(t) : changes[t][i].pk = changes[t][j].pk => i = j

\* The row the merge of three versions of one row has to yield: a deletion on
\* either side wins, a column only we changed is ours, any other is theirs'.
MergedRow(b, t, o) ==
    CASE t = Absent \/ o = Absent -> Absent
      [] OTHER -> [c \in Cols |-> IF t[c] = b[c] THEN o[c] ELSE t[c]]

OurInserts(t) == {k \in Keys : input.base[t][k] = Absent /\ OursDb[t][k] # Absent}

KeyInMerge(t, k) == IF k \in DOMAIN mapIds[t] THEN mapIds[t][k] ELSE k

\* Rows we inserted are added under the key the mapping gives them; rows of
\* BASE merge by key; rows theirs inserted stay.
ThreeWayMerge ==
    [t \in Tables |-> [k \in Keys |->
        IF \E j \in OurInserts(t) : KeyInMerge(t, j) = k
        THEN OursDb[t][CHOOSE j \in OurInserts(t) : KeyInMerge(t, j) = k]
        ELSE IF input.base[t][k] # Absent
        THEN MergedRow(input.base[t][k], TheirsDb[t][k], OursDb[t][k])
        ELSE TheirsDb[t][k]]]

\* The file Rebase writes, applied to THEIRS, gives the three-way merge:
\* every entry finds the row and the old values it expects (handleDelete's and
\* handleUpdate's patched values), nothing of ours or theirs is lost, and
\* renumbered rows arrive intact.
OutputYieldsMerge ==
    FinishedRows /\ InsertsHaveRoom => Replay(output, TheirsDb) = ThreeWayMerge

\* The row of THEIRS an update of ours meets, as a conflict reports it.
TheirsValue(e, c) ==
    IF TheirsDb[e.table][e.pk] = Absent THEN Undefined ELSE TheirsDb[e.table][e.pk][c]

Reported(e, c) ==
    \E cf \in conflicts :
        /\ cf.table = e.table /\ cf.pk = e.pk
        /\ [col |-> c, base |-> input.base[e.table][e.pk][c],
            theirs |-> TheirsValue(e, c), ours |-> e.new[c]] \in cf.items

Written(e, c) ==
    \E i \in DOMAIN output :
        /\ output[i].op = "update" /\ output[i].table = e.table /\ output[i].pk = e.pk
        /\ output[i].new[c] = e.new[c]

\* No column edit of ours disappears silently: it is in the output, or theirs
\* made the same edit, or a conflict with the right base, theirs and ours
\* values reports it. Only the gpkg_contents timestamp may be dropped.
NoEditSilentlyLost ==
    FinishedRows =>
        \A i \in DOMAIN ours : \A c \in Cols :
            LET e == ours[i] IN
            e.op = "update" /\ e.new[c] # Undefined =>
                \/ Written(e, c)
                \/ TheirsValue(e, c) = e.new[c]
                \/ Reported(e, c)
                \/ <<e.table, c>> \in TimestampCols

\* A conflict is only reported for a column both sides changed, to different
\* values, or that we changed in a row theirs deleted.
ConflictsAreGenuine ==
    FinishedRows =>
        \A cf \in conflicts : \A item \in cf.items :
            LET was == input.base[cf.table][cf.pk][item.col]
                now == TheirsDb[cf.table][cf.pk]
            IN  /\ OursDb[cf.table][cf.pk][item.col] = item.ours
                /\ item.ours # was
                /\ now # Absent => now[item.col] \notin {was, item.ours}
                /\ <<cf.table, item.col>> \notin TimestampCols

-----------------------------------------------------------------------------
(* What comments of the code promise *)

\* unmappedInsertIds is kept so that "if 4,5,6 get mapped 4->6, 5->7 then the
\* original 6 will need to be remapped too: 6->8": no two rows we insert are
\* written under one key.
InsertedKeysDistinct ==
    \A t \in Tables : \A i, j \in InsertsIn(t) :
        changes[t][i].pk = changes[t][j].pk => i = j

\* The key given to a renumbered row is a "free index": THEIRS has no such row.
RebasedKeysFree ==
    Finished =>
        \A t \in Tables : \A k \in OurInserts(t) \cap DOMAIN mapIds[t] :
            mapIds[t][k] \in Keys => TheirsDb[t][mapIds[t][k]] = Absent

\* theirs' new values "will be used as old values in rebased version": a
\* rebased update finds its old values in THEIRS.
RebasedUpdatesMatchTheirs ==
    Finished =>
        \A i \in DOMAIN output :
            LET e == output[i] IN
            e.op = "update" /\ input.base[e.table][e.pk] # Absent
            /\ (\A j \in DOMAIN ours : ours[j].op = "update")
                => Matches(e, TheirsDb[e.table][e.pk])
=============================================================================
