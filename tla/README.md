# TLA+ specification of go-geodiff

go-geodiff compares, changes and merges GeoPackage and SQLite files. A
*changeset* is the list of row changes (insert, update, delete) that lead from
one database to another. The library is sequential Go code over SQLite; what is
hard in it is that changesets are computed in one place, transformed in others
(inverted, joined, rebased) and executed somewhere else, possibly on another
database, and that each of these must still mean what the others took it to
mean. These modules specify that core.

## The system

| component | source | state it keeps | operations |
|---|---|---|---|
| create a changeset | `driver/sqlite.go:424-688` | the queries' rows, the output file | per table: inserted, deleted, modified rows |
| apply a changeset | `driver/sqlite.go:692-1000`, `sqlite_utils.go`, `geodiff/api.go:76-116` | a transaction, dropped triggers, postponed entries, a count of conflicts | savepoint, execute, retry rounds, release or roll back |
| invert | `changeset/utils.go:277-347` | none | entry by entry |
| merge changesets | `changeset/concat.go` | a map of maps: table, row, merged entry | read, merge, write |
| append changesets | `geodiff/api.go:407-458` | none | copy |
| rebase changesets | `driver/rebase.go:28-667` | what theirs did, key mapping, free keys, kept entries, conflicts | parse, map, prepare, write |
| rebase a file | `geodiff/api.go:848-949`, `driver/rebase.go:701-849` | temporary changesets, the file | create, rebase, invert, append, apply |
| copy a file | `geodiff/copy.go` | temporary file, WAL files | backup, checkpoint, rename |
| table filters | `geodiff/context.go` | mode and two sets under a mutex | set, ask |
| connection | `driver/sqlite.go:140-220` | a `database/sql` pool | open, attach, pragmas |
| file format | `changeset/reader.go`, `writer.go`, `varint/` | offset, current table | encode, decode |
| schema, JSON, geometry functions, logger | `schema/`, `changeset/utils.go`, `driver/gpkg_functions.go`, `geodiff/logger.go` | none that lasts | formatting, parsing |

They interact through files: changesets written by one operation are read by
another, and the databases both are about. `geodiff.Rebase` strings five of them
together. There are no background threads and no callbacks. Nondeterminism
enters through Go's random map order (rebase and merge), failing statements and
crashes (apply, rebase of a file, copy), files that break off (reader), other
programs that write to a database between two steps of a call (create, rebase of a
file, copy), and through which databases and which histories of changesets callers
combine.

What makes each part correct:

* create: the changeset replays from the base to the modified database, and is
  right about the rows nobody changes while it is made;
* invert: the inverse replays back;
* merge, append: the effect of the files one after the other;
* rebase: the output replayed on THEIRS is the three-way merge, keys of inserted
  rows do not clash, and an edit that is dropped is reported as a conflict;
* apply: all of it or none, triggers intact, every call returns, success means
  the outcome of the changeset's own order, conflicts are reported as such;
* rebase of a file: success means the merge is in the file; whatever fails or dies,
  the file is at one of few known versions, and edits of others are not lost;
* file format: a file reads back as it was written, and one that breaks off as a
  first part of it, with an error unless it ends where a record does;
* copy of a file: a reader of the destination finds the old database, then a
  committed version of the source, and nothing else.

## Modules

```
Changeset ---- Rebase ---- MCRebase
    |            |`------- RebaseProofs
    |            `-------- RebaseFile ---- MCRebaseFile
    |                        |    `------- RebaseFileProofs
    |                        | (INSTANCE of AtomicApply)
    |--------- AtomicApply --'
    |              : refined by
    |--------- Apply ----- MCApply ---- MCApplyJoined
    |            `-------- ApplyProofs
    |--------- Merge ----- Concat ---- MCConcat
    |                         `------- ConcatProofs
    |--------- Create ---- Undo ---- MCUndo
    |                        `------ UndoProofs
    |--------- ChangesetProofs (RebaseProofs, ApplyProofs, ConcatProofs, UndoProofs;
    |                           through RebaseProofs, RebaseFileProofs)
    `--------- MCDatabases (MCRebase, MCRebaseFile, MCConcat, MCUndo, MCApply)

Varint ---- ChangesetFile ---- MCChangesetFile
                  `----------- ChangesetFileProofs
CopyFile ---- CopyFileProofs
```

**Changeset** is the data. A database maps tables and integer keys to rows; a row
maps the other columns to opaque values; an entry is a record with old and new
values, `Undefined` where a column is not touched. `CreateChangeset` and
`InvertChangeset` are translated from the code. `Effective` and `RowAfter` say
when the driver's INSERT, UPDATE or DELETE has an effect and which: key
uniqueness, and the WHERE clause made of the key and the defined old values.
`Replay` executes a log one entry after the other and is `Absent` once an entry
has no effect; it is the reference for what a changeset means. `Stages`, the
databases on the way, and `Picked`, which takes elements out of a sequence, are
recursive functions, which the proofs can unfold one element at a time.

**Rebase** is `driver.Rebase`. `phase` follows its body: `open` (the two copies for
an empty side), `parse` (`parseOldChangeset`), `scan` and `finalize`
(`findMappingForNewChangeset` and the loop that ends it), `prepare`
(`prepareNewChangeset` and its handlers), `write`. One step is one turn of the
loop in question. `FinalizeKey` takes any key not visited yet, as `range` over a
map does. Tables without an entry in a Go map have an empty function or set here;
`freeIndex` is `NoIndex` for them. The order in which conflicts are listed is
left out.

**RebaseFile** composes them: `geodiff.Rebase` and `driver.RebaseDirect`, which
rebase a database in place. `step` is the procedure's place; while it is `rebase`
the variables of module `Rebase`, which it extends, take a step of `Rebase`'s `Next`
(`DriverStep`), from `Fresh` on (`Enter`); its inputs are what the procedure made and
not a set of inputs given beforehand.
`ApplyChangeset` is one step with the outcomes `AtomicApply` allows, which is what
`Apply` is shown to implement; `Applied` also uses `SuccessMeansInOrder` of it. Any
step may `Fail`, the process may `Crash` at any of them, and the caller calls again
with the same files; `OtherEdit` is another program that writes a row, as nothing
locks the file between the steps. `before` is the file as our changes were read from
it, `foreign` the edits since, `merged` and `again` tell that a call repeats one
that had committed. The temporary files are variables; the conflict file is only the
error it may cause (`Report`).

**Merge** has `mergeEntriesForRow` as an operator; **Concat** is `ConcatChangesets`.
Files are not variables: the next entry read is any entry of the `scope`, so logs
have every length. `current` and `consistent` are ghosts which
execute the same entries on a database. `BeginTable` and `WriteEntry` choose any
table and row left, as the two map loops do; `Fail` is an error of reading or writing.

**Apply** is `SqliteDriver.ApplyChangeset` called by `geodiff.ApplyChangeset`. SQLite
is external: `work` is the transaction the connection sees, `disk` the committed
file. Constraints checked per statement are a set of databases (`Admitted`),
deferred foreign keys another (`Referential`). The main loop executes an entry a
step and postpones those that break a constraint; `RetryEntry` and `NextRound`
are the rounds; `GiveUp`, `RestoreTriggers`, `Release` and `Rollback` the ends.
The rollback always succeeds (see "Not modelled").
`Fail` is any error that is no constraint, `Crash` the death of the process at any
point of a call. A caller calls again, with the same changeset, whatever happened.

**AtomicApply** is what `Apply` promises: in one step the file holds the effects of
all entries in some order, or it stays as it was; triggers are always there; every
call returns. `Turns` are the ways to execute the entries one at a time, in any
order. `Apply` implements its safety half (`ImplementsAtomicApply`) and its liveness
(`CallsReturn`), with `disk` as the abstract file.

**Create** is one call of `CreateChangeset`. The driver opens no transaction, so each
of the three queries of a table (`Query`) reads what the modified database holds at
that moment, and `Commit`, another program's transaction, may come between two.
`touched` is a ghost: the rows such a commit changed.

**Undo** is a caller who records each editing session with the steps of `Create`,
appends the records (`ConcatChanges`) and inverts the result (`InvertChangeset`).
`EndSession` takes only changesets made while nobody wrote.

**Varint** has `PutVarint` and `GetVarint`; **ChangesetFile** the writer and the reader
byte by byte. Two files are written; the second keeps some of its bytes (`Start`);
then `ConcatChanges` or `InvertChangeset` copies entry by entry into `out`, which may
break off at any byte (`WriteFails`). `last` is the name the code compares to decide
whether to write a table header, `width` the writer's current table. A value is a type
and the bytes that follow it. `Turn` is one turn of the loop in `NextEntry`; a job takes it
as `SkipTable` when it reads a header and as `CopyEntry` when it reads an entry. Entries
are what a program can write (`EntriesAssumption`): 1 to 65536 columns, rows as wide as
their table, the key's columns given, numbers of eight bytes, lengths of 32 bits.

**CopyFile** is `MakeCopySqlite`, one action per call it makes of SQLite or the file
system. A main file holds a version of the source, the old destination without or
with its log (`Old`, `Newer`), or is `Torn`; `View` is what SQLite finds when it opens
the destination: a hot journal rolled back, then the log read over the main file. A log
or journal over a main file it does not belong to gives `Mixed`.

Every `MC` module gives its specification constants: all pairs of changesets made
from small databases, databases with a UNIQUE column or a foreign key, joined
changesets, and tables and payloads of files. `CopyFile` needs numbers only and is
checked as it is.

## Runs

Passing runs (distinct states in brackets):

* `MCRebase` [957k]: THEIRS and OURS range over all pairs of changesets from
  each BASE of three families of databases. Three keys and one column: the
  fewest keys that let one renumbering cause another, with three more keys as room
  for renumbered rows. One row with two columns of three values, one column a
  timestamp that conflicts leave out: both sides can make equal, different and
  disjoint edits. Two tables: one can be untouched by theirs. Besides, two changesets
  appended on either side, of two rows with one column and of one row with two: an
  appended changeset may delete and insert a row again, or insert and update it. The
  run shows that the key mapping is sound, a renumbered row keeps its later entries,
  the output is the three-way merge, no edit is lost without a conflict and no
  conflict is spurious (the last three for changesets with one entry of a row).
* `MCConcat` [832k]: two scopes. One row, two columns, three values: the state is the
  merged entry, so the run covers logs of every length, contradictory ones
  included. Two tables with two rows each, written in every order of the map loops.
* `MCUndo` [497k]: two sessions between databases of two rows in one table and one
  row of two columns in another, with two transactions (`MaxCommits`) before, between
  or during the queries of a session: two are what it takes to touch a row twice,
  or two rows. Untouched rows come out right, quiet sessions (`MaxSessions`) replay as
  a record, and one can be undone.
* `MCApply` [146k]: two rows with a UNIQUE column, every changeset on every
  database; and changesets on the database they were made from: chains of moves of
  unique values over three rows and four values, which need up to three rounds;
  partial updates of two columns; rows that refer to rows of another table and fail
  at release where the reference dangles; a system table, which is skipped. Besides, two
  changesets appended (`JoinedDiffs`), of two rows with one column and, from a database
  with both rows, of two columns: these have several entries of a row, and an entry that
  is put off may be executed after a later one of its row, the call succeeding where the
  two set different columns and failing where the later one names the earlier one's
  value. `SuccessMeansInOrder` is about these. `ReachesTarget` is about changesets that
  `CreateChangeset` made, which `LegalAssumption` says the others on their base are.
  Failures, crashes and repeated calls everywhere.
* `MCRebaseFile` [3.6M]: both procedures on every BASE, THEIRS and OURS of two rows or
  of one row with two columns, with two keys of room. Two calls: a second one
  repeats the first after a crash, an error or a success. One edit of another
  program (`MaxForeign`), of any row, at any moment. It shows that success means the
  merge is in the file; that `Rebase` changes it once, and `RebaseDirect` leaves it at
  OURS, BASE, THEIRS or the merge whatever happens; that a repeated call changes
  nothing; and that the other program's edit survives a success.
* `MCChangesetFile` [660k]: a first file of one table header and one entry and a second
  of up to four records, of four tables: two of one name that differ in width,
  one of that name and width with another key, one of another name. Payloads hold
  bytes that look like table marks, entry types and ends of strings; one is 128 bytes
  long, the first length of two bytes. Bounds: the cut lies in the last record (to cut
  off more is to cut a shorter file), and one fault per behaviour, the cut or the
  output's end.
* `MCCopyFile` [3.5k]: four versions of the source and three calls, over destinations
  that are missing, closed, left in WAL mode, in a checkpoint or in a transaction. A
  third call finds what two that died left. `OrphanJournal` is off, see below.

Keys, columns and values are compared for equality only (keys also for order, when
free ones are computed), and each property is about at most two rows and two
versions of a value beside the base's, which is why three keys and three values
show the cases; where several steps are composed (`MCUndo`, `MCRebaseFile`) two values
tell an edit from none. Symmetry is not used.

`MCRebase*`, `MCConcat`, `MCRebaseFile`, `MCChangesetFile` and `MCCopyFile` do not
check for deadlock: they describe one call, or a bounded number of them, and end.
`Apply` and `Undo` can always take a step, and are checked.

Definitions marked `Fault:` are the deviations the properties were tried against; no
specification uses them.

### What the library does otherwise than it says

Each of these runs checks one sentence of the source, and fails:

| run | sentence | what happens |
|---|---|---|
| `MCRebaseMapOrder` | `rebase.go:48-51`, cascading renumbering | depends on the map order: theirs {1}, ours {1,2,3} may write key 3 twice |
| `MCRebaseFreeIndex` | `rebase.go:197`, free indices | rows of BASE above theirs' inserts are not counted: BASE {3}, both insert 2, ours becomes 3 |
| `MCRebaseLastUpdate` | `rebase.go:441`, old values of the rebased version | only theirs' last update of a row is remembered |
| `MCUndoAppended` | `api.go:122`, the inverse yields BASE | entries of one row are undone first to last |
| `MCApplyJoined` | `api.go:917`, undo, apply theirs, apply rebased | a postponed entry is overtaken by the later files' entries of its row |

More were met while modelling and have no run of their own:

* With an empty BASE->OURS, `Rebase` copies BASE->THEIRS to its output
  (`rebase.go:634`), which is not the THEIRS->MERGED changeset that the comment at
  `rebase.go:602` describes.
* A key theirs deleted is mapped to -1 when ours deletes it too
  (`rebase.go:255`); if an appended changeset of ours inserts the row again, the
  insert is written under key -1.
* `ConcatChangesets` of changesets that move unique values through a free one leaves
  updates that swap them. No order of those keeps a UNIQUE constraint, and the call
  gives up (`sqlite.go:979`), although `concat.go:215` promises the effect of
  the files one after the other. `Concat` has no constraints, so `OutputEquivalent`
  holds all the same.
* Entries that find no matching row end `ApplyChangeset` with a message without the
  word "constraint", so `api.go:110` reports Code=Error where `api.go:77` says
  Code=Conflicts. `Apply` has the code it returns.

* The queries of `CreateChangeset` share no transaction (`sqlite.go:677`). A row that
  is deleted between the first and the second and inserted again before the third,
  say, is compared with three different versions; its entries may not replay.
  `UntouchedRowsRight` says what holds all the same.
* `checkDatetimeDiff` (`sqlite.go:559`) compares datetimes through STRFTIME. Two it
  cannot parse, or that differ below the millisecond, count as equal, and the
  edit is in no changeset.
* A second `Rebase` with the same BASE and THEIRS, after one that committed, takes the
  merge for OURS. Rows theirs inserted are then inserts of ours as well, which are
  renumbered and come twice. `RepeatedCallChangesNothing` excludes them.
* `RebaseDirect` writes the conflict file after its last commit (`rebase.go:842`): an
  error there is returned for a rebase that is complete. `RebaseDirect` also leaves the
  file at BASE or THEIRS when a step fails, our edits undone (`DirectInStages`); only
  its temporary directory held them.
* A hot `-journal` whose main file is missing is not removed by `MakeCopySqlite`, which
  removes `-wal` and `-shm` only (`copy.go:92`), and is rolled into the copy when it
  is opened. With `OrphanJournal = TRUE`, `CopyIsSourceVersion` fails.
* Two files of one table name and width whose key columns differ are appended under the
  first one's header (`api.go:443`); `OutputReadsBack` is stated under `FlagsAgree`.
* `applyChange` checks a table header against the schema at the first entry of the
  table only (`sqlite.go:832`).
* `MakeCopy` dumps the rows of `gpkg_data_columns` but, by `filterTableNames`, does not
  create that table (`api.go:491`), so copying a GeoPackage with rows in it ends in an
  error.
* `SetTablesToSkip` "clears any previously set include list" (`context.go:60`); it
  returns an error instead. `SetTablesToInclude` likewise.

`OutputYieldsMerge`, and with it the properties of `RebaseFile` that name the merge,
is checked under `InsertsHaveRoom`, which excludes exactly the
first two rows of the table (a key written twice, or taken in THEIRS).

## Fairness

`Apply` assumes `WF_vars(Step)`: `ApplyChangeset` is one goroutine that runs from
call to return, so a step that can be taken is taken unless the process dies or a
statement fails. No fairness is assumed of the caller, of failures or of crashes. Under it
`AtomicApply`'s `WF_vars(Succeed \/ Refuse)`, "every call returns", follows
(`CallsReturn`): main loop and rounds end. The other specifications state safety only: their calls are
straight lines or loops over a finite file.

## Proofs

TLAPS checks the theorems below for all tables, keys, columns and values. They
rest on the assumptions that there are finitely many tables, that keys lie in
`0..MaxKey`, that `Undefined` is no column value, that `Absent` is neither row nor
entry nor database, that `NoTable` is no table, and that inputs are changesets over
these, in which an update sets a column (`handleUpdated` writes no other). `Rebase`
also assumes of its callers what `driver.Rebase` does: both changesets replay from BASE,
and their entries are well formed (`ContractAssumption`, which TLC evaluates for the
inputs of `MCRebase`), and `ChangesetFile` what entries are (`EntriesAssumption`) and
that the jobs are the two there are (`JobsAssumption`).

**ChangesetProofs** is what the others know of logs. A log with one entry of a row
replays exactly if each entry takes effect on the row it finds in the database the log
starts from (`DistinctRowsTakeEffect`), and leads to that database with those rows
changed (`ReplayOfDistinctRows`), so the order of the entries does not matter. `InverseReplays`: its inverse leads back.
`ReplayOfConcatenation`: appended logs lead where the second leads from where the first
does. `TableRows`: a table's three queries list the rows that differ, each once, and an
entry made of a row leads from the old one to the new one. The logs have every length.
Induction over them is by first-order means: the set of numbers of which a statement
holds contains 0 and with each number the next, so it is `Nat`
(`AllNaturals`), and a recursive function is unfolded one step.

The last part is about entries executed in another order than the log's, several of a
row included. Every column of a row, and whether there is the row, is moved by an entry
from what the entry says was there to what it says is there, and an entry that takes
effect finds what it says. So however the entries were ordered, at each value the
moves that lead to it and those that lead away from it are as many, but for the first
and the last value (`Balanced`). The last value is thus known from the first and from
the set of the entries: `OrderDoesNotMatter`. On another database than the one the
entries were planned for, a value in which the two differ cannot have been moved, or
one of the two walks would not balance: `EditsAreCarried`.

**ApplyProofs.** `TypeCorrect`; `SuccessCommits`: the file changes in no step but the
release of the savepoint, by a call that has its triggers back, has put off nothing and
met no entry without effect; and `AtomicInSteps`: `Apply` implements the safety half of
`AtomicApply`. `IInv` is `TypeOK` with `Counts` and `Transaction`. Type
correctness is not inductive alone, as the count of unrecoverable conflicts is
bounded by the entries: `Counts` says that no entry is counted twice over the main loop
and the rounds. `Transaction` says that the file is as the call found it while the call
runs, and what holds when the savepoint is to be released. The refinement needs more
(`Traced`): no entry is put off twice, none is executed twice, and `work`
is reached by executing those that are neither put off nor without effect, in the order
they were tried. At the release that is every entry, which makes it one of `Effects`.

What a call that succeeds leaves is one of `Effects` for good (`SuccessLeavesEffects`), and
by `OrderDoesNotMatter` all orders that apply have one effect: `SuccessInOrder`
(`SuccessMeansInOrder`) takes the log's own for the other one, `SuccessReachesTarget` the
way `CreateChangeset`'s entries lead. The balance needs entries that name what they
replace, hence `WellFormed` in the property; nothing is assumed of constraints.

`RetriesReachTarget` (`ReachesTarget`): on the database a changeset was made from, the
rounds succeed if any order of the entries does. The property is about changesets that are
`Legal`: the log is `CreateChangeset`'s, its base satisfies the constraints, and the target
the foreign keys (`LegalAssumption` has TLC evaluate it for `MCApply`'s).
The theorem has one hypothesis, `PairsDecide`: a constraint is decided by the rows of one table, two at a time, as UNIQUE, CHECK
and NOT NULL are (`DeclaredConstraints`). The rounds are greedy, and the argument is that greed does no harm. As
entries are of distinct rows, the transaction is always a mixture: the rows of the
executed entries as in the target, the others as in the base. Take the order that
works, and in it the first entry not yet executed. Executing it now can
only clash with one other row; if that row is still as in the base, it was when the
entry's turn came in the order, and if it is as in the target, it is at the end of the
order, and neither clashed (`OneCanBeExecuted`). The invariant `Progress` says that the
transaction is a legal mixture, that no entry has missed its row, and that a round which
has put off all it tried so far found each entry illegal in the mixture as it still
is. A round that resolved nothing would have tried every entry left, among them that
one, so `GiveUp` is out of reach; and at the release the mixture is the target, where
no reference dangles. Joined changesets have several entries of a row, and there greed
does harm (`MCApplyJoined`).

**CopyFileProofs.** For any number of versions and calls, without an orphaned journal:
`TypeCorrect`, `CopyInstallsSource` (`CopyIsSourceVersion`) and `RenameInstalls`
(`OnlyRenameShows`). The invariant says which of the destination's files may be there
at which step: no journal after the checkpoint, no log after its removal, and a torn
main file only with the log or journal that mends it. `RenameInstalls` needs the last
part: a crash after half a checkpoint changes the main file but not what is seen.

**ChangesetFileProofs.** For any entries, number of records, cut and fault:
`ChangesetFileTypeCorrect` (`TypeOK`), `CutFilesYieldPrefixes` (`CutFileYieldsPrefix`),
`EndsOnlyBetweenRecords` (`EndOnlyBetweenRecords`), `OutputsReadBack` (`OutputReadsBack`),
`PartialOutputsArePrefixes` (`PartialOutputIsPrefix`) and `InversesKeepKeys`
(`InverseKeepsKeys`), and `VarintReadsBack`: `GetVarint` reads the number `PutVarint` wrote,
and its length, for every 32-bit number at any offset of any buffer. The argument goes up
through the parts of a record in two strands. The lemmas `Held...` say that what a buffer
holds at an offset, a string, a value, a row, a header, an entry, is what is read there,
and how far. The lemmas `Same...` say that what is read of the first part of a file
is read of the whole file too, so that a cut can end the reading early but not change what
is read. A file is laid out as records: the trail of places between them is a function
on numbers, and each record is held at its place. The inductive invariant (`Inv`, by
`InvHolds`) says that both input files are laid out so, that the second
input was cut off its layout, that the reader rests at one of the places with the table
of the last header before it, and that, under `FlagsAgree`, the output is laid out as what
was read up to there, each entry as it is or inverted, and the writer stands where it
ends. After an error what can be read of the output is a first part of what was wanted.
None of the six is inductive: each compares what was read with what had been written some
records ago.

**RebaseProofs.** `TypeCorrect`: the type invariant. `InsertsAvoidTheirs`,
`RenumberingSound` and `InternalErrorsUnreachable` follow from the inductive
invariant `IInv` (`Invariance`): `TypeOK` together with `Safety`. None of the three
is inductive alone. That a kept insert avoids theirs' keys needs to know, at
the time it is written, that every entry of ours under a key of theirs has been
given a number (`Safety` says how far the scan got) and that numbers given lie
above theirs' keys; that in turn needs the next free number to stay above both,
and to exist whenever a number has been given, which is also why the internal
errors cannot happen. The bound for the maximum of a set of keys is a lemma
proved from the order of the naturals. `RenumberedRowsArrive`: a renumbered row's
later entries are kept under its number. `MovedInv` says so of the entries prepared so
far, and that the mapping does not change any more once they are prepared.

The merge is about the contents: `MergeReached` (`OutputYieldsMerge`), `EditsKept`
(`NoEditSilentlyLost`) and `GenuineConflicts` (`ConflictsAreGenuine`). `IInv` knows
nothing of the databases, and the databases occur in no step of `Rebase`; `MergeInv`
connects them in two stages. In every state (`MergeInvariance`) each data structure says
what it is meant to about the entries read so far: `TheirsKnown` what theirs delete and
set, `OursMapped` which entry of ours a mapping is for, `OursKept` that what is kept is
`Rebased(e)` of an entry `e` that is not `Dropped`, `ConflictsKnown` and `OutputKept` the
same of the conflicts and of the file. Each needs that a row has one entry: a second one
would overwrite what the first one recorded. At the end (`Over`) all has been read, and
the rest is about single rows: a row of THEIRS is that of BASE with what is
recorded set in it (`TheirsRow`), so a kept entry finds the old values it names there and
leaves the merged row (`KeptRow`, by `UpdateMerges` and `DeleteMerges`), and a dropped one
had nothing to add (`DroppedRow`). The entries of the output are thus of distinct rows and
each takes effect on THEIRS, and `ReplayOfDistinctRows` adds them up. Of the two hypotheses
of `MergeReached`, `OneEntryPerRow` is what `CreateChangeset` and `ConcatChangesets` write,
and `InsertsHaveRoom` what the code may miss (`MCRebaseMapOrder`, `MCRebaseFreeIndex`), but
only if THEIRS inserted rows (`RoomWithoutInserts`);
the other two theorems need only the first.

`CreatedMeetsContract` is what `RebaseFileProofs` needs of the input: two changesets made
by `CreateChangeset` from one BASE meet the contract, with one entry a row. It rests on
`ChangesetReplays`: a changeset replays on the database it was made from and leads to the
other one.

**RebaseFileProofs.** For all versions, any number of calls, failures, crashes and edits
of other programs: `FileTypeCorrect`, `SuccessLeavesMerge` (`SuccessIsMerge`),
`RebaseChangesOnce` (`RebaseAllOrNothing`), `DirectRestsAtAVersion` (`DirectInStages`),
`RepeatedCallIsHarmless` (`RepeatedCallChangesNothing`) and `ForeignEditsSurvive`
(`ForeignEditsKept`).
None of them is inductive: that the file holds the merge at the end needs to know where it
was at every step before. The inductive invariant (`Inv`, by `FileInvariance`) is `FileInv`
with the two of `RebaseProofs`. `FileInv` says which changeset files are there and
what they were made from (`ChangesetsMade`), which side is known to have changes
(`SituationsKnown`), that driver.Rebase is called with those files and copies ours when
theirs is empty (`DriverCalled`, `OursCopied`), and, while no other program has written,
which version the file is at a step (`FileInPlace`) and was left at by a call that
ended (`FileLeft`). `DriverKept`: what is proved of `Rebase` for given inputs holds of it
here, where each call makes its own, since `IInv` and `MergeInv` hold of every fresh
state whose input is a changeset and meets the contract. What a call of `ApplyChangeset`
makes of the file is `ChangesetReplays` (undo and theirs), `OutputReplays` (the rebased
changes) or `ReplayOfConcatenation` of the three; that `Applied` is then one database needs that
they replay, and that it is a database at all, whatever was written in between,
that `AtomicApply`'s recursion yields databases (`TurnsTyped`). `VersionsAssumption`,
`ForeignAssumption` and `BoundsAssumption` are what is assumed beyond `Rebase`. The repeated
call has an invariant of its own (`RepeatInv`): what a call that committed leaves is
`Settled`, merging with THEIRS once more changes none of its rows, and this holds of
the file until another program writes. `RoomWithoutInserts` of `RebaseProofs` takes care
of the hypothesis of the merge: when THEIRS inserted no row, no key gets another number
(`NumberedForTheirs`, a part of `MergeInv`), our inserts keep their keys, and these are free.

`ForeignEditsSurvive` is about a file that is none of the known versions any more, where
nothing that is proved about replaying applies; the balance of `ChangesetProofs` does. At each step
the plan of the call says which version the file would be without the edits: OURS,
then BASE, THEIRS and the merge. `EditsInv` says that a row edited once still differs
from it in what the edit changed and in nothing else. A changeset that is applied
leads the plan to its next version and, if it can be applied at all, the file somewhere, by the same entries in
some order; `EditsAreCarried` compares the two.

**ConcatProofs.** `IInv` is `TypeOK`, `KeptEntriesWellFormed`, `EntriesCompose` and
that what is written was kept. `EntriesCompose` needs well-formedness: that
merging an update with a delete recovers the whole old row depends on
an update defining old and new value of the same columns. `MergeComposes` is the
lemma the rest hangs on: for two entries that take effect one after the other,
`MergeEntries` is an entry that takes effect on the first row and yields the last,
or none when they are equal. `InvertingUndoes` shows the same of the inverse.
`ConcatenationEquivalent` (`OutputEquivalent`) goes from rows to files: the output has
each kept row once (`OutputIsKept`), so `ReplayOfDistinctRows` applies, and
row by row it leads where the files lead. `InversionRestores` is `InverseReplays` of it.

**UndoProofs.** For any number of sessions, tables, rows and foreign commits.
`CreatedRightAboutUntouched` (`UntouchedRowsRight`): a changeset is right about the rows
nobody touched while it was made. The invariant `FileRight` says which rows of which
tables the queries have covered and that of the untouched ones the file has the one
entry that leads from old to new; a touched row may have up to three. Without commits
no row is touched, so that the file replays, which with `ReplayOfConcatenation` gives
`SessionsReplay` (`RecordReplays`) and with `InverseReplays` `OneSessionUndone`
(`SessionUndone`).

## Only model-checked

* Liveness: `CallsReturn`. The provers have no rule for fairness.
* `ReachesTarget` for constraints that are not decided by a table's rows two at a time, as a
  trigger could that is kept (`rtree_`, `sqlite_utils.go:40`) and refuses a row.
* That the hypothesis `InsertsHaveRoom` is met: it is about the inputs of a run, and TLC
  evaluates it there.

## Not modelled

* Primary keys that are not one integer column. `getPrimaryKey` takes any other key for 0
  (`rebase.go:106`): all rows of such a table then are one.
* Values are compared for equality; datetimes, which the driver compares by
  `STRFTIME`, are not told apart further.
* Varints of six to nine bytes: `getVarint64` reads them, nothing writes them.
* The contents of the conflict file, schema comparison and parsing, JSON listing, geometry
  functions, logging: formatting and parsing without state.
* `MakeCopy` between drivers, `CreateInitialDiff` and `DumpData`: straight lines of
  driver calls on files they create themselves.
* `Context`: each method holds its mutex throughout, and no exported operation takes a
  caller's `Context`, so there is nothing to interleave.
* The connection pool: which idle connection `database/sql` hands out is the library's
  choice. `Apply` assumes that the statements of a call run on one connection.
* A failed rollback. `ApplyChangeset` ignores an error of `ROLLBACK TO` (`sqlite.go:910`) and
  goes on to `RELEASE`; if the first could fail with the savepoint still open, the second
  would commit what the failed call had executed, and `ImplementsAtomicApply` would not
  hold. In `Apply` both succeed.
* Read and write errors inside `driver.Rebase`: they end the call before any database
  is touched (`RebaseFile` has them as `Fail`).

## Plan

Done, in this order: `Changeset`, `Rebase` with its proofs, `Merge` and `Concat` with
their proofs, `Undo`, `AtomicApply` and `Apply` with its proofs, `Create`, `RebaseFile`,
`Varint` and `ChangesetFile` with their proofs, `CopyFile` with its proofs; then
`ChangesetProofs` and, from it, the theorems about files and sessions, and the
refinement of `AtomicApply`.

Then the merge, `OutputYieldsMerge`, as a theorem, and with it the theorems about
`RebaseFile`. Last, entries executed out of order: `SuccessMeansInOrder` and `ReachesTarget`
of `Apply`, `ForeignEditsKept` of `RebaseFile`.

What is left:

1. Keys read as other numbers than they are (text and composite keys) in `Rebase`.
2. `ConcatChangesets`' output as a call of `Apply`, where constraints may fail that
   held between the files: after `RetriesReachTarget` the question is which merged
   changesets still have an order that works.
