-------------------------------- MODULE Apply --------------------------------
(***************************************************************************)
(* SqliteDriver.ApplyChangeset, under geodiff.ApplyChangeset: the entries  *)
(* of a changeset executed inside a savepoint, with deferred foreign keys  *)
(* and the triggers of the user dropped; entries that break a constraint   *)
(* are tried again in rounds, until a round resolves none of them.         *)
(*                                                                         *)
(* SQLite is external: a transaction (work) which becomes the file (disk)  *)
(* when the outermost savepoint is released, and is gone after a rollback  *)
(* or a crash.  The constraints SQLite checks statement by statement are   *)
(* the set Admitted, those it checks at the end the set Referential.       *)
(***************************************************************************)
EXTENDS Changeset

CONSTANTS
    Situations,   \* a call (databases from and to, the log between them) and
                  \* the rows in the file before the first call
    Skipped,      \* GeoPackage system tables: skipGpkgTable
    Admitted,     \* databases that keep UNIQUE, CHECK and NOT NULL
    Referential,  \* databases that keep the deferred foreign keys
    Triggers,     \* the triggers of the user
    MayFail       \* statements may fail and the process may die

LogEntry == {e \in [op : Operations, table : Tables, pk : Keys,
                    old : EntryValues, new : EntryValues] :
                e.op = "insert" => e.new \in Row}

Call == [from : Database, to : Database, log : Seq(LogEntry)]

ASSUME SituationsAssumption == Situations \subseteq [call : Call, rows : Database]

VARIABLES
    phase,     \* where ApplyChangeset is; "idle" between calls
    call,      \* the changeset being applied, and what it was made from
    before,    \* ghost: the rows in the file when the call began
    disk,      \* rows and triggers in the database file
    work,      \* rows and triggers the connection sees
    pos,       \* entries the reader has returned
    conflicting,     \* conflictingEntries, as positions in the log
    turn,            \* entries of it tried in this round
    newConflicting,  \* newConflicting
    unrecoverable,   \* unrecoverableConflicts
    code       \* how the last call ended

loop == <<pos, conflicting, turn, newConflicting, unrecoverable>>
vars == <<phase, call, before, disk, work, loop, code>>

Phases == {"idle", "begin", "drop", "main", "retry", "restore", "release", "rollback"}
\* "failed" is an error too; it is told apart to state what the others mean.
Codes == {"none", "ok", "conflicts", "error", "failed", "crash"}

log == call.log

Init ==
    /\ phase = "idle"
    /\ \E s \in Situations : /\ call = s.call
                            /\ disk = [rows |-> s.rows, triggers |-> Triggers]
    /\ work = disk
    /\ before = disk.rows
    /\ pos = 0 /\ conflicting = <<>> /\ turn = 0 /\ newConflicting = <<>>
    /\ unrecoverable = 0
    /\ code = "none"

\* Open and the check for an empty changeset. A caller whose call has ended, in
\* whatever way, may make it again.
CallApply ==
    /\ phase = "idle"
    /\ before' = disk.rows
    /\ phase' = IF log = <<>> THEN "idle" ELSE "begin"
    /\ code' = IF log = <<>> THEN "ok" ELSE "none"
    /\ pos' = 0 /\ conflicting' = <<>> /\ turn' = 0 /\ newConflicting' = <<>>
    /\ unrecoverable' = 0
    /\ UNCHANGED <<call, disk, work>>

\* SAVEPOINT changeset_apply; PRAGMA defer_foreign_keys
Savepoint ==
    /\ phase = "begin" /\ phase' = "drop"
    /\ UNCHANGED <<call, before, disk, work, loop, code>>

\* sqliteTriggers and dropTriggers: all but those of GeoPackage itself.
Dropped == [work EXCEPT !.triggers = {}]

DropTriggers ==
    /\ phase = "drop" /\ phase' = "main"
    /\ work' = Dropped
    /\ UNCHANGED <<call, before, disk, loop, code>>

-----------------------------------------------------------------------------
(* applyChange *)

Put(e) == [work.rows EXCEPT ![e.table][e.pk] = RowAfter(e, @)]

\* An insert which finds its key taken breaks a constraint; an update or a
\* delete which finds no such row changes nothing.
Outcome(e) ==
    LET effective == Effective(e, work.rows[e.table][e.pk])
    IN  CASE e.table \in Skipped -> "skipped"
          [] e.table \notin Skipped /\ effective /\ Put(e) \in Admitted -> "applied"
          [] e.table \notin Skipped /\ effective /\ Put(e) \notin Admitted -> "conflict"
          [] e.table \notin Skipped /\ ~effective /\ e.op = "insert" -> "conflict"
          [] e.table \notin Skipped /\ ~effective /\ e.op # "insert" -> "nochange"

\* A trigger that is still there may take the change back.
Execute(e) ==
    IF Outcome(e) = "applied"
    THEN \E d \in IF work.triggers = {} THEN {Put(e)} ELSE {Put(e), work.rows} :
            work' = [work EXCEPT !.rows = d]
    ELSE UNCHANGED work

Count(e) == unrecoverable' = unrecoverable + (IF Outcome(e) = "nochange" THEN 1 ELSE 0)

ApplyEntry ==
    /\ phase = "main" /\ pos < Len(log)
    /\ pos' = pos + 1
    /\ LET e == log[pos + 1] IN
       /\ Execute(e) /\ Count(e)
       /\ conflicting' = IF Outcome(e) = "conflict" THEN Append(conflicting, pos + 1)
                         ELSE conflicting
    /\ UNCHANGED <<phase, call, before, disk, turn, newConflicting, code>>

EndMain ==
    /\ phase = "main" /\ pos = Len(log)
    /\ phase' = IF conflicting = <<>> THEN "restore" ELSE "retry"
    /\ UNCHANGED <<call, before, disk, work, loop, code>>

RetryEntry ==
    /\ phase = "retry" /\ turn < Len(conflicting)
    /\ turn' = turn + 1
    /\ LET i == conflicting[turn + 1] IN
       /\ Execute(log[i]) /\ Count(log[i])
       /\ newConflicting' = IF Outcome(log[i]) = "conflict" THEN Append(newConflicting, i)
                            ELSE newConflicting
    /\ UNCHANGED <<phase, call, before, disk, pos, conflicting, code>>

\* Fault: the turn goes on from the end of the last round.
NextRoundNoReset ==
    /\ phase = "retry" /\ turn = Len(conflicting)
    /\ Len(newConflicting) # Len(conflicting)
    /\ conflicting' = newConflicting
    /\ newConflicting' = <<>>
    /\ phase' = IF newConflicting = <<>> THEN "restore" ELSE "retry"
    /\ UNCHANGED <<call, before, disk, work, pos, turn, unrecoverable, code>>

\* Fault: one round is all.
OnlyRound ==
    /\ phase = "retry" /\ turn = Len(conflicting)
    /\ Len(newConflicting) # Len(conflicting)
    /\ conflicting' = newConflicting
    /\ newConflicting' = <<>>
    /\ turn' = 0
    /\ phase' = "restore"
    /\ UNCHANGED <<call, before, disk, work, pos, unrecoverable, code>>

\* Fault: a round that resolved nothing is repeated.
NextRoundAnyway ==
    /\ phase = "retry" /\ turn = Len(conflicting)
    /\ conflicting' = newConflicting
    /\ newConflicting' = <<>>
    /\ turn' = 0
    /\ phase' = IF newConflicting = <<>> THEN "restore" ELSE "retry"
    /\ UNCHANGED <<call, before, disk, work, pos, unrecoverable, code>>

\* A round that resolved something: the next one, if anything is left.
NextRound ==
    /\ phase = "retry" /\ turn = Len(conflicting)
    /\ Len(newConflicting) # Len(conflicting)
    /\ conflicting' = newConflicting
    /\ newConflicting' = <<>>
    /\ turn' = 0
    /\ phase' = IF newConflicting = <<>> THEN "restore" ELSE "retry"
    /\ UNCHANGED <<call, before, disk, work, pos, unrecoverable, code>>

\* The error leaves through the deferred rollback. geodiff.ApplyChangeset tells
\* conflicts from errors by the word "constraint" in the message.
FailWith(c) == phase' = "rollback" /\ code' = c

\* Fault: the triggers are not put back.
NotRestored == work

Restored == [work EXCEPT !.triggers = disk.triggers]

\* "could not resolve dependencies in constraint conflicts"
GiveUp ==
    /\ phase = "retry" /\ turn = Len(conflicting)
    /\ Len(newConflicting) = Len(conflicting)
    /\ work' = Restored
    /\ FailWith("conflicts")
    /\ UNCHANGED <<call, before, disk, loop>>

-----------------------------------------------------------------------------
\* createTriggers, then "conflicts encountered while applying changes!", whose
\* message does not hold the word.
RestoreTriggers ==
    /\ phase = "restore"
    /\ work' = Restored
    /\ \/ unrecoverable > 0 /\ FailWith("error")
       \/ unrecoverable = 0 /\ phase' = "release" /\ UNCHANGED code
    /\ UNCHANGED <<call, before, disk, loop>>

\* Fault: foreign keys are not enforced.
ReleaseUnchecked ==
    /\ phase = "release"
    /\ disk' = work
    /\ phase' = "idle" /\ code' = "ok"
    /\ UNCHANGED <<call, before, work, loop>>

\* RELEASE of the outermost savepoint commits, unless a deferred foreign key
\* is violated: "FOREIGN KEY constraint failed".
Release ==
    /\ phase = "release"
    /\ \/ /\ work.rows \in Referential
          /\ disk' = work
          /\ phase' = "idle" /\ code' = "ok"
       \/ /\ work.rows \notin Referential
          /\ FailWith("conflicts")
          /\ UNCHANGED disk
    /\ UNCHANGED <<call, before, work, loop>>

\* ROLLBACK TO changeset_apply; RELEASE changeset_apply. The code looks at the error
\* of neither; here both succeed.
Rollback ==
    /\ phase = "rollback"
    /\ work' = disk
    /\ phase' = "idle"
    /\ UNCHANGED <<call, before, disk, loop, code>>

\* A statement or the reader fails for another reason than a constraint. The
\* two loops put the triggers back before they return.
Fail ==
    /\ MayFail
    /\ \/ /\ phase = "begin"
          /\ phase' = "idle" /\ code' = "failed"
          /\ UNCHANGED work
       \/ /\ phase \in {"main", "retry"}
          /\ work' = Restored
          /\ FailWith("failed")
       \/ /\ phase \in {"drop", "restore", "release"}
          /\ FailWith("failed")
          /\ UNCHANGED work
    /\ UNCHANGED <<call, before, disk, loop>>

\* The process dies: the next connection sees the file, its journal rolled back.
Crash ==
    /\ MayFail /\ phase # "idle"
    /\ work' = disk
    /\ phase' = "idle" /\ code' = "crash"
    /\ UNCHANGED <<call, before, disk, loop>>

Step ==
    \/ Savepoint \/ DropTriggers
    \/ ApplyEntry \/ EndMain
    \/ RetryEntry \/ NextRound \/ GiveUp
    \/ RestoreTriggers \/ Release \/ Rollback

Next ==
    CallApply \/ Step \/ Fail \/ Crash

\* The code is one goroutine that runs until it returns.
Spec == Init /\ [][Next]_vars /\ WF_vars(Step)

-----------------------------------------------------------------------------
(* Properties *)

TypeOK ==
    /\ phase \in Phases
    /\ call \in Call
    /\ before \in Database
    /\ disk \in [rows : Database, triggers : SUBSET Triggers]
    /\ work \in [rows : Database, triggers : SUBSET Triggers]
    /\ pos \in 0..Len(log)
    /\ conflicting \in Seq(1..Len(log))
    /\ turn \in 0..Len(conflicting)
    /\ newConflicting \in Seq(1..Len(log))
    /\ unrecoverable \in 0..Len(log)
    /\ code \in Codes

\* What the file holds before the first call.
Found == {s.rows : s \in Situations}

\* ApplyChangeset is atomic: the file changes in one step, to the effects of
\* every entry, or not at all; no call, failure or crash leaves a trigger of
\* the user dropped.
Atomic == INSTANCE AtomicApply
            WITH Start <- Found,
                 busy <- phase # "idle", rows <- disk.rows, defined <- disk.triggers
ImplementsAtomicApply == Atomic!Safety

\* Every call returns: the retry rounds come to an end.
CallsReturn == Atomic!Returns

Ended == phase = "idle" /\ code \in {"ok", "conflicts", "error"}

Executed == Picked(log, {i \in DOMAIN log : log[i].table \notin Skipped})

\* Entries are executed out of order, and those that fail are put off past
\* later entries of the same row, which an appended changeset has. When the
\* changeset does apply in its own order, success still means the outcome of that
\* order: entries of a row either set different columns, or the old values of the
\* later one keep it from being executed before the other. (An entry with a new value and no old one would
\* overwrite whatever it finds; the library writes none.)
SuccessMeansInOrder ==
    /\ phase = "idle" /\ code = "ok"
    /\ \A i \in DOMAIN log : WellFormed(log[i])
    /\ Replay(Executed, before) # Absent
    => disk.rows = Replay(Executed, before)

\* Some order of the entries breaks no constraint on the way.
Resolvable(l, d) ==
    \E p \in Bijection(DOMAIN l, DOMAIN l) :
        LET stage == Stages([n \in DOMAIN l |-> l[p[n]]], d)
        IN  \A n \in DOMAIN l : stage[n] \in Admitted

\* A changeset CreateChangeset made of two databases that keep their constraints.
\* (Those of a foreign key, once the system tables stay as they are.)
Legal(c) ==
    /\ c.log = CreateChangeset(c.from, c.to)
    /\ c.from \in Admitted
    /\ [t \in Tables |-> IF t \in Skipped THEN c.from[t] ELSE c.to[t]] \in Referential

\* The changeset is applied to the database it was made from, and could be.
Ready == Legal(call) /\ call.from = before /\ Resolvable(log, before)

\* A changeset applied to the database it was made from gives the database it
\* was made for, in every table that is not a system table, whenever some order
\* of its entries can: the retry rounds find one. (Files appended to each other
\* are no such changeset; what becomes of them is SuccessMeansInOrder's.)
ReachesTarget ==
    Ended /\ Ready => \A t \in Tables \ Skipped : disk.rows[t] = call.to[t]
=============================================================================
