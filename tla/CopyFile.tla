------------------------------- MODULE CopyFile -------------------------------
(***************************************************************************)
(* geodiff.MakeCopySqlite: an online backup of a database into a temporary *)
(* file, which then takes the place of the destination.  A SQLite database *)
(* is up to three files: the main file, a write-ahead log whose pages a    *)
(* reader puts over the main file's, and a rollback journal whose pages it *)
(* first writes back.  Both extra files belong to the main file they were  *)
(* written for; over another one they make a database nobody ever had.     *)
(*                                                                         *)
(* The source changes while it is copied.  The destination has no writers  *)
(* ("Callers must exclude writers and open connections to the destination  *)
(* while replacing it"); a reader of it may still be there.  Any call may  *)
(* fail and the process may die between any two of them; the caller calls  *)
(* again.                                                                  *)
(***************************************************************************)
EXTENDS Integers

CONSTANTS
    MaxVersion,     \* bound: versions the source goes through, from 1
    MaxCalls,       \* bound: calls of MakeCopySqlite
    OrphanJournal   \* a hot journal may be there without its main file

ASSUME ConstantsAssumption ==
    MaxVersion \in Nat \ {0} /\ MaxCalls \in Nat /\ OrphanJournal \in BOOLEAN

\* Contents of a main file: a version of the source, or
None == 0        \* the file is not there
Old == -1        \* the destination's version, as of its last checkpoint
Newer == -2      \* the same with the transactions of its log
Torn == -3       \* half written by a transaction or a checkpoint
Mixed == -4      \* what a log or a journal makes of a foreign file

Versions == 1..MaxVersion
Contents == Versions \cup {None, Old, Newer, Torn, Mixed}

VARIABLES
    src,      \* the source's committed version
    main,     \* the destination's main file
    wal,      \* there are committed pages of the destination in dst-wal
    journal,  \* there is a hot dst-journal
    tmp,      \* the temporary file: None, Torn, or the version backed up
    pc,       \* the step the call is at
    result,   \* "none", "ok", "error"
    calls,    \* calls so far
    first,    \* ghost: the version of the source when the call began
    before    \* ghost: what a reader of the destination saw then

disk == <<main, wal, journal>>
ghost == <<first, before>>
vars == <<src, disk, tmp, pc, result, calls, ghost>>

-----------------------------------------------------------------------------
(* What opening the destination finds: a hot journal is rolled back first,  *)
(* then the log is read over the main file.                                 *)

RolledBack == IF ~journal \/ main = None THEN main
              ELSE IF main \in {Old, Torn} THEN Old ELSE Mixed

View == IF ~wal \/ main = None THEN RolledBack
        ELSE IF main \in {Old, Newer, Torn} THEN Newer ELSE Mixed

\* A destination is not there, closed, left by a process that died in WAL mode
\* (in a checkpoint perhaps) or in a transaction; or its main file was removed
\* and the others were not.
Init ==
    /\ src = 1
    /\ \/ main = Old /\ wal = FALSE /\ journal = FALSE
       \/ main \in {Old, Torn} /\ wal = TRUE /\ journal = FALSE
       \/ main \in {Old, Torn} /\ wal = FALSE /\ journal = TRUE
       \/ main = None /\ wal \in BOOLEAN /\ journal \in {FALSE, OrphanJournal}
    /\ tmp = None
    /\ pc = "idle" /\ result = "none" /\ calls = 0
    /\ first = 1 /\ before = View

\* The source's own writers go on.
Commit ==
    /\ src < MaxVersion
    /\ src' = src + 1
    /\ UNCHANGED <<disk, tmp, pc, result, calls, ghost>>

At(here) == pc = here
Go(next) == pc' = next /\ UNCHANGED result

\* MakeCopySqlite returns; its defer removes the temporary file.
Return(code) == pc' = "idle" /\ result' = code

\* The checks pass and the temporary file is created.
Call ==
    /\ At("idle") /\ calls < MaxCalls
    /\ calls' = calls + 1
    /\ pc' = "backup" /\ result' = "none"
    /\ tmp' = Torn
    /\ first' = src /\ before' = View
    /\ UNCHANGED <<src, disk>>

\* Fault: the copy takes the main file without its log, one version behind.
BackupMainFile ==
    /\ At("backup")
    /\ tmp' = IF src > 1 THEN src - 1 ELSE src
    /\ Go("sync")
    /\ UNCHANGED <<src, disk, calls, ghost>>

\* Step(-1) and Finish: one read transaction of the source.
Backup ==
    /\ At("backup")
    /\ tmp' = src
    /\ Go("sync")
    /\ UNCHANGED <<src, disk, calls, ghost>>

\* Chmod, Sync and Close of the finished file.
Sync ==
    /\ At("sync")
    /\ Go("checkpoint")
    /\ UNCHANGED <<src, disk, tmp, calls, ghost>>

\* Fault: the old log is removed without a checkpoint.
CheckpointNone ==
    /\ At("checkpoint")
    /\ Go("removeWal")
    /\ UNCHANGED <<src, disk, tmp, calls, ghost>>

\* wal_checkpoint(TRUNCATE) of a destination that is there, whose opening
\* rolls a hot journal back.
Checkpoint ==
    /\ At("checkpoint")
    /\ main' = View
    /\ wal' = (wal /\ main = None)
    /\ journal' = (journal /\ main = None)
    /\ Go("removeWal")
    /\ UNCHANGED <<src, tmp, calls, ghost>>

\* The process dies, or SQLite fails, when half of the log is in the main file
\* (the other half of the failure is that of Fail and Crash).
CheckpointHalf ==
    /\ At("checkpoint") /\ wal /\ main # None
    /\ main' = Torn
    /\ \/ Return("error") /\ tmp' = None
       \/ Return("none") /\ UNCHANGED tmp
    /\ UNCHANGED <<src, wal, journal, calls, ghost>>

\* A reader keeps the log from being truncated: "destination is busy".
CheckpointBusy ==
    /\ At("checkpoint") /\ wal /\ main # None
    /\ Return("error") /\ tmp' = None
    /\ UNCHANGED <<src, disk, calls, ghost>>

\* Fault: the log goes only with its main file.
RemoveWalOfMain ==
    /\ At("removeWal")
    /\ wal' = (wal /\ main = None)
    /\ Go("removeShm")
    /\ UNCHANGED <<src, main, journal, tmp, calls, ghost>>

RemoveWal ==
    /\ At("removeWal")
    /\ wal' = FALSE
    /\ Go("removeShm")
    /\ UNCHANGED <<src, main, journal, tmp, calls, ghost>>

\* The shared-memory file holds nothing a reader could not find out.
RemoveShm ==
    /\ At("removeShm")
    /\ Go("rename")
    /\ UNCHANGED <<src, disk, tmp, calls, ghost>>

\* The temporary file becomes the main file.
Rename ==
    /\ At("rename")
    /\ main' = tmp
    /\ tmp' = None
    /\ Return("ok")
    /\ UNCHANGED <<src, wal, journal, calls, ghost>>

Step ==
    \/ Backup \/ Sync \/ Checkpoint \/ CheckpointHalf \/ CheckpointBusy
    \/ RemoveWal \/ RemoveShm \/ Rename

\* A step returns its error before it has done anything.
Fail ==
    /\ ~At("idle")
    /\ Return("error") /\ tmp' = None
    /\ UNCHANGED <<src, disk, calls, ghost>>

\* The process dies; the temporary file stays.
Crash ==
    /\ ~At("idle")
    /\ Return("none")
    /\ UNCHANGED <<src, disk, tmp, calls, ghost>>

Next == Commit \/ Call \/ Step \/ Fail \/ Crash

Spec == Init /\ [][Next]_vars

-----------------------------------------------------------------------------
(* Properties *)

\* A foreign log or journal is never made part of the destination for good.
TypeOK ==
    /\ src \in Versions
    /\ main \in Versions \cup {None, Old, Newer, Torn}
    /\ wal \in BOOLEAN /\ journal \in BOOLEAN
    /\ tmp \in Versions \cup {None, Torn}
    /\ pc \in {"idle", "backup", "sync", "checkpoint", "removeWal", "removeShm", "rename"}
    /\ result \in {"none", "ok", "error"}
    /\ calls \in 0..MaxCalls
    /\ first \in Versions /\ before \in Contents

\* A call that returns no error leaves a version of the source that was the
\* committed one at some moment of the call, transactions in its log included;
\* and nothing the old destination left behind changes it when it is opened.
CopyIsSourceVersion == result = "ok" => View \in first..src

\* "The destination is installed only after the backup completes": whatever
\* fails and wherever the process dies, a reader of the destination finds the
\* old database, with the transactions of its log, until the rename, and a
\* version of the source from then on.  No step between shows anything else.
OnlyRenameShows == [][View' # View => result' = "ok" /\ View' \in first..src]_vars

=============================================================================
