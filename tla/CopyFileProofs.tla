---------------------------- MODULE CopyFileProofs ----------------------------
(***************************************************************************)
(* MakeCopySqlite installs a version of the source and shows nothing else  *)
(* on the way, for any number of versions, calls, failures and crashes,    *)
(* provided no hot journal is left without its main file.                  *)
(***************************************************************************)
EXTENDS CopyFile, TLAPS

Finished == {"sync", "checkpoint", "removeWal", "removeShm", "rename"}

\* A journal or a log is only ever next to the main file it was written for, or
\* next to none; and what the steps done so far have achieved: a backup of the
\* call's own time, a destination that is its main file alone.
IInv ==
    /\ TypeOK
    /\ first <= src
    /\ journal => main \in {Old, Torn} /\ ~wal
    /\ wal => main \in {None, Old, Torn}
    /\ main = Torn => wal \/ journal
    /\ pc \in Finished => tmp \in first..src
    /\ pc \in {"removeWal", "removeShm", "rename"} => ~journal /\ (wal => main = None)
    /\ pc \in {"removeShm", "rename"} => ~wal
    /\ result = "ok" => pc = "idle" /\ main \in first..src /\ ~wal /\ ~journal

USE DEF Versions, None, Old, Newer, Torn, Mixed

LEMMA InitIInv == ASSUME ~OrphanJournal PROVE Init => IInv
<1> SUFFICES ASSUME Init PROVE IInv
  OBVIOUS
<1>1. 1 \in Versions /\ 0 \in 0..MaxCalls
  BY ConstantsAssumption
<1>2. ~OrphanJournal /\ OrphanJournal \in BOOLEAN
  BY ConstantsAssumption
<1>3. wal \in BOOLEAN /\ journal \in BOOLEAN /\ main \in {None, Old, Torn}
  BY <1>2 DEF Init
<1>4. /\ journal => main \in {Old, Torn} /\ ~wal
      /\ main = Torn => wal \/ journal
  <2>1. CASE main = Old /\ wal = FALSE /\ journal = FALSE
    BY <2>1
  <2>2. CASE main \in {Old, Torn} /\ wal = TRUE /\ journal = FALSE
    BY <2>2
  <2>3. CASE main \in {Old, Torn} /\ wal = FALSE /\ journal = TRUE
    BY <2>3
  <2>4. CASE main = None /\ wal \in BOOLEAN /\ journal \in {FALSE, OrphanJournal}
    <3>1. ~journal
      BY <2>4, <1>2, Zenon
    <3>2. main # Torn
      BY <2>4
    <3>3. QED
      BY <3>1, <3>2
  <2>5. QED
    BY <2>1, <2>2, <2>3, <2>4 DEF Init
<1>5. before \in Contents
  BY <1>3 DEF Init, Contents, View, RolledBack
<1>6. QED
  BY <1>1, <1>3, <1>4, <1>5 DEF Init, IInv, TypeOK, Finished

\* A reader of the destination always finds something: IInv leaves no case in
\* which a foreign log or journal is read.
LEMMA ViewContents == ASSUME IInv PROVE View \in Contents
  BY DEF IInv, TypeOK, Contents, View, RolledBack

LEMMA StepIInv == IInv /\ [Next]_vars => IInv'
<1> SUFFICES ASSUME IInv, [Next]_vars PROVE IInv'
  OBVIOUS
<1> USE ConstantsAssumption DEF IInv, TypeOK, Finished, At, Go, Return, disk, ghost
<1>1. CASE Commit
  BY <1>1 DEF Commit
<1>2. CASE Call
  BY <1>2, ViewContents DEF Call
<1>3. CASE Backup
  BY <1>3 DEF Backup
<1>4. CASE Sync
  BY <1>4 DEF Sync
<1>5. CASE Checkpoint
  BY <1>5 DEF Checkpoint, View, RolledBack
<1>6. CASE CheckpointHalf
  <2>1. /\ wal /\ main \in {Old, Torn} /\ ~journal
        /\ main' = Torn /\ pc' = "idle" /\ result' \in {"error", "none"}
        /\ tmp' \in {tmp, None}
        /\ UNCHANGED <<src, wal, journal, calls, first, before>>
    BY <1>6 DEF CheckpointHalf
  <2>2. QED
    BY <2>1
<1>7. CASE CheckpointBusy
  BY <1>7 DEF CheckpointBusy
<1>8. CASE RemoveWal
  <2>1. ~wal' /\ wal' \in BOOLEAN
    <3>1. wal' = FALSE
      BY <1>8, Zenon DEF RemoveWal
    <3>2. QED
      BY <3>1, Zenon
  <2>2. /\ pc = "removeWal" /\ pc' = "removeShm"
        /\ UNCHANGED <<src, main, journal, tmp, result, calls, first, before>>
    BY <1>8 DEF RemoveWal
  <2>3. main # Torn /\ ~journal
    BY <2>2
  <2>4. QED
    BY <2>1, <2>2, <2>3
<1>9. CASE RemoveShm
  BY <1>9 DEF RemoveShm
<1>10. CASE Rename
  BY <1>10 DEF Rename
<1>11. CASE Fail
  BY <1>11 DEF Fail
<1>12. CASE Crash
  BY <1>12 DEF Crash
<1>13. CASE UNCHANGED vars
  BY <1>13 DEF vars
<1>14. QED
  BY <1>1, <1>2, <1>3, <1>4, <1>5, <1>6, <1>7, <1>8, <1>9, <1>10, <1>11, <1>12, <1>13
     DEF Next, Step

LEMMA Invariance == ASSUME ~OrphanJournal PROVE Spec => []IInv
  BY InitIInv, StepIInv, PTL DEF Spec

\* The destination's main file is never the mix a foreign log or journal makes
\* of it.
THEOREM TypeCorrect == ASSUME ~OrphanJournal PROVE Spec => []TypeOK
<1>1. IInv => TypeOK
  BY DEF IInv
<1>2. QED
  BY <1>1, Invariance, PTL

\* A call without an error leaves a version the source had during the call.
THEOREM CopyInstallsSource == ASSUME ~OrphanJournal PROVE Spec => []CopyIsSourceVersion
<1>1. IInv => CopyIsSourceVersion
  BY DEF IInv, CopyIsSourceVersion, View, RolledBack
<1>2. QED
  BY <1>1, Invariance, PTL

\* What a reader finds changes with the rename and with nothing else.
LEMMA StepShows == IInv /\ [Next]_vars => [View' # View => result' = "ok" /\ View' \in first..src]_vars
<1> SUFFICES ASSUME IInv, Next, View' # View PROVE result' = "ok" /\ View' \in first..src
  BY DEF vars
<1> USE DEF IInv, TypeOK, Finished, At, Go, Return, disk, ghost, View, RolledBack
<1>1. CASE Checkpoint
  BY <1>1 DEF Checkpoint
<1>2. CASE CheckpointHalf
  BY <1>2 DEF CheckpointHalf
<1>3. CASE RemoveWal
  BY <1>3 DEF RemoveWal
<1>4. CASE Rename
  BY <1>4 DEF Rename
<1>5. CASE Commit \/ Call \/ Backup \/ Sync \/ CheckpointBusy \/ RemoveShm \/ Fail \/ Crash
  BY <1>5 DEF Commit, Call, Backup, Sync, CheckpointBusy, RemoveShm, Fail, Crash
<1>6. QED
  BY <1>1, <1>2, <1>3, <1>4, <1>5 DEF Next, Step

\* "The destination is installed only after the backup completes."
THEOREM RenameInstalls == ASSUME ~OrphanJournal PROVE Spec => OnlyRenameShows
  BY Invariance, StepShows, PTL DEF Spec, OnlyRenameShows
=============================================================================
