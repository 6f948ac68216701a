----------------------------- MODULE ApplyProofs -----------------------------
(***************************************************************************)
(* Of Apply, for any tables, constraints, changesets, failing statements   *)
(* and crashes: type correctness, the refinement of AtomicApply, what a    *)
(* call that succeeds leaves, and that the rounds execute every entry      *)
(* which some order could.                                                 *)
(***************************************************************************)
EXTENDS Apply, ChangesetProofs, FiniteSetTheorems

File == [rows : Database, triggers : SUBSET Triggers]

\* No entry is counted twice: one that found no row was not postponed, and one
\* postponed is still to be tried or was postponed again.
Counts ==
    /\ phase \in {"begin", "drop"} => pos = 0 /\ conflicting = <<>> /\ unrecoverable = 0
    /\ phase \in {"begin", "drop", "main"} => turn = 0 /\ newConflicting = <<>>
    /\ phase = "main" => unrecoverable + Len(conflicting) <= pos
    /\ phase = "retry" =>
        unrecoverable + Len(newConflicting) + (Len(conflicting) - turn) <= Len(log)

\* What is left to do, and what is in the transaction.
Transaction ==
    /\ phase \in {"retry", "restore", "release"} => pos = Len(log)
    /\ phase \in {"restore", "release"} => conflicting = <<>>
    /\ phase = "release" => unrecoverable = 0 /\ work.triggers = Triggers
    /\ phase \in {"idle", "begin", "drop"} => work = disk
    /\ phase # "idle" => disk.rows = before
    /\ disk.triggers = Triggers

IInv == TypeOK /\ Counts /\ Transaction

LEMMA LogTyped == ASSUME TypeOK PROVE log \in Seq(LogEntry) /\ Len(log) \in Nat
  BY SMT DEF TypeOK, log, Call

LEMMA EntryTyped ==
  ASSUME TypeOK, NEW i \in 1..Len(log)
  PROVE  log[i] \in LogEntry
  BY LogTyped, SMT

\* A statement that takes effect leaves a database.
LEMMA PutTyped ==
  ASSUME TypeOK, NEW e \in LogEntry, Outcome(e) = "applied"
  PROVE  Put(e) \in Database
<1> DEFINE row == work.rows[e.table][e.pk]
<1>1. /\ e.table \in Tables /\ e.pk \in Keys /\ e.op \in Operations
      /\ e.new \in EntryValues /\ (e.op = "insert" => e.new \in Row)
  BY SMT DEF LogEntry
<1>2. work.rows \in Database
  BY SMT DEF TypeOK
<1>3. row \in Row \cup {Absent}
  BY <1>1, <1>2, SMT DEF Database
<1>4. Effective(e, row)
  <2>1. CASE e.table \in Skipped
    BY <2>1, Zenon DEF Outcome
  <2>2. CASE e.table \notin Skipped /\ ~Effective(e, row) /\ e.op = "insert"
    BY <2>2, Zenon DEF Outcome
  <2>3. CASE e.table \notin Skipped /\ ~Effective(e, row) /\ e.op # "insert"
    BY <2>3, Zenon DEF Outcome
  <2>4. QED
    BY <2>1, <2>2, <2>3, Zenon
<1> HIDE DEF row
<1>5. RowAfter(e, row) \in Row \cup {Absent}
  <2>1. CASE e.op = "insert"
    BY <1>1, <2>1, SMT DEF RowAfter
  <2>2. CASE e.op = "delete"
    BY <2>2, SMT DEF RowAfter
  <2>3. CASE e.op = "update"
    <3>1. row \in Row
      BY <1>3, <1>4, <2>3, SMT DEF Effective, Matches
    <3>2. Overlay(e.new, row) \in Row
      BY <1>1, <3>1, SMT DEF Overlay, Row, EntryValues
    <3>3. QED
      BY <2>3, <3>2, SMT DEF RowAfter
  <2>4. QED
    BY <1>1, <2>1, <2>2, <2>3 DEF Operations
<1>6. Put(e) = [work.rows EXCEPT ![e.table][e.pk] = RowAfter(e, row)]
  BY <1>1, <1>2, SMT DEF Put, row, Database
<1>7. QED
  BY <1>1, <1>2, <1>5, <1>6, SMT DEF Database

LEMMA ExecuteTyped ==
  ASSUME TypeOK, NEW e \in LogEntry, Execute(e)
  PROVE  work' \in File
<1>1. work \in File
  BY DEF TypeOK, File
<1>2. CASE Outcome(e) = "applied"
  <2>1. PICK d \in (IF work.triggers = {} THEN {Put(e)} ELSE {Put(e), work.rows}) :
            work' = [work EXCEPT !.rows = d]
    BY <1>2 DEF Execute
  <2>2. d \in Database
    BY <1>1, <1>2, <2>1, PutTyped DEF File
  <2>3. QED
    BY <1>1, <2>1, <2>2, SMT DEF File
<1>3. CASE Outcome(e) # "applied"
  BY <1>1, <1>3 DEF Execute
<1>4. QED
  BY <1>2, <1>3

LEMMA InitIInv == Init => IInv
<1> SUFFICES ASSUME Init PROVE IInv
  OBVIOUS
<1>1. PICK s \in Situations : call = s.call /\ disk = [rows |-> s.rows, triggers |-> Triggers]
  BY DEF Init
<1>2. s.call \in Call /\ s.rows \in Database
  BY SituationsAssumption, SMT
<1>3. call \in Call /\ Len(log) \in Nat
  BY <1>1, <1>2, SMT DEF log, Call
<1>4. disk \in File /\ disk.rows \in Database /\ disk.triggers = Triggers
  BY <1>1, <1>2, SMT DEF File
<1>5. TypeOK
  <2>1. conflicting = <<>> /\ newConflicting = <<>> /\ pos = 0 /\ turn = 0 /\ unrecoverable = 0
    BY DEF Init
  <2>2. phase \in Phases /\ code \in Codes
    BY DEF Init, Phases, Codes
  <2>3. before \in Database /\ disk \in File /\ work \in File
    BY <1>4 DEF Init
  <2>4. QED
    BY <1>3, <2>1, <2>2, <2>3, SMT DEF TypeOK, File
<1>6. Counts
  BY DEF Init, Counts
<1>7. Transaction
  BY <1>4 DEF Init, Transaction
<1>8. QED
  BY <1>5, <1>6, <1>7 DEF IInv

-----------------------------------------------------------------------------
(* The steps, those of the two loops first *)

LEMMA ApplyEntryStep == ASSUME IInv, ApplyEntry PROVE IInv'
<1> DEFINE e == log[pos + 1]
<1>1. /\ phase = "main" /\ phase' = "main" /\ pos < Len(log) /\ pos' = pos + 1
      /\ UNCHANGED <<call, before, disk, turn, newConflicting, code>>
      /\ Execute(e) /\ Count(e)
      /\ conflicting' = IF Outcome(e) = "conflict" THEN Append(conflicting, pos + 1)
                        ELSE conflicting
  BY DEF ApplyEntry
<1>2. TypeOK /\ Counts /\ Transaction
  BY DEF IInv
<1>3. Len(log) \in Nat /\ pos \in Nat /\ pos + 1 \in 1..Len(log) /\ log' = log
  BY <1>1, <1>2, LogTyped, SMT DEF TypeOK, log
<1>4. e \in LogEntry
  BY <1>2, <1>3, EntryTyped
<1> HIDE DEF e
<1>5. work' \in File
  BY <1>1, <1>2, <1>4, ExecuteTyped
<1>6. unrecoverable' = unrecoverable + (IF Outcome(e) = "nochange" THEN 1 ELSE 0)
  BY <1>1 DEF Count
<1>7. /\ conflicting \in Seq(1..Len(log)) /\ unrecoverable \in Nat
      /\ turn = 0 /\ newConflicting = <<>>
      /\ unrecoverable + Len(conflicting) <= pos
  BY <1>1, <1>2, <1>3, SMT DEF TypeOK, Counts
<1>8. conflicting' \in Seq(1..Len(log)) /\ Len(conflicting) \in Nat
  <2>1. Append(conflicting, pos + 1) \in Seq(1..Len(log))
    BY <1>3, <1>7, SMT
  <2>2. conflicting' \in Seq(1..Len(log))
    <3>1. conflicting' = Append(conflicting, pos + 1) \/ conflicting' = conflicting
      BY <1>1, Zenon
    <3>2. QED
      BY <1>7, <2>1, <3>1, Zenon
  <2>3. QED
    BY <1>7, <2>2, SMT
<1>9. unrecoverable' \in Nat /\ unrecoverable' + Len(conflicting') <= pos + 1
  <2>1. CASE Outcome(e) = "conflict"
    <3>1. Len(conflicting') = Len(conflicting) + 1
      BY <1>1, <1>3, <1>7, <2>1, SMT
    <3>2. unrecoverable' = unrecoverable
      BY <1>6, <1>7, <2>1, SMT
    <3>3. QED
      BY <1>3, <1>7, <1>8, <3>1, <3>2, SMT
  <2>2. CASE Outcome(e) # "conflict"
    <3>1. Len(conflicting') = Len(conflicting)
      BY <1>1, <2>2
    <3>2. unrecoverable' \in Nat /\ unrecoverable' <= unrecoverable + 1
      BY <1>6, <1>7, SMT
    <3>3. QED
      BY <1>3, <1>7, <1>8, <3>1, <3>2, SMT
  <2>3. QED
    BY <2>1, <2>2
<1>10. Len(conflicting') \in Nat
  BY <1>8, SMT
<1>11. TypeOK'
  <2>1. pos' \in 0..Len(log') /\ turn' \in 0..Len(conflicting') /\ unrecoverable' \in 0..Len(log')
    BY <1>1, <1>3, <1>7, <1>9, <1>10, SMT
  <2>2. newConflicting' \in Seq(1..Len(log')) /\ conflicting' \in Seq(1..Len(log'))
    BY <1>1, <1>2, <1>3, <1>8 DEF TypeOK
  <2>3. QED
    BY <1>1, <1>2, <1>5, <2>1, <2>2 DEF TypeOK, File
<1>12. Counts'
  BY <1>1, <1>7, <1>9, SMT DEF Counts
<1>13. Transaction'
  BY <1>1, <1>2 DEF Transaction
<1>14. QED
  BY <1>11, <1>12, <1>13 DEF IInv

LEMMA RetryEntryStep == ASSUME IInv, RetryEntry PROVE IInv'
<1> DEFINE i == conflicting[turn + 1]
           e == log[i]
<1>1. /\ phase = "retry" /\ phase' = "retry" /\ turn < Len(conflicting) /\ turn' = turn + 1
      /\ UNCHANGED <<call, before, disk, pos, conflicting, code>>
      /\ Execute(e) /\ Count(e)
      /\ newConflicting' = IF Outcome(e) = "conflict" THEN Append(newConflicting, i)
                           ELSE newConflicting
  BY DEF RetryEntry
<1>2. TypeOK /\ Counts /\ Transaction
  BY DEF IInv
<1>3. /\ Len(log) \in Nat /\ log' = log
      /\ conflicting \in Seq(1..Len(log)) /\ Len(conflicting) \in Nat /\ turn \in Nat
      /\ newConflicting \in Seq(1..Len(log)) /\ Len(newConflicting) \in Nat
      /\ unrecoverable \in Nat
  BY <1>1, <1>2, LogTyped, SMT DEF TypeOK, log
<1>4. i \in 1..Len(log)
  <2>1. turn + 1 \in 1..Len(conflicting)
    BY <1>1, <1>3, SMT
  <2>2. QED
    BY <1>3, <2>1, SMT
<1>5. e \in LogEntry
  BY <1>2, <1>4, EntryTyped
<1> HIDE DEF e, i
<1>6. work' \in File
  BY <1>1, <1>2, <1>5, ExecuteTyped
<1>7. unrecoverable' = unrecoverable + (IF Outcome(e) = "nochange" THEN 1 ELSE 0)
  BY <1>1 DEF Count
<1>8. unrecoverable + Len(newConflicting) + (Len(conflicting) - turn) <= Len(log)
  BY <1>1, <1>2 DEF Counts
<1>9. newConflicting' \in Seq(1..Len(log))
  <2>1. Append(newConflicting, i) \in Seq(1..Len(log))
    BY <1>3, <1>4, SMT
  <2>2. newConflicting' = Append(newConflicting, i) \/ newConflicting' = newConflicting
    BY <1>1, Zenon
  <2>3. QED
    BY <1>3, <2>1, <2>2, Zenon
<1>10. /\ unrecoverable' \in Nat /\ Len(newConflicting') \in Nat
       /\ unrecoverable' + Len(newConflicting') + (Len(conflicting) - (turn + 1)) <= Len(log)
  <2>1. CASE Outcome(e) = "conflict"
    <3>1. Len(newConflicting') = Len(newConflicting) + 1
      BY <1>1, <1>3, <1>4, <2>1, SMT
    <3>2. unrecoverable' = unrecoverable
      BY <1>3, <1>7, <2>1, SMT
    <3>3. QED
      BY <1>3, <1>8, <3>1, <3>2, SMT
  <2>2. CASE Outcome(e) # "conflict"
    <3>1. Len(newConflicting') = Len(newConflicting)
      BY <1>1, <2>2
    <3>2. unrecoverable' \in Nat /\ unrecoverable' <= unrecoverable + 1
      BY <1>3, <1>7, SMT
    <3>3. QED
      BY <1>3, <1>8, <3>1, <3>2, SMT
  <2>3. QED
    BY <2>1, <2>2
<1>11. TypeOK'
  <2>1. turn' \in 0..Len(conflicting') /\ unrecoverable' \in 0..Len(log')
    BY <1>1, <1>3, <1>10, SMT
  <2>2. newConflicting' \in Seq(1..Len(log')) /\ conflicting' \in Seq(1..Len(log'))
    BY <1>1, <1>3, <1>9
  <2>3. pos' \in 0..Len(log')
    BY <1>1, <1>2, <1>3 DEF TypeOK
  <2>4. QED
    BY <1>1, <1>2, <1>6, <2>1, <2>2, <2>3 DEF TypeOK, File
<1>12. Counts'
  BY <1>1, <1>3, <1>10, SMT DEF Counts
<1>13. Transaction'
  BY <1>1, <1>2, <1>3 DEF Transaction
<1>14. QED
  BY <1>11, <1>12, <1>13 DEF IInv

LEMMA NextRoundStep == ASSUME IInv, NextRound PROVE IInv'
<1>1. TypeOK /\ Counts /\ Transaction
  BY DEF IInv
<1>2. /\ phase = "retry" /\ turn = Len(conflicting)
      /\ conflicting' = newConflicting /\ newConflicting' = <<>> /\ turn' = 0
      /\ phase' = IF newConflicting = <<>> THEN "restore" ELSE "retry"
      /\ UNCHANGED <<call, before, disk, work, pos, unrecoverable, code>>
  BY DEF NextRound
<1>3. /\ Len(log) \in Nat /\ log' = log /\ unrecoverable \in Nat
      /\ newConflicting \in Seq(1..Len(log)) /\ Len(newConflicting) \in Nat
      /\ Len(conflicting) \in Nat /\ pos \in 0..Len(log)
  BY <1>1, <1>2, LogTyped, SMT DEF TypeOK, log
<1>4. unrecoverable + Len(newConflicting) <= Len(log)
  <2>1. unrecoverable + Len(newConflicting) + (Len(conflicting) - turn) <= Len(log)
    BY <1>1, <1>2 DEF Counts
  <2>2. QED
    BY <1>2, <1>3, <2>1, SMT
<1>5. phase' \in {"restore", "retry"} /\ (phase' = "restore" => newConflicting = <<>>)
  BY <1>2
<1>6. newConflicting' \in Seq(1..Len(log')) /\ Len(newConflicting') = 0
  BY <1>2, SMT
<1>7. TypeOK'
  <2>1. turn' \in 0..Len(conflicting') /\ unrecoverable' \in 0..Len(log')
    BY <1>2, <1>3, <1>4, SMT
  <2>2. conflicting' \in Seq(1..Len(log')) /\ pos' \in 0..Len(log')
    BY <1>2, <1>3
  <2>3. phase' \in Phases
    BY <1>5 DEF Phases
  <2>4. QED
    BY <1>1, <1>2, <1>6, <2>1, <2>2, <2>3 DEF TypeOK
<1>8. Counts'
  <2>1. unrecoverable' + Len(newConflicting') + (Len(conflicting') - turn') <= Len(log')
    BY <1>2, <1>3, <1>4, <1>6, SMT
  <2>2. QED
    BY <1>5, <2>1, SMT DEF Counts
<1>9. Transaction'
  BY <1>1, <1>2, <1>3, <1>5 DEF Transaction
<1>10. QED
  BY <1>7, <1>8, <1>9 DEF IInv

LEMMA CallApplyStep == ASSUME IInv, CallApply PROVE IInv'
<1>1. TypeOK /\ Counts /\ Transaction
  BY DEF IInv
<1>2. /\ phase = "idle" /\ before' = disk.rows /\ phase' \in {"idle", "begin"}
      /\ code' \in {"ok", "none"}
      /\ pos' = 0 /\ conflicting' = <<>> /\ turn' = 0 /\ newConflicting' = <<>>
      /\ unrecoverable' = 0
      /\ UNCHANGED <<call, disk, work>>
  BY DEF CallApply
<1>3. Len(log) \in Nat /\ log' = log /\ disk.rows \in Database
  BY <1>1, <1>2, LogTyped, SMT DEF TypeOK, log
<1>4. TypeOK'
  <2>1. /\ pos' \in 0..Len(log') /\ unrecoverable' \in 0..Len(log')
        /\ conflicting' \in Seq(1..Len(log')) /\ newConflicting' \in Seq(1..Len(log'))
        /\ turn' \in 0..Len(conflicting')
    BY <1>2, <1>3, SMT
  <2>2. phase' \in Phases /\ code' \in Codes
    BY <1>2 DEF Phases, Codes
  <2>3. QED
    BY <1>1, <1>2, <1>3, <2>1, <2>2 DEF TypeOK
<1>5. Counts'
  BY <1>2 DEF Counts
<1>6. Transaction'
  BY <1>1, <1>2 DEF Transaction
<1>7. QED
  BY <1>4, <1>5, <1>6 DEF IInv

\* The steps that leave the loops' variables alone: all that matters of them is
\* where they lead and what they make of the transaction and the file.
LEMMA OtherStep ==
  ASSUME IInv, UNCHANGED <<call, before, loop>>,
         phase' \in Phases, code' \in Codes, work' \in File, disk' \in File,
         phase' = "begin" => phase = "begin",
         phase' = "drop" => phase \in {"begin", "drop"},
         phase' = "main" => phase = "drop",
         phase' = "retry" => phase = "main" /\ pos = Len(log),
         phase' = "restore" => /\ phase = "main"
                               /\ pos = Len(log) /\ conflicting = <<>>,
         phase' = "release" => /\ phase = "restore" /\ unrecoverable = 0
                               /\ work'.triggers = Triggers,
         phase' \in {"idle", "begin", "drop"} => work' = disk',
         phase' # "idle" => phase # "idle" /\ disk' = disk,
         disk'.triggers = Triggers
  PROVE  IInv'
<1>1. TypeOK /\ Counts /\ Transaction
  BY DEF IInv
<1>2. /\ log' = log /\ call' = call /\ before' = before /\ pos' = pos
      /\ conflicting' = conflicting /\ turn' = turn
      /\ newConflicting' = newConflicting /\ unrecoverable' = unrecoverable
  BY DEF loop, log
<1>3. /\ Len(log) \in Nat /\ Len(conflicting) \in Nat
      /\ unrecoverable \in Nat /\ pos \in Nat
  BY <1>1, LogTyped, SMT DEF TypeOK
<1>4. TypeOK'
  BY <1>1, <1>2 DEF TypeOK, File
<1>5. Counts'
  <2>1. phase' = "main" => unrecoverable + Len(conflicting) <= pos
    BY <1>1, <1>3, SMT DEF Counts
  <2>2. phase' = "retry" =>
          unrecoverable + Len(newConflicting) + (Len(conflicting) - turn) <= Len(log)
    <3> SUFFICES ASSUME phase' = "retry"
                 PROVE  unrecoverable + Len(newConflicting) + (Len(conflicting) - turn)
                          <= Len(log)
      OBVIOUS
    <3>1. turn = 0 /\ newConflicting = <<>> /\ unrecoverable + Len(conflicting) <= pos
      BY <1>1 DEF Counts
    <3>2. Len(newConflicting) = 0
      BY <3>1, SMT
    <3>3. QED
      BY <1>3, <3>1, <3>2, SMT
  <2>3. phase' \in {"begin", "drop"} => pos = 0 /\ conflicting = <<>> /\ unrecoverable = 0
    BY <1>1 DEF Counts
  <2>4. phase' \in {"begin", "drop", "main"} => turn = 0 /\ newConflicting = <<>>
    BY <1>1 DEF Counts
  <2>5. QED
    BY <1>2, <2>1, <2>2, <2>3, <2>4, Zenon DEF Counts
<1>6. Transaction'
  <2>1. phase' \in {"retry", "restore", "release"} => pos = Len(log)
    BY <1>1 DEF Transaction
  <2>2. phase' \in {"restore", "release"} => conflicting = <<>>
    BY <1>1 DEF Transaction
  <2>3. phase' # "idle" => disk'.rows = before
    BY <1>1 DEF Transaction
  <2>4. QED
    BY <1>2, <2>1, <2>2, <2>3, Zenon DEF Transaction
<1>7. QED
  BY <1>4, <1>5, <1>6 DEF IInv

LEMMA EndMainStep == ASSUME IInv, EndMain PROVE IInv'
<1>1. /\ phase = "main" /\ phase' \in {"restore", "retry"}
      /\ phase' = "restore" => conflicting = <<>>
      /\ pos = Len(log)
      /\ UNCHANGED <<call, before, disk, work, loop, code>>
  BY DEF EndMain
<1>2. code \in Codes /\ work \in File /\ disk \in File /\ disk.triggers = Triggers
  BY DEF IInv, TypeOK, Transaction, File
<1>3. QED
  BY <1>1, <1>2, OtherStep DEF Phases

LEMMA BeginningStep == ASSUME IInv, Savepoint \/ DropTriggers PROVE IInv'
<1>1. /\ \/ phase = "begin" /\ phase' = "drop" /\ work' = work
         \/ phase = "drop" /\ phase' = "main" /\ work' = Dropped
      /\ UNCHANGED <<call, before, disk, loop, code>>
  BY DEF Savepoint, DropTriggers
<1>2. /\ code \in Codes /\ work \in File /\ disk \in File /\ disk.triggers = Triggers
      /\ phase \in {"begin", "drop"} => work = disk
  BY DEF IInv, TypeOK, Transaction, File
<1>3. Dropped \in File
  BY <1>2, SMT DEF Dropped, File
<1>4. QED
  BY <1>1, <1>2, <1>3, OtherStep DEF Phases

\* createTriggers puts back what the file has: all of them.
LEMMA RestoredTyped ==
  ASSUME IInv
  PROVE  Restored \in File /\ Restored.triggers = Triggers
<1>1. work \in File /\ disk \in File /\ disk.triggers = Triggers
  BY DEF IInv, TypeOK, Transaction, File
<1>2. QED
  BY <1>1, SMT DEF Restored, File

LEMMA RestoringStep == ASSUME IInv, GiveUp \/ RestoreTriggers PROVE IInv'
<1>1. /\ work' = Restored /\ UNCHANGED <<call, before, disk, loop>>
      /\ \/ phase' = "rollback" /\ code' \in {"conflicts", "error"}
         \/ phase = "restore" /\ phase' = "release" /\ unrecoverable = 0 /\ code' = code
      /\ phase # "idle"
  BY DEF GiveUp, RestoreTriggers, FailWith
<1>2. code \in Codes /\ disk \in File /\ disk.triggers = Triggers
  BY DEF IInv, TypeOK, Transaction, File
<1>3. QED
  BY <1>1, <1>2, RestoredTyped, OtherStep DEF Phases, Codes

\* A release commits, or fails and is rolled back.
LEMMA ReleaseStep == ASSUME IInv, Release PROVE IInv'
<1>1. /\ phase = "release" /\ UNCHANGED <<call, before, work, loop>>
      /\ \/ phase' = "idle" /\ code' = "ok" /\ disk' = work
         \/ phase' = "rollback" /\ code' = "conflicts" /\ disk' = disk
  BY DEF Release, FailWith
<1>2. /\ work \in File /\ disk \in File /\ disk.triggers = Triggers
      /\ phase = "release" => work.triggers = Triggers
  BY DEF IInv, TypeOK, Transaction, File
<1>3. QED
  BY <1>1, <1>2, OtherStep DEF Phases, Codes

\* The three ways back to the file as it was.
LEMMA AbandoningStep == ASSUME IInv, Rollback \/ Fail \/ Crash PROVE IInv'
<1>1. /\ work \in File /\ disk \in File /\ disk.triggers = Triggers
      /\ phase = "begin" => work = disk
      /\ code \in Codes
  BY DEF IInv, TypeOK, Transaction, File
<1>2. CASE Rollback
  BY <1>1, <1>2, OtherStep DEF Rollback, Phases
<1>3. CASE Crash
  BY <1>1, <1>3, OtherStep DEF Crash, Phases, Codes
<1>4. CASE Fail
  <2>1. /\ UNCHANGED <<call, before, disk, loop>> /\ code' = "failed"
        /\ \/ phase = "begin" /\ phase' = "idle" /\ work' = work
           \/ phase # "idle" /\ phase' = "rollback" /\ work' \in {work, Restored}
    BY <1>4 DEF Fail, FailWith
  <2>2. work' \in File
    BY <1>1, <2>1, RestoredTyped
  <2>3. QED
    BY <1>1, <2>1, <2>2, OtherStep DEF Phases, Codes
<1>5. QED
  BY <1>2, <1>3, <1>4

LEMMA NextIInv == IInv /\ [Next]_vars => IInv'
<1> SUFFICES ASSUME IInv, [Next]_vars PROVE IInv'
  OBVIOUS
<1>1. CASE CallApply
  BY <1>1, CallApplyStep
<1>2. CASE Savepoint \/ DropTriggers
  BY <1>2, BeginningStep
<1>3. CASE ApplyEntry
  BY <1>3, ApplyEntryStep
<1>4. CASE EndMain
  BY <1>4, EndMainStep
<1>5. CASE RetryEntry
  BY <1>5, RetryEntryStep
<1>6. CASE NextRound
  BY <1>6, NextRoundStep
<1>7. CASE GiveUp \/ RestoreTriggers
  BY <1>7, RestoringStep
<1>8. CASE Release
  BY <1>8, ReleaseStep
<1>9. CASE Rollback \/ Fail \/ Crash
  BY <1>9, AbandoningStep
<1>10. CASE UNCHANGED vars
  BY <1>10 DEF IInv, TypeOK, Counts, Transaction, vars, loop, log
<1>11. QED
  BY <1>1, <1>2, <1>3, <1>4, <1>5, <1>6, <1>7, <1>8, <1>9, <1>10 DEF Next, Step

-----------------------------------------------------------------------------
(* Theorems *)

THEOREM Invariance == Spec => []IInv
  BY InitIInv, NextIInv, PTL DEF Spec

\* Every variable of ApplyChangeset holds what the Go code can hold in it; no
\* more conflicts are counted as unrecoverable than the changeset has entries.
THEOREM TypeCorrect == Spec => []TypeOK
<1>1. IInv => TypeOK
  BY DEF IInv
<1>2. QED
  BY <1>1, Invariance, PTL

\* The file changes only when a call succeeds, and then to a transaction in
\* which every entry was executed or skipped, none put off and none without its
\* row, in which no reference dangles and the user's triggers are back.
Committed ==
    /\ code' = "ok"
    /\ pos = Len(log) /\ conflicting = <<>> /\ unrecoverable = 0
    /\ disk'.rows \in Referential /\ disk'.triggers = Triggers

CommitOnSuccess == [][disk' # disk => Committed]_vars

THEOREM SuccessCommits == Spec => CommitOnSuccess
<1>1. IInv /\ [Next]_vars => [disk' # disk => Committed]_vars
  <2> SUFFICES ASSUME IInv, Next, disk' # disk PROVE Committed
    BY DEF vars
  <2>1. Release
    BY DEF Next, Step, CallApply, Savepoint, DropTriggers, ApplyEntry, EndMain, RetryEntry,
           NextRound, GiveUp, RestoreTriggers, Rollback, Fail, Crash
  <2>2. phase = "release" /\ work.rows \in Referential /\ disk' = work /\ code' = "ok"
    BY <2>1 DEF Release
  <2>3. QED
    BY <2>2 DEF IInv, Transaction, Committed
<1>2. QED
  BY <1>1, Invariance, PTL DEF Spec, CommitOnSuccess

-----------------------------------------------------------------------------
(* The recursion of Turns *)

Wanted == Atomic!Wanted(log)

\* One more entry executed, any of those left that takes effect.
OneMore(l, states) ==
    {s \in UNION {{[left |-> r.left \ {i}, rows |-> Atomic!DatabaseAfter(l[i], r.rows)] :
                        i \in r.left} : r \in states} : s.rows # Absent}

TurnsUpTo(l, d, N, after) ==
    after = [n \in 0..N |-> IF n = 0 THEN {[left |-> Atomic!Wanted(l), rows |-> d]}
                           ELSE OneMore(l, after[n - 1])]

LEMMA TurnsExist ==
    ASSUME NEW l, NEW d, NEW N \in Nat
    PROVE  \E after : TurnsUpTo(l, d, N, after)
<1> DEFINE start == {[left |-> Atomic!Wanted(l), rows |-> d]}
           T == {n \in Nat : \E after : TurnsUpTo(l, d, n, after)}
<1>1. 0 \in T
  <2> DEFINE first == [i \in 0..0 |-> start]
  <2>1. TurnsUpTo(l, d, 0, first)
    BY DEF TurnsUpTo
  <2> QED
    BY <2>1
<1>2. ASSUME NEW n \in Nat, n \in T PROVE n + 1 \in T
  <2>1. PICK f : TurnsUpTo(l, d, n, f)
    BY <1>2
  <2> DEFINE g == [i \in 0..(n + 1) |-> IF i = n + 1 THEN OneMore(l, f[n]) ELSE f[i]]
  <2>2. g[n + 1] = OneMore(l, f[n]) /\ \A i \in 0..n : g[i] = f[i]
    OBVIOUS
  <2>3. f = [i \in 0..n |-> IF i = 0 THEN start ELSE OneMore(l, f[i - 1])]
    BY <2>1 DEF TurnsUpTo
  <2>4. ASSUME NEW i \in 0..(n + 1)
        PROVE  g[i] = IF i = 0 THEN start ELSE OneMore(l, g[i - 1])
    <3>1. CASE i = n + 1
      BY <2>2, <3>1
    <3>2. CASE i = 0
      BY <2>2, <2>3, <3>2
    <3>3. CASE i \in 1..n
      <4>1. i - 1 \in 0..n /\ i \in 0..n /\ i # 0
        BY <3>3
      <4>2. f[i] = OneMore(l, f[i - 1])
        BY <2>3, <4>1
      <4> QED
        BY <2>2, <4>1, <4>2
    <3> QED
      BY <3>1, <3>2, <3>3
  <2>5. TurnsUpTo(l, d, n + 1, g)
    <3>1. g = [i \in 0..(n + 1) |-> g[i]]
      OBVIOUS
    <3> HIDE DEF g
    <3> QED
      BY <2>4, <3>1 DEF TurnsUpTo
  <2> QED
    BY <2>5
<1> HIDE DEF T
<1>3. Nat \subseteq T
  BY <1>1, <1>2, AllNaturals
<1> QED
  BY <1>3 DEF T

\* The abstract specification executes an entry as Changeset does.
LEMMA SameExecution ==
    ASSUME NEW e, NEW d
    PROVE  Atomic!DatabaseAfter(e, d) = DatabaseAfter(e, d)
  BY DEF Atomic!DatabaseAfter, Atomic!Effective, Atomic!RowAfter, Atomic!Overlay,
         Atomic!Matches, Atomic!Blank, DatabaseAfter, Effective, RowAfter, Overlay,
         Matches, Blank

LEMMA SameCardinality ==
    ASSUME NEW S
    PROVE  Atomic!Cardinality(S) = Cardinality(S)
  BY DEF Atomic!Cardinality, Cardinality

LEMMA TurnEquations ==
    ASSUME NEW l, NEW d, Cardinality(Atomic!Wanted(l)) \in Nat
    PROVE  /\ Atomic!Turns(l, d)[0] = {[left |-> Atomic!Wanted(l), rows |-> d]}
           /\ \A n \in 1..Cardinality(Atomic!Wanted(l)) :
                Atomic!Turns(l, d)[n] = OneMore(l, Atomic!Turns(l, d)[n - 1])
<1> DEFINE N == Cardinality(Atomic!Wanted(l))
           t == Atomic!Turns(l, d)
<1>1. t = CHOOSE after : TurnsUpTo(l, d, N, after)
  <2>1. t = CHOOSE after : TurnsUpTo(l, d, Atomic!Cardinality(Atomic!Wanted(l)), after)
    BY DEF Atomic!Turns, TurnsUpTo, OneMore
  <2> QED
    BY <2>1, SameCardinality
<1>2. TurnsUpTo(l, d, N, t)
  BY <1>1, TurnsExist
<1>3. t = [n \in 0..N |-> IF n = 0 THEN {[left |-> Atomic!Wanted(l), rows |-> d]}
                          ELSE OneMore(l, t[n - 1])]
  BY <1>2 DEF TurnsUpTo
<1> HIDE DEF t, N
<1>4. N \in Nat
  BY DEF N
<1>5. t[0] = {[left |-> Atomic!Wanted(l), rows |-> d]}
  BY <1>3, <1>4
<1>6. ASSUME NEW n \in 1..N PROVE t[n] = OneMore(l, t[n - 1])
  <2>1. n \in 0..N /\ n # 0
    BY <1>4
  <2> QED
    BY <1>3, <2>1
<1> QED
  BY <1>5, <1>6 DEF t, N

-----------------------------------------------------------------------------
(* What the transaction holds: the entries executed so far, each once *)

\* Entries not read yet, put off to this round and not tried again, put off to
\* the next.
Pending ==
    {i \in 1..Len(log) : \/ i > pos
                         \/ \E j \in (turn + 1)..Len(conflicting) : i = conflicting[j]
                         \/ \E j \in 1..Len(newConflicting) : i = newConflicting[j]}

Left == Wanted \cap Pending

\* No entry is put off twice, nor while it is still to be read.
PutOffOnce ==
    /\ \A j \in 1..Len(conflicting) : conflicting[j] \in Wanted /\ conflicting[j] <= pos
    /\ \A j \in 1..Len(newConflicting) :
            newConflicting[j] \in Wanted /\ newConflicting[j] <= pos
    /\ \A j, m \in 1..Len(conflicting) : conflicting[j] = conflicting[m] => j = m
    /\ \A j, m \in 1..Len(newConflicting) : newConflicting[j] = newConflicting[m] => j = m
    /\ \A j \in (turn + 1)..Len(conflicting), m \in 1..Len(newConflicting) :
            conflicting[j] # newConflicting[m]
    /\ phase \in {"restore", "release"} => newConflicting = <<>>
    /\ phase \in {"main", "retry"} => work.triggers = {}

ExecutedOnce ==
    phase \in {"main", "retry", "restore", "release"} /\ unrecoverable = 0 =>
        [left |-> Left, rows |-> work.rows] \in
            Atomic!Turns(log, before)[Cardinality(Wanted) - Cardinality(Left)]

LEMMA WantedFinite ==
    ASSUME TypeOK
    PROVE  /\ Wanted = {i \in 1..Len(log) : log[i].table \notin Skipped}
           /\ IsFiniteSet(Wanted) /\ Cardinality(Wanted) \in Nat
           /\ IsFiniteSet(Left) /\ Cardinality(Left) \in 0..Cardinality(Wanted)
<1>1. Wanted = {i \in 1..Len(log) : log[i].table \notin Skipped}
  BY LogTyped DEF Wanted, Atomic!Wanted
<1>2. IsFiniteSet(1..Len(log))
  BY LogTyped, FS_Interval
<1>3. IsFiniteSet(Wanted)
  BY <1>1, <1>2, FS_Subset
<1>4. Left \in SUBSET Wanted
  BY DEF Left
<1>5. IsFiniteSet(Left) /\ Cardinality(Left) <= Cardinality(Wanted)
  BY <1>3, <1>4, FS_Subset
<1>6. Cardinality(Wanted) \in Nat /\ Cardinality(Left) \in Nat
  BY <1>3, <1>5, FS_CardinalityType
<1> QED
  BY <1>1, <1>3, <1>5, <1>6

LEMMA OutcomeKinds ==
    ASSUME NEW e
    PROVE  /\ Outcome(e) \in {"skipped", "applied", "conflict", "nochange"}
           /\ Outcome(e) = "skipped" <=> e.table \in Skipped
           /\ Outcome(e) = "applied" => Effective(e, work.rows[e.table][e.pk])
<1> DEFINE effective == Effective(e, work.rows[e.table][e.pk])
<1>1. CASE e.table \in Skipped
  <2>1. Outcome(e) = "skipped"
    BY <1>1, Zenon DEF Outcome
  <2> QED
    BY <1>1, <2>1
<1>2. CASE e.table \notin Skipped /\ effective /\ Put(e) \in Admitted
  <2>1. Outcome(e) = "applied"
    BY <1>2, Zenon DEF Outcome
  <2> QED
    BY <1>2, <2>1
<1>3. CASE e.table \notin Skipped /\ effective /\ Put(e) \notin Admitted
  <2>1. Outcome(e) = "conflict"
    BY <1>3, Zenon DEF Outcome
  <2> QED
    BY <1>3, <2>1
<1>4. CASE e.table \notin Skipped /\ ~effective /\ e.op = "insert"
  <2>1. Outcome(e) = "conflict"
    BY <1>4, Zenon DEF Outcome
  <2> QED
    BY <1>4, <2>1
<1>5. CASE e.table \notin Skipped /\ ~effective /\ e.op # "insert"
  <2>1. Outcome(e) = "nochange"
    BY <1>5, Zenon DEF Outcome
  <2> QED
    BY <1>5, <2>1
<1> QED
  BY <1>1, <1>2, <1>3, <1>4, <1>5, Zenon

\* With the triggers dropped, a statement that succeeds does what it says.
LEMMA ExecuteRows ==
    ASSUME TypeOK, NEW e, Execute(e), work.triggers = {}
    PROVE  /\ work'.triggers = {}
           /\ Outcome(e) = "applied" => work'.rows = Put(e)
           /\ Outcome(e) # "applied" => work'.rows = work.rows
<1>1. work \in File
  BY DEF TypeOK, File
<1>2. CASE Outcome(e) = "applied"
  <2>1. work' = [work EXCEPT !.rows = Put(e)]
    BY <1>2 DEF Execute
  <2> HIDE DEF Put
  <2> QED
    BY <1>1, <1>2, <2>1 DEF File
<1>3. CASE Outcome(e) # "applied"
  BY <1>3 DEF Execute
<1> QED
  BY <1>2, <1>3

\* A statement that succeeds is a turn of the abstract specification.
LEMMA OneMoreTurn ==
    ASSUME TypeOK, NEW i \in Left, Outcome(log[i]) = "applied",
           [left |-> Left, rows |-> work.rows] \in
                Atomic!Turns(log, before)[Cardinality(Wanted) - Cardinality(Left)]
    PROVE  [left |-> Left \ {i}, rows |-> Put(log[i])] \in
                Atomic!Turns(log, before)[Cardinality(Wanted) - Cardinality(Left \ {i})]
<1> DEFINE n == Cardinality(Wanted) - Cardinality(Left)
           e == log[i]
           r == [left |-> Left, rows |-> work.rows]
           t == Atomic!Turns(log, before)
<1>1. Cardinality(Wanted) \in Nat /\ Cardinality(Left) \in 0..Cardinality(Wanted) /\ IsFiniteSet(Left)
  BY WantedFinite
<1>2. Cardinality(Left \ {i}) = Cardinality(Left) - 1
  BY <1>1, FS_RemoveElement
<1>3. Cardinality(Left \ {i}) \in Nat
  BY <1>1, FS_RemoveElement, FS_CardinalityType
<1>4. /\ n + 1 \in 1..Cardinality(Wanted) /\ (n + 1) - 1 = n
      /\ n + 1 = Cardinality(Wanted) - Cardinality(Left \ {i})
  BY <1>1, <1>2, <1>3
<1> HIDE DEF n
<1>5. t[n + 1] = OneMore(log, t[n])
  BY <1>1, <1>4, TurnEquations DEF Wanted
<1>6. r \in t[n]
  BY DEF n
<1>7. e \in LogEntry
  BY EntryTyped DEF Left, Pending
<1>8. Put(e) \in Database /\ work.rows \in Database /\ e.pk \in Keys
  BY <1>7, PutTyped DEF TypeOK, LogEntry
<1>9. Effective(e, work.rows[e.table][e.pk])
  BY OutcomeKinds
<1> HIDE DEF e
<1>10. Atomic!DatabaseAfter(e, work.rows) = Put(e) /\ Put(e) # Absent
  <2>1. DatabaseAfter(e, work.rows) = Put(e)
    BY <1>8, <1>9, AbsentAssumption DEF DatabaseAfter, Put
  <2> QED
    BY <1>8, <2>1, SameExecution, AbsentAssumption
<1> DEFINE s == [left |-> r.left \ {i}, rows |-> Atomic!DatabaseAfter(log[i], r.rows)]
<1>11. i \in r.left /\ s = [left |-> Left \ {i}, rows |-> Put(e)] /\ s.rows # Absent
  BY <1>10 DEF e
<1> HIDE DEF r, t
<1>12. s \in OneMore(log, t[n])
  <2>1. s \in {[left |-> r.left \ {j}, rows |-> Atomic!DatabaseAfter(log[j], r.rows)] : j \in r.left}
    BY <1>11
  <2> HIDE DEF s
  <2> QED
    BY <1>6, <1>11, <2>1 DEF OneMore
<1> HIDE DEF s
<1> QED
  BY <1>4, <1>5, <1>11, <1>12 DEF e, t

\* One entry tried, in either loop.
LEMMA TriedEntry ==
    ASSUME IInv, ExecutedOnce, NEW i \in Pending, phase \in {"main", "retry"},
           work.triggers = {}, Execute(log[i]), Count(log[i]),
           UNCHANGED <<call, before>>,
           Left' = IF Outcome(log[i]) = "conflict" THEN Left ELSE Left \ {i}
    PROVE  ExecutedOnce'
<1> SUFFICES ASSUME unrecoverable' = 0
             PROVE  [left |-> Left', rows |-> work'.rows] \in
                        Atomic!Turns(log, before)[Cardinality(Wanted) - Cardinality(Left')]
  BY DEF ExecutedOnce, log, Wanted
<1>1. TypeOK
  BY DEF IInv
<1>2. unrecoverable \in Nat
  BY <1>1, LogTyped DEF TypeOK
<1>3. Outcome(log[i]) # "nochange" /\ unrecoverable = 0
  BY <1>2 DEF Count
<1>4. [left |-> Left, rows |-> work.rows] \in
          Atomic!Turns(log, before)[Cardinality(Wanted) - Cardinality(Left)]
  BY <1>3 DEF ExecutedOnce
<1>5. CASE Outcome(log[i]) = "applied"
  <2>1. i \in Left
    BY <1>1, <1>5, OutcomeKinds, WantedFinite DEF Left, Pending
  <2>2. work'.rows = Put(log[i]) /\ Left' = Left \ {i}
    BY <1>1, <1>5, ExecuteRows
  <2> QED
    BY <1>1, <1>4, <1>5, <2>1, <2>2, OneMoreTurn
<1>6. CASE Outcome(log[i]) # "applied"
  <2>1. work'.rows = work.rows
    BY <1>1, <1>6, ExecuteRows
  <2>2. Left' = Left
    <3>1. CASE Outcome(log[i]) = "conflict"
      BY <3>1
    <3>2. CASE Outcome(log[i]) = "skipped"
      BY <1>1, <3>2, OutcomeKinds, WantedFinite DEF Left
    <3> QED
      BY <1>3, <1>6, <3>1, <3>2, OutcomeKinds
  <2> QED
    BY <1>4, <2>1, <2>2
<1> QED
  BY <1>5, <1>6

\* An entry read is no longer pending, unless it is put off.
LEMMA ApplyEntryTurn ==
    ASSUME IInv, PutOffOnce, ApplyEntry
    PROVE  /\ PutOffOnce' /\ pos + 1 \in Pending
           /\ Left' = IF Outcome(log[pos + 1]) = "conflict" THEN Left ELSE Left \ {pos + 1}
<1> DEFINE i == pos + 1
           e == log[i]
<1>1. /\ phase = "main" /\ phase' = "main" /\ pos < Len(log) /\ pos' = i
      /\ UNCHANGED <<call, before, disk, turn, newConflicting>>
      /\ Execute(e) /\ Count(e)
      /\ conflicting' = IF Outcome(e) = "conflict" THEN Append(conflicting, i)
                        ELSE conflicting
  BY DEF ApplyEntry
<1>2. TypeOK /\ turn = 0 /\ newConflicting = <<>> /\ log' = log /\ Wanted' = Wanted
  BY <1>1 DEF IInv, Counts, log, Wanted
<1>3. /\ Len(log) \in Nat /\ pos \in Nat /\ i \in 1..Len(log)
      /\ conflicting \in Seq(1..Len(log)) /\ Len(conflicting) \in Nat
      /\ Len(newConflicting) = 0
  BY <1>1, <1>2, LogTyped DEF TypeOK
<1>4. work.triggers = {} /\ work'.triggers = {}
  BY <1>1, <1>2, ExecuteRows DEF PutOffOnce
<1>5. Outcome(e) = "conflict" => i \in Wanted
  BY <1>2, <1>3, OutcomeKinds, WantedFinite
<1> HIDE DEF e
<1>6. Pending = {k \in 1..Len(log) : k > pos \/ \E j \in 1..Len(conflicting) : k = conflicting[j]}
  BY <1>2, <1>3 DEF Pending
<1>7. Pending' = {k \in 1..Len(log) : k > i \/ \E j \in 1..Len(conflicting') : k = conflicting'[j]}
  BY <1>1, <1>2, <1>3 DEF Pending
<1>8. CASE Outcome(e) = "conflict"
  <2> DEFINE n == Len(conflicting)
  <2>1. /\ 1..Len(conflicting') = (1..n) \cup {n + 1} /\ n + 1 \notin 1..n
        /\ \A j \in 1..n : conflicting'[j] = conflicting[j]
        /\ conflicting'[n + 1] = i
    <3>1. Len(conflicting') = n + 1
      BY <1>1, <1>3, <1>8
    <3>2. \A j \in 1..n : conflicting'[j] = conflicting[j]
      BY <1>1, <1>3, <1>8
    <3>3. conflicting'[n + 1] = i
      BY <1>1, <1>3, <1>8
    <3> QED
      BY <1>3, <3>1, <3>2, <3>3
  <2> HIDE DEF n
  <2>2. \A j \in 1..n : /\ conflicting[j] \in Wanted /\ conflicting[j] <= pos
                        /\ conflicting[j] \in 1..Len(log) /\ conflicting[j] < i
    BY <1>3 DEF PutOffOnce, n
  <2>3. PutOffOnce'
    <3>1. \A j \in 1..Len(conflicting') : conflicting'[j] \in Wanted /\ conflicting'[j] <= i
      <4>1. \A j \in 1..n : conflicting'[j] \in Wanted /\ conflicting'[j] <= i
        BY <1>3, <2>1, <2>2
      <4>2. conflicting'[n + 1] \in Wanted /\ conflicting'[n + 1] <= i
        BY <1>3, <1>5, <1>8, <2>1
      <4> QED
        BY <2>1, <4>1, <4>2
    <3>2. \A j, m \in 1..Len(conflicting') : conflicting'[j] = conflicting'[m] => j = m
      <4>1. \A j, m \in 1..n : conflicting[j] = conflicting[m] => j = m
        BY DEF PutOffOnce, n
      <4>2. \A j \in 1..n : conflicting[j] # i
        BY <1>3, <2>2
      <4> QED
        BY <2>1, <4>1, <4>2
    <3> QED
      BY <1>1, <1>2, <1>3, <1>4, <3>1, <3>2 DEF PutOffOnce
  <2>4. Pending' = Pending
    <3>1. \A k \in 1..Len(log) :
            (\E j \in 1..Len(conflicting') : k = conflicting'[j])
                <=> k = i \/ \E j \in 1..n : k = conflicting[j]
      BY <2>1
    <3>2. \A k \in 1..Len(log) : k > pos <=> k > i \/ k = i
      BY <1>3
    <3> QED
      BY <1>6, <1>7, <3>1, <3>2 DEF n
  <2>5. i \in Pending /\ Left' = Left
    BY <1>2, <1>3, <1>6, <2>4 DEF Left
  <2> QED
    BY <1>8, <2>3, <2>5 DEF e
<1>9. CASE Outcome(e) # "conflict"
  <2>1. conflicting' = conflicting
    BY <1>1, <1>9
  <2>2. \A j \in 1..Len(conflicting) : conflicting[j] <= pos /\ conflicting[j] \in 1..Len(log)
    BY <1>3 DEF PutOffOnce
  <2>3. PutOffOnce'
    <3>1. /\ \A j \in 1..Len(conflicting) : conflicting[j] \in Wanted /\ conflicting[j] <= i
          /\ \A j, m \in 1..Len(conflicting) : conflicting[j] = conflicting[m] => j = m
      BY <1>3, <2>2 DEF PutOffOnce
    <3> QED
      BY <1>1, <1>2, <1>3, <1>4, <2>1, <3>1 DEF PutOffOnce
  <2>4. Pending' = Pending \ {i}
    BY <1>3, <1>6, <1>7, <2>1, <2>2
  <2>5. i \in Pending /\ Left' = Left \ {i}
    BY <1>2, <1>3, <1>6, <2>4 DEF Left
  <2> QED
    BY <1>9, <2>3, <2>5 DEF e
<1> QED
  BY <1>8, <1>9

LEMMA ApplyEntryTraced ==
    ASSUME IInv, PutOffOnce, ExecutedOnce, ApplyEntry
    PROVE  PutOffOnce' /\ ExecutedOnce'
<1>1. /\ phase = "main" /\ UNCHANGED <<call, before>>
      /\ Execute(log[pos + 1]) /\ Count(log[pos + 1])
  BY DEF ApplyEntry
<1>2. work.triggers = {}
  BY <1>1 DEF PutOffOnce
<1> QED
  BY <1>1, <1>2, ApplyEntryTurn, TriedEntry

LEMMA RetryEntryTurn ==
    ASSUME IInv, PutOffOnce, RetryEntry
    PROVE  /\ PutOffOnce' /\ conflicting[turn + 1] \in Pending
           /\ Left' = IF Outcome(log[conflicting[turn + 1]]) = "conflict" THEN Left
                      ELSE Left \ {conflicting[turn + 1]}
<1> DEFINE i == conflicting[turn + 1]
           e == log[i]
<1>1. /\ phase = "retry" /\ phase' = "retry" /\ turn < Len(conflicting) /\ turn' = turn + 1
      /\ UNCHANGED <<call, before, disk, pos, conflicting>>
      /\ Execute(e) /\ Count(e)
      /\ newConflicting' = IF Outcome(e) = "conflict" THEN Append(newConflicting, i)
                           ELSE newConflicting
  BY DEF RetryEntry
<1>2. TypeOK /\ pos = Len(log) /\ log' = log /\ Wanted' = Wanted
  BY <1>1 DEF IInv, Transaction, log, Wanted
<1>3. /\ Len(log) \in Nat /\ turn \in Nat /\ turn + 1 \in 1..Len(conflicting)
      /\ conflicting \in Seq(1..Len(log)) /\ Len(conflicting) \in Nat
      /\ newConflicting \in Seq(1..Len(log)) /\ Len(newConflicting) \in Nat
  BY <1>1, <1>2, LogTyped DEF TypeOK
<1>4. i \in 1..Len(log) /\ i \in Wanted
  BY <1>3 DEF PutOffOnce
<1>5. work.triggers = {} /\ work'.triggers = {}
  BY <1>1, <1>2, ExecuteRows DEF PutOffOnce
<1> DEFINE InRound(k) == \E j \in (turn + 1)..Len(conflicting) : k = conflicting[j]
           InRest(k) == \E j \in (turn + 2)..Len(conflicting) : k = conflicting[j]
           InNext(k) == \E j \in 1..Len(newConflicting) : k = newConflicting[j]
<1>6. \A k \in 1..Len(log) : InRound(k) <=> k = i \/ InRest(k)
  <2> TAKE k \in 1..Len(log)
  <2>1. (turn + 1)..Len(conflicting) = {turn + 1} \cup ((turn + 2)..Len(conflicting))
    BY <1>3
  <2> QED
    BY <2>1
<1>7. ~InRest(i) /\ ~InNext(i)
  <2>1. ~InRest(i)
    <3>1. \A j \in (turn + 2)..Len(conflicting) :
            j \in 1..Len(conflicting) /\ j # turn + 1
      BY <1>3
    <3> QED
      BY <1>3, <3>1 DEF PutOffOnce
  <2>2. turn + 1 \in (turn + 1)..Len(conflicting)
    BY <1>3
  <2>3. ~InNext(i)
    BY <2>2 DEF PutOffOnce
  <2> QED
    BY <2>1, <2>3
<1>8. Pending = {k \in 1..Len(log) : InRound(k) \/ InNext(k)}
  BY <1>2, <1>3 DEF Pending
<1>9. Pending' = {k \in 1..Len(log) : \/ InRest(k)
                                      \/ \E j \in 1..Len(newConflicting') : k = newConflicting'[j]}
  <2>1. turn' + 1 = turn + 2
    BY <1>1, <1>3
  <2>2. \A k \in 1..Len(log) : ~(k > pos)
    BY <1>2, <1>3
  <2>3. log' = log /\ pos' = pos /\ conflicting' = conflicting
    BY <1>1, <1>2
  <2> QED
    BY <2>1, <2>2, <2>3 DEF Pending
<1>10. i \in Pending
  BY <1>4, <1>6, <1>8
<1>11. /\ \A j \in (turn + 2)..Len(conflicting), m \in 1..Len(newConflicting) :
              conflicting[j] # newConflicting[m]
       /\ \A j \in (turn + 2)..Len(conflicting) : conflicting[j] # i
  BY <1>3 DEF PutOffOnce
<1>12. turn' + 1 = turn + 2
  BY <1>1, <1>3
<1> HIDE DEF e, i
<1>13. CASE Outcome(e) = "conflict"
  <2> DEFINE n == Len(newConflicting)
  <2>1. /\ 1..Len(newConflicting') = (1..n) \cup {n + 1} /\ n + 1 \notin 1..n
        /\ \A j \in 1..n : newConflicting'[j] = newConflicting[j]
        /\ newConflicting'[n + 1] = i
    <3>1. Len(newConflicting') = n + 1
      BY <1>1, <1>3, <1>4, <1>13
    <3>2. \A j \in 1..n : newConflicting'[j] = newConflicting[j]
      BY <1>1, <1>3, <1>4, <1>13
    <3>3. newConflicting'[n + 1] = i
      BY <1>1, <1>3, <1>4, <1>13
    <3> QED
      BY <1>3, <3>1, <3>2, <3>3
  <2> HIDE DEF n
  <2>2. PutOffOnce'
    <3>1. \A j \in 1..Len(newConflicting') :
              newConflicting'[j] \in Wanted /\ newConflicting'[j] <= pos
      <4>1. \A j \in 1..n : newConflicting[j] \in Wanted /\ newConflicting[j] <= pos
        BY DEF PutOffOnce, n
      <4>2. i \in Wanted /\ i <= pos
        BY <1>2, <1>3, <1>4
      <4> QED
        BY <2>1, <4>1, <4>2
    <3>2. \A j, m \in 1..Len(newConflicting') : newConflicting'[j] = newConflicting'[m] => j = m
      <4>1. \A j, m \in 1..n : newConflicting[j] = newConflicting[m] => j = m
        BY DEF PutOffOnce, n
      <4>2. \A j \in 1..n : newConflicting[j] # i
        BY <1>7 DEF n
      <4> QED
        BY <2>1, <4>1, <4>2
    <3>3. \A j \in (turn' + 1)..Len(conflicting'), m \in 1..Len(newConflicting') :
              conflicting'[j] # newConflicting'[m]
      <4>1. (turn' + 1)..Len(conflicting') = (turn + 2)..Len(conflicting) /\ conflicting' = conflicting
        BY <1>1, <1>12
      <4>2. \A j \in (turn + 2)..Len(conflicting), m \in 1..Len(newConflicting') :
                conflicting[j] # newConflicting'[m]
        <5> TAKE j \in (turn + 2)..Len(conflicting), m \in 1..Len(newConflicting')
        <5>1. CASE m \in 1..n
          BY <1>11, <2>1, <5>1 DEF n
        <5>2. CASE m = n + 1
          BY <1>11, <2>1, <5>2
        <5> QED
          BY <2>1, <5>1, <5>2
      <4> QED
        BY <4>1, <4>2
    <3> QED
      BY <1>1, <1>2, <1>5, <3>1, <3>2, <3>3 DEF PutOffOnce
  <2>3. \A k \in 1..Len(log) :
            (\E j \in 1..Len(newConflicting') : k = newConflicting'[j]) <=> k = i \/ InNext(k)
    BY <2>1 DEF n
  <2> HIDE DEF InRound, InRest, InNext
  <2>4. Pending' = Pending
    BY <1>4, <1>6, <1>8, <1>9, <2>3
  <2>5. Left' = Left
    BY <1>2, <2>4 DEF Left
  <2> QED
    BY <1>10, <1>13, <2>2, <2>5 DEF e, i
<1>14. CASE Outcome(e) # "conflict"
  <2>1. newConflicting' = newConflicting
    BY <1>1, <1>14
  <2>2. PutOffOnce'
    BY <1>1, <1>2, <1>3, <1>5, <1>11, <1>12, <2>1 DEF PutOffOnce
  <2> HIDE DEF InRound, InRest
  <2>3. Pending' = Pending \ {i}
    BY <1>4, <1>6, <1>7, <1>8, <1>9, <2>1
  <2>4. Left' = Left \ {i}
    BY <1>2, <2>3 DEF Left
  <2> QED
    BY <1>10, <1>14, <2>2, <2>4 DEF e, i
<1> QED
  BY <1>13, <1>14

LEMMA RetryEntryTraced ==
    ASSUME IInv, PutOffOnce, ExecutedOnce, RetryEntry
    PROVE  PutOffOnce' /\ ExecutedOnce'
<1> DEFINE i == conflicting[turn + 1]
<1>1. /\ phase = "retry" /\ UNCHANGED <<call, before>>
      /\ Execute(log[i]) /\ Count(log[i])
  BY DEF RetryEntry
<1>2. work.triggers = {}
  BY <1>1 DEF PutOffOnce
<1>3. /\ PutOffOnce' /\ i \in Pending
      /\ Left' = IF Outcome(log[i]) = "conflict" THEN Left ELSE Left \ {i}
  BY RetryEntryTurn
<1> HIDE DEF i
<1> QED
  BY <1>1, <1>2, <1>3, TriedEntry

\* The entries put off in a round are those of the next.
LEMMA NextRoundTurn ==
    ASSUME IInv, PutOffOnce, NextRound
    PROVE  PutOffOnce' /\ Left' = Left
<1>1. /\ phase = "retry" /\ turn = Len(conflicting)
      /\ conflicting' = newConflicting /\ newConflicting' = <<>> /\ turn' = 0
      /\ phase' \in {"restore", "retry"}
      /\ UNCHANGED <<call, before, disk, work, pos, unrecoverable>>
  BY DEF NextRound
<1>2. TypeOK /\ log' = log /\ Wanted' = Wanted
  BY <1>1 DEF IInv, log, Wanted
<1>3. Len(conflicting) \in Nat /\ Len(newConflicting) \in Nat /\ Len(newConflicting') = 0
  BY <1>1, <1>2, LogTyped DEF TypeOK
<1>4. PutOffOnce'
  BY <1>1, <1>2, <1>3 DEF PutOffOnce
<1>5. Pending' = Pending
  BY <1>1, <1>2, <1>3 DEF Pending
<1>6. Left' = Left
  BY <1>2, <1>5 DEF Left
<1> QED
  BY <1>4, <1>6

LEMMA NextRoundTraced ==
    ASSUME IInv, PutOffOnce, ExecutedOnce, NextRound
    PROVE  PutOffOnce' /\ ExecutedOnce'
<1>1. phase = "retry" /\ UNCHANGED <<call, before, work, unrecoverable>>
  BY DEF NextRound
<1>2. log' = log /\ Wanted' = Wanted
  BY <1>1 DEF log, Wanted
<1> QED
  BY <1>1, <1>2, NextRoundTurn DEF ExecutedOnce

\* A call starts with nothing put off.
LEMMA CallApplyTraced ==
    ASSUME IInv, PutOffOnce, CallApply
    PROVE  PutOffOnce' /\ ExecutedOnce'
<1>1. /\ phase' \in {"idle", "begin"} /\ conflicting' = <<>> /\ newConflicting' = <<>>
      /\ log' = log /\ Wanted' = Wanted
  BY DEF CallApply, log, Wanted
<1>2. Len(conflicting') = 0 /\ Len(newConflicting') = 0
  BY <1>1
<1> QED
  BY <1>1, <1>2 DEF PutOffOnce, ExecutedOnce

\* With the triggers gone the transaction is the file, and all is left to do.
LEMMA DropTriggersTurn ==
    ASSUME IInv, PutOffOnce, DropTriggers
    PROVE  PutOffOnce' /\ Left' = Wanted /\ work'.rows = before
<1>1. /\ phase = "drop" /\ phase' = "main" /\ work' = Dropped
      /\ UNCHANGED <<call, before, disk, loop>>
  BY DEF DropTriggers
<1>2. /\ TypeOK /\ work = disk /\ disk.rows = before /\ pos = 0
      /\ conflicting = <<>> /\ newConflicting = <<>>
  BY <1>1 DEF IInv, Transaction, Counts
<1>3. work'.triggers = {} /\ work'.rows = before
  BY <1>1, <1>2 DEF Dropped, TypeOK
<1>4. /\ pos' = 0 /\ conflicting' = <<>> /\ newConflicting' = <<>> /\ turn' = turn
      /\ log' = log /\ Wanted' = Wanted /\ before' = before
  BY <1>1, <1>2 DEF loop, log, Wanted
<1>5. Len(conflicting') = 0 /\ Len(newConflicting') = 0 /\ Len(log) \in Nat
  BY <1>2, <1>4, LogTyped
<1>6. PutOffOnce'
  BY <1>1, <1>3, <1>4, <1>5 DEF PutOffOnce
<1>7. Pending' = 1..Len(log)
  BY <1>4, <1>5 DEF Pending
<1>8. Left' = Wanted
  BY <1>2, <1>4, <1>7, WantedFinite DEF Left
<1> QED
  BY <1>3, <1>6, <1>8

LEMMA DropTriggersTraced ==
    ASSUME IInv, PutOffOnce, DropTriggers
    PROVE  PutOffOnce' /\ ExecutedOnce'
<1>1. UNCHANGED <<call, before>>
  BY DEF DropTriggers
<1>2. log' = log /\ Wanted' = Wanted
  BY <1>1 DEF log, Wanted
<1>3. Cardinality(Wanted) \in Nat
  BY WantedFinite DEF IInv
<1>4. Atomic!Turns(log, before)[0] = {[left |-> Wanted, rows |-> before]}
  BY <1>3, TurnEquations DEF Wanted
<1>5. Cardinality(Wanted) - Cardinality(Wanted) = 0
  BY <1>3
<1> QED
  BY <1>1, <1>2, <1>4, <1>5, DropTriggersTurn DEF ExecutedOnce

\* The other steps leave the rows of the transaction and the loops alone, or
\* are on the way out.
LEMMA OtherTraced ==
    ASSUME IInv, PutOffOnce, ExecutedOnce, UNCHANGED <<call, before, loop>>,
           phase' \in {"main", "retry"} => phase = "main" /\ work' = work,
           phase' = "restore" => phase = "main" /\ work' = work,
           phase' = "release" => phase = "restore" /\ work'.rows = work.rows
    PROVE  PutOffOnce' /\ ExecutedOnce'
<1>1. /\ log' = log /\ Wanted' = Wanted /\ before' = before /\ pos' = pos
      /\ conflicting' = conflicting /\ turn' = turn
      /\ newConflicting' = newConflicting /\ unrecoverable' = unrecoverable
  BY DEF loop, log, Wanted
<1>2. phase = "main" => newConflicting = <<>>
  BY DEF IInv, Counts
<1>3. PutOffOnce'
  BY <1>1, <1>2 DEF PutOffOnce
<1>4. Left' = Left
  BY <1>1 DEF Left, Pending
<1> QED
  BY <1>1, <1>3, <1>4 DEF ExecutedOnce

LEMMA NextTraced == IInv /\ PutOffOnce /\ ExecutedOnce /\ [Next]_vars => PutOffOnce' /\ ExecutedOnce'
<1> SUFFICES ASSUME IInv, PutOffOnce, ExecutedOnce, [Next]_vars
             PROVE  PutOffOnce' /\ ExecutedOnce'
  OBVIOUS
<1>1. CASE CallApply
  BY <1>1, CallApplyTraced
<1>2. CASE DropTriggers
  BY <1>2, DropTriggersTraced
<1>3. CASE ApplyEntry
  BY <1>3, ApplyEntryTraced
<1>4. CASE RetryEntry
  BY <1>4, RetryEntryTraced
<1>5. CASE NextRound
  BY <1>5, NextRoundTraced
<1>6. CASE Savepoint \/ EndMain
  <2>1. /\ UNCHANGED <<call, before, loop, work>>
        /\ \/ phase' = "drop"
           \/ phase = "main" /\ phase' \in {"restore", "retry"}
    BY <1>6 DEF Savepoint, EndMain
  <2> QED
    BY <2>1, OtherTraced
<1>7. CASE GiveUp \/ RestoreTriggers
  <2>1. Restored.rows = work.rows
    BY DEF Restored, IInv, TypeOK
  <2>2. /\ UNCHANGED <<call, before, loop>>
        /\ \/ phase' = "rollback"
           \/ phase = "restore" /\ phase' = "release" /\ work' = Restored
    BY <1>7 DEF GiveUp, RestoreTriggers, FailWith
  <2> QED
    BY <2>1, <2>2, OtherTraced
<1>8. CASE Release \/ Rollback \/ Fail \/ Crash
  <2>1. UNCHANGED <<call, before, loop>> /\ phase' \in {"idle", "rollback"}
    BY <1>8 DEF Release, Rollback, Fail, Crash, FailWith
  <2> QED
    BY <2>1, OtherTraced
<1>9. CASE UNCHANGED vars
  <2>1. UNCHANGED <<phase, call, before, disk, work, loop, pos, conflicting, turn,
                    newConflicting, unrecoverable>>
    BY <1>9 DEF vars, loop
  <2>2. log' = log /\ Wanted' = Wanted
    BY <2>1 DEF log, Wanted
  <2>3. Left' = Left
    BY <2>1, <2>2 DEF Left, Pending
  <2> QED
    BY <2>1, <2>2, <2>3 DEF PutOffOnce, ExecutedOnce
<1> QED
  BY <1>1, <1>2, <1>3, <1>4, <1>5, <1>6, <1>7, <1>8, <1>9 DEF Next, Step

\* Whatever was put off and tried again, the transaction holds the changes of
\* the entries executed so far, each of them once.
THEOREM Traced == Spec => [](PutOffOnce /\ ExecutedOnce)
<1>1. Init => PutOffOnce /\ ExecutedOnce
  <2> SUFFICES ASSUME Init PROVE PutOffOnce /\ ExecutedOnce
    OBVIOUS
  <2>1. phase = "idle" /\ conflicting = <<>> /\ newConflicting = <<>>
    BY DEF Init
  <2>2. Len(conflicting) = 0 /\ Len(newConflicting) = 0
    BY <2>1
  <2> QED
    BY <2>1, <2>2 DEF PutOffOnce, ExecutedOnce
<1> QED
  BY <1>1, NextTraced, Invariance, PTL DEF Spec

-----------------------------------------------------------------------------
(* Refinement *)

LEMMA InitRefines == Init => Atomic!Init
<1> SUFFICES ASSUME Init PROVE Atomic!Init
  OBVIOUS
<1>1. PICK s \in Situations : call = s.call /\ disk = [rows |-> s.rows, triggers |-> Triggers]
  BY DEF Init
<1>2. disk.rows \in Found /\ disk.triggers = Triggers
  BY <1>1 DEF Found
<1>3. log \in Seq(LogEntry)
  BY InitIInv, LogTyped DEF IInv
<1>4. LogEntry \subseteq Entry
  <2>1. Keys \subseteq Int
    BY KeysAssumption
  <2> QED
    BY <2>1 DEF LogEntry, Entry
<1>5. log \in Seq(Entry)
  BY <1>3, <1>4
<1>6. Atomic!Entry = Entry
  BY DEF Atomic!Entry, Entry, Atomic!Operations, Operations, Atomic!EntryValues, EntryValues
<1> QED
  BY <1>2, <1>5, <1>6 DEF Init, Atomic!Init

\* A transaction that is released has nothing left to do.
LEMMA NothingLeft ==
    ASSUME IInv, PutOffOnce, phase = "release"
    PROVE  Left = {}
<1>1. /\ TypeOK /\ pos = Len(log) /\ conflicting = <<>> /\ newConflicting = <<>>
  BY DEF IInv, Transaction, PutOffOnce
<1>2. Len(conflicting) = 0 /\ Len(newConflicting) = 0 /\ Len(log) \in Nat
  BY <1>1, LogTyped
<1>3. \A i \in 1..Len(log) : ~(i > pos)
  BY <1>1, <1>2
<1>4. 1..Len(newConflicting) = {} /\ (turn + 1)..Len(conflicting) = {}
  <2>1. turn \in Nat
    BY <1>1, <1>2 DEF TypeOK
  <2> QED
    BY <1>2, <2>1
<1>5. Pending = {}
  BY <1>3, <1>4 DEF Pending
<1> QED
  BY <1>5 DEF Left

\* A release that succeeds commits one of the databases the abstract
\* specification allows.
LEMMA ReleasedEffects ==
    ASSUME IInv, PutOffOnce, ExecutedOnce, phase = "release"
    PROVE  work.rows \in Atomic!Effects(log, before)
<1>1. TypeOK /\ unrecoverable = 0
  BY DEF IInv, Transaction
<1>2. Left = {}
  BY NothingLeft
<1>3. Cardinality(Left) = 0 /\ Cardinality(Wanted) \in Nat
  BY <1>1, <1>2, FS_EmptySet, WantedFinite
<1>4. Cardinality(Wanted) - Cardinality(Left) = Cardinality(Wanted)
  BY <1>3
<1>5. [left |-> Left, rows |-> work.rows] \in Atomic!Turns(log, before)[Cardinality(Wanted)]
  BY <1>1, <1>4 DEF ExecutedOnce
<1> QED
  BY <1>5, SameCardinality DEF Atomic!Effects, Wanted

LEMMA ReleaseRefines ==
    ASSUME IInv, PutOffOnce, ExecutedOnce, Release
    PROVE  [Atomic!Next]_(Atomic!vars)
<1>1. phase = "release" /\ log' = log
  BY DEF Release, log
<1>2. /\ work.triggers = Triggers /\ disk.triggers = Triggers /\ disk.rows = before
  BY <1>1 DEF IInv, Transaction
<1>3. CASE phase' = "rollback" /\ disk' = disk
  BY <1>1, <1>3 DEF Atomic!vars
<1>4. CASE work.rows \in Referential /\ disk' = work /\ phase' = "idle"
  <2>1. work.rows \in Atomic!Effects(log, before)
    BY <1>1, ReleasedEffects
  <2> QED
    BY <1>1, <1>2, <1>4, <2>1 DEF Atomic!Next, Atomic!Succeed
<1> QED
  BY <1>3, <1>4 DEF Release, FailWith

\* A call begins, runs unseen, and ends: with the file as it was, but for a
\* release that succeeds.
LEMMA NextRefines ==
    IInv /\ PutOffOnce /\ ExecutedOnce /\ [Next]_vars => [Atomic!Next]_(Atomic!vars)
<1> SUFFICES ASSUME IInv, PutOffOnce, ExecutedOnce, [Next]_vars
             PROVE  [Atomic!Next]_(Atomic!vars)
  OBVIOUS
<1>1. CASE Release
  BY <1>1, ReleaseRefines
<1>2. CASE CallApply
  <2>1. /\ phase = "idle" /\ log' = log /\ disk' = disk
        /\ (phase' # "idle") = (log # <<>>)
    BY <1>2 DEF CallApply, log
  <2> QED
    BY <2>1 DEF Atomic!Next, Atomic!Call
<1>3. CASE Rollback \/ Fail \/ Crash
  <2>1. phase # "idle" /\ log' = log /\ disk' = disk
    BY <1>3 DEF Rollback, Fail, Crash, log
  <2>2. CASE phase' = "idle"
    BY <2>1, <2>2 DEF Atomic!Next, Atomic!Refuse
  <2>3. CASE phase' # "idle"
    BY <2>1, <2>3 DEF Atomic!vars
  <2> QED
    BY <2>2, <2>3
<1>4. CASE \/ Savepoint \/ DropTriggers \/ ApplyEntry \/ EndMain
          \/ RetryEntry \/ NextRound \/ GiveUp \/ RestoreTriggers
  <2>1. phase # "idle" /\ phase' # "idle" /\ log' = log /\ disk' = disk
    BY <1>4 DEF Savepoint, DropTriggers, ApplyEntry, EndMain, RetryEntry, NextRound, GiveUp,
                RestoreTriggers, FailWith, log
  <2> QED
    BY <2>1 DEF Atomic!vars
<1>5. CASE UNCHANGED vars
  BY <1>5 DEF vars, log, Atomic!vars
<1> QED
  BY <1>1, <1>2, <1>3, <1>4, <1>5 DEF Next, Step

\* ApplyChangeset is atomic: every step of it is a step of AtomicApply or none.
THEOREM AtomicInSteps == Spec => ImplementsAtomicApply
<1>1. Init => Atomic!Init
  BY InitRefines
<1>2. IInv /\ PutOffOnce /\ ExecutedOnce /\ [Next]_vars => [Atomic!Next]_(Atomic!vars)
  BY NextRefines
<1> QED
  BY <1>1, <1>2, Invariance, Traced, PTL DEF Spec, ImplementsAtomicApply, Atomic!Safety

-----------------------------------------------------------------------------
(* What a call that succeeds leaves, in whatever order it got there *)

\* Any turns lead from the start to where they end by the entries they executed.
LEMMA TurnsLead ==
    ASSUME NEW l \in Seq(Entry), NEW d \in Database, \A i \in 1..Len(l) : Invertible(l[i]),
           NEW e \in Atomic!Effects(l, d)
    PROVE  LeadTo(l, Atomic!Wanted(l), d, e)
<1> DEFINE W == Atomic!Wanted(l)
           N == Cardinality(W)
           turns == Atomic!Turns(l, d)
           Leads(n) == \A s \in turns[n] :
                          /\ s.left \in SUBSET W /\ Cardinality(s.left) = N - n
                          /\ LeadTo(l, W \ s.left, d, s.rows)
           T == {n \in 0..N : Leads(n)}
<1>1. /\ Len(l) \in Nat /\ DOMAIN l = 1..Len(l)
      /\ W \in SUBSET (1..Len(l)) /\ IsFiniteSet(W) /\ N \in Nat
  <2>1. Len(l) \in Nat /\ DOMAIN l = 1..Len(l)
    OBVIOUS
  <2>2. W \in SUBSET (1..Len(l))
    BY <2>1 DEF Atomic!Wanted
  <2>3. IsFiniteSet(1..Len(l))
    BY <2>1, FS_Interval
  <2> HIDE DEF W
  <2>4. IsFiniteSet(W)
    BY <2>2, <2>3, FS_Subset
  <2> QED
    BY <2>1, <2>2, <2>4, FS_CardinalityType
<1>2. /\ turns[0] = {[left |-> W, rows |-> d]}
      /\ \A n \in 1..N : turns[n] = OneMore(l, turns[n - 1])
  BY <1>1, TurnEquations
<1>3. e \in {s.rows : s \in turns[N]}
  BY SameCardinality DEF Atomic!Effects
<1> HIDE DEF W, N, turns
<1>4. 0 \in T
  <2>1. W \ W = {} /\ N - 0 = Cardinality(W)
    BY <1>1 DEF N
  <2>2. LeadTo(l, {}, d, d)
    BY NothingLeads
  <2> QED
    BY <1>1, <1>2, <2>1, <2>2
<1>5. ASSUME NEW n \in 0..(N - 1), n \in T PROVE n + 1 \in T
  <2>1. n + 1 \in 1..N /\ n + 1 \in 0..N /\ (n + 1) - 1 = n
    BY <1>1
  <2>2. turns[n + 1] = OneMore(l, turns[n])
    BY <1>2, <2>1
  <2> SUFFICES ASSUME NEW s \in OneMore(l, turns[n])
               PROVE  /\ s.left \in SUBSET W /\ Cardinality(s.left) = N - (n + 1)
                      /\ LeadTo(l, W \ s.left, d, s.rows)
    BY <2>1, <2>2
  <2>3. PICK r \in turns[n] :
            /\ s \in {[left |-> r.left \ {i}, rows |-> Atomic!DatabaseAfter(l[i], r.rows)] :
                          i \in r.left}
            /\ s.rows # Absent
    BY DEF OneMore
  <2>4. PICK i \in r.left :
            /\ s = [left |-> r.left \ {i}, rows |-> Atomic!DatabaseAfter(l[i], r.rows)]
            /\ s.rows # Absent
    BY <2>3
  <2>5. /\ r.left \in SUBSET W /\ Cardinality(r.left) = N - n
        /\ LeadTo(l, W \ r.left, d, r.rows)
    BY <1>5
  <2>6. s.left = r.left \ {i} /\ s.rows = DatabaseAfter(l[i], r.rows)
    BY <2>4, SameExecution
  <2>7. IsFiniteSet(r.left)
    BY <1>1, <2>5, FS_Subset
  <2>8. Cardinality(s.left) = N - (n + 1)
    <3>1. Cardinality(r.left \ {i}) = Cardinality(r.left) - 1
      BY <2>7, FS_RemoveElement
    <3> QED
      BY <1>1, <2>1, <2>5, <2>6, <3>1
  <2>9. W \ s.left = (W \ r.left) \cup {i} /\ i \notin W \ r.left /\ i \in W
    BY <2>5, <2>6
  <2>10. LeadTo(l, (W \ r.left) \cup {i}, d, DatabaseAfter(l[i], r.rows))
    BY <1>1, <2>4, <2>5, <2>6, <2>9, OneMoreLeads
  <2> QED
    BY <2>5, <2>6, <2>8, <2>9, <2>10
<1> HIDE DEF T
<1>6. N \in T
  <2>1. 0..N \subseteq T
    BY <1>1, <1>4, <1>5, UpTo
  <2> QED
    BY <1>1, <2>1
<1>7. PICK s \in turns[N] : e = s.rows
  BY <1>3
<1>8. s.left \in SUBSET W /\ Cardinality(s.left) = 0 /\ LeadTo(l, W \ s.left, d, s.rows)
  <2>1. Leads(N)
    BY <1>6 DEF T
  <2>2. N - N = 0
    BY <1>1
  <2> QED
    BY <2>1, <2>2
<1>9. W \ s.left = W
  <2>1. s.left = {}
    BY <1>1, <1>8, FS_Subset, FS_EmptySet
  <2> QED
    BY <2>1
<1> QED
  BY <1>7, <1>8, <1>9 DEF W

\* A call that succeeds leaves what executing every entry once leads to.
LeavesEffects ==
    code = "ok" =>
        /\ phase = "idle"
        /\ (log = <<>> /\ disk.rows = before) \/ disk.rows \in Atomic!Effects(log, before)

THEOREM SuccessLeavesEffects == Spec => []LeavesEffects
<1>1. Init => LeavesEffects
  BY DEF Init, LeavesEffects
<1>2. IInv /\ PutOffOnce /\ ExecutedOnce /\ LeavesEffects /\ [Next]_vars => LeavesEffects'
  <2> SUFFICES ASSUME IInv, PutOffOnce, ExecutedOnce, LeavesEffects, [Next]_vars, code' = "ok"
               PROVE  LeavesEffects'
    BY DEF LeavesEffects
  <2>1. CASE CallApply
    <3>1. log = <<>> /\ log' = <<>> /\ disk' = disk /\ before' = disk.rows /\ phase' = "idle"
      BY <2>1 DEF CallApply, log
    <3> QED
      BY <3>1 DEF LeavesEffects
  <2>2. CASE Release
    <3>1. phase = "release" /\ log' = log /\ before' = before /\ disk' = work /\ phase' = "idle"
      BY <2>2 DEF Release, FailWith, log
    <3> QED
      BY <3>1, ReleasedEffects DEF LeavesEffects
  <2>3. CASE Fail \/ Crash \/ GiveUp
    BY <2>3 DEF Fail, Crash, GiveUp, FailWith
  <2>4. CASE UNCHANGED vars
    BY <2>4 DEF vars, LeavesEffects, log
  <2>5. CASE \/ Savepoint \/ DropTriggers \/ ApplyEntry \/ EndMain \/ RetryEntry \/ NextRound
             \/ RestoreTriggers \/ Rollback
    <3>1. phase # "idle" /\ code' \in {code, "error"}
      BY <2>5 DEF Savepoint, DropTriggers, ApplyEntry, EndMain, RetryEntry, NextRound,
                  RestoreTriggers, Rollback, FailWith
    <3> QED
      BY <3>1 DEF LeavesEffects
  <2> QED
    BY <2>1, <2>2, <2>3, <2>4, <2>5 DEF Next, Step
<1> QED
  BY <1>1, <1>2, Invariance, Traced, PTL DEF Spec

\* So does a successful call, whose log the library wrote.
LEMMA SuccessLeads ==
    ASSUME IInv, LeavesEffects, code = "ok", \A i \in DOMAIN log : WellFormed(log[i])
    PROVE  /\ log \in Seq(Entry) /\ \A i \in 1..Len(log) : Invertible(log[i])
           /\ before \in Database /\ Wanted \in SUBSET (1..Len(log))
           /\ LeadTo(log, Wanted, before, disk.rows)
<1>1. TypeOK
  BY DEF IInv
<1>2. /\ log \in Seq(LogEntry) /\ Len(log) \in Nat /\ DOMAIN log = 1..Len(log)
      /\ before \in Database
  BY <1>1, LogTyped DEF TypeOK
<1>3. LogEntry \subseteq Entry
  <2>1. Keys \subseteq Int
    BY KeysAssumption
  <2> QED
    BY <2>1 DEF LogEntry, Entry
<1>4. log \in Seq(Entry)
  BY <1>2, <1>3
<1>5. \A i \in 1..Len(log) : Invertible(log[i])
  BY <1>2, <1>4, WellFormedInvertible
<1>6. Wanted \in SUBSET (1..Len(log))
  BY <1>1, WantedFinite
<1>7. CASE log = <<>> /\ disk.rows = before
  <2>1. Len(log) = 0
    BY <1>7
  <2>2. Wanted = {}
    BY <1>6, <2>1
  <2>3. LeadTo(log, {}, before, before)
    BY <1>2, NothingLeads
  <2> QED
    BY <1>2, <1>4, <1>5, <1>6, <1>7, <2>2, <2>3
<1>8. CASE disk.rows \in Atomic!Effects(log, before)
  BY <1>2, <1>4, <1>5, <1>6, <1>8, TurnsLead DEF Wanted
<1> QED
  BY <1>7, <1>8 DEF LeavesEffects

\* When the changeset applies in its own order, a call that succeeds has left the
\* outcome of that order, whatever it put off and however often: the entries moved
\* every value the same way in either order.
THEOREM SuccessInOrder == Spec => []SuccessMeansInOrder
<1>1. IInv /\ LeavesEffects => SuccessMeansInOrder
  <2> SUFFICES ASSUME IInv, LeavesEffects, code = "ok", \A i \in DOMAIN log : WellFormed(log[i]),
                      Replay(Executed, before) # Absent
               PROVE  disk.rows = Replay(Executed, before)
    BY DEF SuccessMeansInOrder
  <2>1. /\ log \in Seq(Entry) /\ \A i \in 1..Len(log) : Invertible(log[i])
        /\ before \in Database /\ Wanted \in SUBSET (1..Len(log))
        /\ LeadTo(log, Wanted, before, disk.rows)
    BY SuccessLeads
  <2>2. Executed = Picked(log, Wanted)
    BY DEF Executed, Wanted, Atomic!Wanted
  <2>3. LeadTo(log, Wanted, before, Replay(Executed, before))
    <3>1. \A i \in Wanted : Invertible(log[i])
      BY <2>1
    <3> QED
      BY <2>1, <2>2, <3>1, PickedLeads
  <2> QED
    BY <2>1, <2>3, OrderDoesNotMatter
<1> QED
  BY <1>1, Invariance, SuccessLeavesEffects, PTL

\* A call that succeeds on the database its changeset was made from leaves the
\* database it was made for, in every table that is not a system table, and the
\* system tables as they were.
TargetOnSuccess ==
    code = "ok" /\ call.from = before /\ log = CreateChangeset(call.from, call.to) =>
        \A t \in Tables : disk.rows[t] = IF t \in Skipped THEN before[t] ELSE call.to[t]

THEOREM SuccessReachesTarget == Spec => []TargetOnSuccess
<1>1. IInv /\ LeavesEffects => TargetOnSuccess
  <2> SUFFICES ASSUME IInv, LeavesEffects, code = "ok", call.from = before,
                      log = CreateChangeset(call.from, call.to), NEW t \in Tables
               PROVE  disk.rows[t] = IF t \in Skipped THEN before[t] ELSE call.to[t]
    BY DEF TargetOnSuccess
  <2> DEFINE to == call.to
  <2>1. TypeOK /\ before \in Database /\ to \in Database /\ disk.rows \in Database
    BY DEF IInv, TypeOK, Call
  <2> HIDE DEF to
  <2>2. /\ Len(log) \in Nat /\ DOMAIN log = 1..Len(log)
        /\ Wanted = {i \in 1..Len(log) : log[i].table \notin Skipped}
    BY <2>1, LogTyped, WantedFinite
  <2>3. /\ \A i \in 1..Len(log) : WellFormed(log[i])
        /\ Replay(log, before) = to
    BY <2>1, ChangesetReplays DEF to
  <2>4. /\ \A i \in 1..Len(log) : Invertible(log[i])
        /\ Wanted \in SUBSET (1..Len(log))
        /\ LeadTo(log, Wanted, before, disk.rows)
    BY <2>2, <2>3, SuccessLeads
  <2>5. LeadTo(log, 1..Len(log), before, to)
    <3>1. Replay(log, before) # Absent
      BY <2>1, <2>3, AbsentAssumption
    <3> QED
      BY <2>1, <2>2, <2>3, <2>4, <3>1, ReplayLeads
  <2>6. ASSUME NEW k \in Keys
        PROVE  disk.rows[t][k] = IF t \in Skipped THEN before[t][k] ELSE to[t][k]
    <3> DEFINE Y == Concerning(log, Wanted, t, k)
    <3>1. IsFiniteSet(Y)
      BY <2>2, <2>4, ConcerningFinite
    <3>2. RowBalanced(log, Y, before[t][k], disk.rows[t][k])
      BY <2>4 DEF LeadTo
    <3>3. /\ disk.rows[t][k] \in Row \cup {Absent} /\ to[t][k] \in Row \cup {Absent}
          /\ before[t][k] \in Row \cup {Absent}
      BY <2>1 DEF Database
    <3>4. CASE t \in Skipped
      <4>1. Y = Concerning(log, {}, t, k)
        BY <2>2, <3>4 DEF Concerning
      <4>2. LeadTo(log, {}, before, before)
        BY <2>1, NothingLeads
      <4>3. RowBalanced(log, Y, before[t][k], before[t][k])
        BY <4>1, <4>2 DEF LeadTo
      <4> HIDE DEF Y
      <4> QED
        BY <3>1, <3>2, <3>3, <3>4, <4>3, SameEnds
    <3>5. CASE t \notin Skipped
      <4>1. Y = Concerning(log, 1..Len(log), t, k)
        BY <2>2, <3>5 DEF Concerning
      <4>2. RowBalanced(log, Y, before[t][k], to[t][k])
        BY <2>5, <4>1 DEF LeadTo
      <4> HIDE DEF Y
      <4> QED
        BY <3>1, <3>2, <3>3, <3>5, <4>2, SameEnds
    <3> QED
      BY <3>4, <3>5
  <2>7. disk.rows[t] \in [Keys -> Row \cup {Absent}] /\ to[t] \in [Keys -> Row \cup {Absent}]
        /\ before[t] \in [Keys -> Row \cup {Absent}]
    BY <2>1 DEF Database
  <2> QED
    BY <2>6, <2>7 DEF to
<1> QED
  BY <1>1, Invariance, SuccessLeavesEffects, PTL

-----------------------------------------------------------------------------
(* What the rounds get stuck on: the entries of one changeset in any order *)

\* UNIQUE, CHECK and NOT NULL are decided by the rows of one table, two at a time.
PairsDecide ==
    \A d \in Database :
        (\A t \in Tables, j, k \in Keys :
            \E e \in Admitted : e[t][j] = d[t][j] /\ e[t][k] = d[t][k])
        => d \in Admitted

\* Constraints of these kinds: rows allowed one by one, and sets of columns no two
\* rows of a table may agree on.
Keeps(d, allowed, unique) ==
    /\ \A t \in Tables, k \in Keys : d[t][k] = Absent \/ d[t][k] \in allowed[t]
    /\ \A t \in Tables, j, k \in Keys : \A C \in unique[t] :
            \/ j = k \/ d[t][j] = Absent \/ d[t][k] = Absent
            \/ \E c \in C : d[t][j][c] # d[t][k][c]

\* UNIQUE over any columns, CHECK and NOT NULL are constraints RetriesReachTarget is
\* about.
THEOREM DeclaredConstraints ==
    ASSUME NEW allowed, NEW unique,
           Admitted = {d \in Database : Keeps(d, allowed, unique)}
    PROVE  PairsDecide
<1> SUFFICES ASSUME NEW d \in Database,
                    \A t \in Tables, j, k \in Keys :
                        \E e \in Admitted : e[t][j] = d[t][j] /\ e[t][k] = d[t][k]
             PROVE  d \in Admitted
  BY Zenon DEF PairsDecide
<1>1. \A t \in Tables, j, k \in Keys :
        \E e : Keeps(e, allowed, unique) /\ e[t][j] = d[t][j] /\ e[t][k] = d[t][k]
  OBVIOUS
<1>2. ASSUME NEW t \in Tables, NEW k \in Keys
      PROVE  d[t][k] = Absent \/ d[t][k] \in allowed[t]
  <2>1. PICK e : Keeps(e, allowed, unique) /\ e[t][k] = d[t][k]
    BY <1>1
  <2>2. e[t][k] = Absent \/ e[t][k] \in allowed[t]
    BY <2>1, Zenon DEF Keeps
  <2> QED
    BY <2>1, <2>2, Zenon
<1>3. ASSUME NEW t \in Tables, NEW j \in Keys, NEW k \in Keys, NEW C \in unique[t]
      PROVE  \/ j = k \/ d[t][j] = Absent \/ d[t][k] = Absent
             \/ \E c \in C : d[t][j][c] # d[t][k][c]
  <2>1. PICK e : Keeps(e, allowed, unique) /\ e[t][j] = d[t][j] /\ e[t][k] = d[t][k]
    BY <1>1, Zenon
  <2>2. \/ j = k \/ e[t][j] = Absent \/ e[t][k] = Absent
        \/ \E c \in C : e[t][j][c] # e[t][k][c]
    <3>1. \A x \in Tables, y, z \in Keys : \A D \in unique[x] :
            \/ y = z \/ e[x][y] = Absent \/ e[x][z] = Absent
            \/ \E c \in D : e[x][y][c] # e[x][z][c]
      BY <2>1, Zenon DEF Keeps
    <3>2. \A D \in unique[t] :
            \/ j = k \/ e[t][j] = Absent \/ e[t][k] = Absent
            \/ \E c \in D : e[t][j][c] # e[t][k][c]
      BY <3>1, Zenon
    <3> QED
      BY <3>2, Zenon
  <2> QED
    BY <2>1, <2>2, Zenon
<1>4. Keeps(d, allowed, unique)
  BY <1>2, <1>3, Zenon DEF Keeps
<1> QED
  BY <1>4

\* The entries l of two databases that differ: one for every row that does, taking
\* it from the one to the other.
Differences(l, was, is) ==
    /\ was \in Database /\ is \in Database /\ Len(l) \in Nat /\ DOMAIN l = 1..Len(l)
    /\ \A i \in 1..Len(l) :
        /\ TakesEffect(l[i], was)
        /\ RowAfter(l[i], was[l[i].table][l[i].pk]) = is[l[i].table][l[i].pk]
    /\ \A i, j \in 1..Len(l) : SameRow(l[i], l[j]) => i = j
    /\ \A t \in Tables, k \in Keys :
        (\E i \in 1..Len(l) : l[i].table = t /\ l[i].pk = k) <=> was[t][k] # is[t][k]

LEMMA CreatedDifferences ==
    ASSUME NEW was \in Database, NEW is \in Database
    PROVE  Differences(CreateChangeset(was, is), was, is)
<1> DEFINE l == CreateChangeset(was, is)
<1>1. /\ l \in Seq(Entry)
      /\ \A i \in 1..Len(l) : TakesEffect(l[i], was)
      /\ \A i, j \in 1..Len(l) : SameRow(l[i], l[j]) => i = j
      /\ \A t \in Tables, k \in Keys :
            (\E i \in 1..Len(l) : l[i].table = t /\ l[i].pk = k) <=> was[t][k] # is[t][k]
      /\ Replay(l, was) = is
  BY ChangesetReplays
<1> HIDE DEF l
<1>2. Len(l) \in Nat /\ DOMAIN l = 1..Len(l)
  BY <1>1
<1>3. RowsAfter(l, was, Len(l), is)
  BY <1>1, <1>2, ReplayOfDistinctRows
<1>4. ASSUME NEW i \in 1..Len(l)
      PROVE  RowAfter(l[i], was[l[i].table][l[i].pk]) = is[l[i].table][l[i].pk]
  <2>1. l[i].table \in Tables /\ l[i].pk \in Keys
    BY <1>1 DEF TakesEffect
  <2>2. i \in About(l, Len(l), l[i].table, l[i].pk)
    BY DEF About
  <2> QED
    BY <1>3, <2>1, <2>2 DEF RowsAfter
<1> QED
  BY <1>1, <1>2, <1>4 DEF Differences, l

\* The rows that entries in D are about as they are in one database, the others
\* as they were in the other.
Mixed(l, D, was, is) ==
    [t \in Tables |-> [k \in Keys |->
        IF \E i \in D : l[i].table = t /\ l[i].pk = k THEN is[t][k] ELSE was[t][k]]]

LEMMA MixedRow ==
    ASSUME NEW l, NEW was, NEW is, NEW D, NEW t \in Tables, NEW k \in Keys
    PROVE  /\ (\E i \in D : l[i].table = t /\ l[i].pk = k) => Mixed(l, D, was, is)[t][k] = is[t][k]
           /\ ~(\E i \in D : l[i].table = t /\ l[i].pk = k) => Mixed(l, D, was, is)[t][k] = was[t][k]
  BY DEF Mixed

LEMMA MixedTyped ==
    ASSUME NEW l, NEW was \in Database, NEW is \in Database, NEW D
    PROVE  Mixed(l, D, was, is) \in Database
  BY DEF Mixed, Database

LEMMA NothingMixed ==
    ASSUME NEW l, NEW was \in Database, NEW is \in Database
    PROVE  Mixed(l, {}, was, is) = was
<1> DEFINE m == Mixed(l, {}, was, is)
<1>1. m \in Database
  BY MixedTyped
<1>2. \A t \in Tables, k \in Keys : m[t][k] = was[t][k]
  BY MixedRow
<1> HIDE DEF m
<1> QED
  BY <1>1, <1>2, DatabasesAreFunctions DEF m

\* One entry more.
LEMMA OneMoreMixed ==
    ASSUME NEW l, NEW was, NEW is, Differences(l, was, is),
           NEW D \in SUBSET (1..Len(l)), NEW i \in 1..Len(l), i \notin D
    PROVE  /\ TakesEffect(l[i], Mixed(l, D, was, is))
           /\ DatabaseAfter(l[i], Mixed(l, D, was, is)) = Mixed(l, D \cup {i}, was, is)
<1> DEFINE m == Mixed(l, D, was, is)
           n == Mixed(l, D \cup {i}, was, is)
           e == l[i]
<1>1. m \in Database /\ n \in Database
  BY MixedTyped DEF Differences
<1>2. /\ e.table \in Tables /\ e.pk \in Keys /\ TakesEffect(e, was)
      /\ RowAfter(e, was[e.table][e.pk]) = is[e.table][e.pk]
  BY DEF Differences, TakesEffect
<1>3. ~\E j \in D : l[j].table = e.table /\ l[j].pk = e.pk
  BY DEF Differences, SameRow
<1>4. m[e.table][e.pk] = was[e.table][e.pk]
  BY <1>2, <1>3, MixedRow
<1>5. ASSUME NEW t \in Tables, NEW k \in Keys
      PROVE  n[t][k] = IF t = e.table /\ k = e.pk THEN is[t][k] ELSE m[t][k]
  <2>1. (\E j \in D \cup {i} : l[j].table = t /\ l[j].pk = k)
          <=> (\E j \in D : l[j].table = t /\ l[j].pk = k) \/ (t = e.table /\ k = e.pk)
    OBVIOUS
  <2> HIDE DEF e
  <2> QED
    BY <2>1, MixedRow
<1> HIDE DEF m, n, e
<1>6. TakesEffect(e, m)
  BY <1>2, <1>4 DEF TakesEffect
<1>7. /\ DatabaseAfter(e, m) \in Database
      /\ \A t \in Tables, k \in Keys :
            DatabaseAfter(e, m)[t][k] =
                IF t = e.table /\ k = e.pk THEN RowAfter(e, m[t][k]) ELSE m[t][k]
  BY <1>1, <1>6, DatabaseAfterRow
<1>8. \A t \in Tables, k \in Keys : DatabaseAfter(e, m)[t][k] = n[t][k]
  BY <1>2, <1>4, <1>5, <1>7
<1>9. DatabaseAfter(e, m) = n
  BY <1>1, <1>7, <1>8, DatabasesAreFunctions
<1> QED
  BY <1>6, <1>9 DEF m, n, e

\* The entries at the first n places of an order.
FirstOf(p, n) == {p[j] : j \in 1..n}

LEMMA OneMoreFirst ==
    ASSUME NEW p, NEW n \in Nat
    PROVE  FirstOf(p, n + 1) = FirstOf(p, n) \cup {p[n + 1]}
<1>1. 1..(n + 1) = 1..n \cup {n + 1}
  OBVIOUS
<1> QED
  BY <1>1 DEF FirstOf

\* An order has every entry once.
LEMMA OrderOnce ==
    ASSUME NEW N \in Nat, NEW p \in Bijection(1..N, 1..N)
    PROVE  /\ \A n \in 1..N : p[n] \in 1..N
           /\ \A i \in 1..N : \E n \in 1..N : p[n] = i
           /\ \A m, n \in 1..N : p[m] = p[n] => m = n
  BY DEF Bijection, Injection, Surjection, IsInjective

\* In any order the log leads through mixtures of the two databases.
LEMMA OrderMixes ==
    ASSUME NEW l, NEW was, NEW is, Differences(l, was, is),
           NEW p \in Bijection(DOMAIN l, DOMAIN l), NEW n \in DOMAIN l
    PROVE  Stages([m \in DOMAIN l |-> l[p[m]]], was)[n] = Mixed(l, FirstOf(p, n), was, is)
<1> DEFINE N == Len(l)
           s == [m \in DOMAIN l |-> l[p[m]]]
           stage == Stages(s, was)
           T == {m \in 0..N : stage[m] = Mixed(l, FirstOf(p, m), was, is)}
<1>1. N \in Nat /\ DOMAIN l = 1..N /\ was \in Database /\ is \in Database
  BY DEF Differences
<1> HIDE DEF N
<1>2. Len(s) = N
  BY <1>1
<1>3. /\ \A m \in 1..N : p[m] \in 1..N
      /\ \A m, k \in 1..N : p[m] = p[k] => m = k
  BY <1>1, OrderOnce
<1>4. stage[0] = was /\ \A m \in 1..N : stage[m] = DatabaseAfter(l[p[m]], stage[m - 1])
  <2>1. \A m \in 1..N : s[m] = l[p[m]]
    BY <1>1
  <2> HIDE DEF s
  <2> QED
    BY <1>1, <1>2, <2>1, StageEquations
<1> HIDE DEF stage, s
<1>5. 0 \in T
  <2>1. FirstOf(p, 0) = {}
    BY DEF FirstOf
  <2>2. Mixed(l, FirstOf(p, 0), was, is) = was
    BY <1>1, <2>1, NothingMixed
  <2> QED
    BY <1>1, <1>4, <2>2
<1>6. ASSUME NEW m \in 0..(N - 1), m \in T PROVE m + 1 \in T
  <2>1. m + 1 \in 1..N /\ m + 1 \in 0..N /\ (m + 1) - 1 = m /\ m \in Nat
    BY <1>1
  <2>2. FirstOf(p, m) \in SUBSET (1..N) /\ p[m + 1] \in 1..N /\ p[m + 1] \notin FirstOf(p, m)
    <3>1. \A j \in 1..m : j \in 1..N /\ j # m + 1
      BY <1>1, <2>1
    <3> QED
      BY <1>3, <2>1, <3>1 DEF FirstOf
  <2>3. DatabaseAfter(l[p[m + 1]], Mixed(l, FirstOf(p, m), was, is))
            = Mixed(l, FirstOf(p, m) \cup {p[m + 1]}, was, is)
    BY <2>2, OneMoreMixed DEF N
  <2>4. FirstOf(p, m + 1) = FirstOf(p, m) \cup {p[m + 1]}
    BY <2>1, OneMoreFirst
  <2>5. stage[m + 1] = DatabaseAfter(l[p[m + 1]], stage[m])
    BY <1>4, <2>1
  <2>6. stage[m] = Mixed(l, FirstOf(p, m), was, is)
    BY <1>6
  <2> QED
    BY <2>1, <2>3, <2>4, <2>5, <2>6
<1> HIDE DEF T
<1>7. 0..N \subseteq T
  BY <1>1, <1>5, <1>6, UpTo
<1>8. n \in T
  BY <1>1, <1>7
<1> QED
  BY <1>8 DEF T, stage, s

\* The entries of tables that are not skipped.
Executable(l) == {i \in 1..Len(l) : l[i].table \notin Skipped}

\* The first place of an order that is in a set.
LEMMA FirstPlace ==
    ASSUME NEW N \in Nat, NEW F \in SUBSET (1..N), F # {}
    PROVE  \E m \in F : \A n \in F : m <= n
<1> DEFINE R == OpToRel(<, Nat)
<1>1. F \subseteq Nat
  OBVIOUS
<1>2. PICK m \in F : \A n \in F : ~(<<n, m>> \in R)
  <2> HIDE DEF R
  <2> QED
    BY <1>1, NatLessThanWellFounded, WFMin DEF R
<1>3. \A n \in F : ~(n < m)
  BY <1>1, <1>2 DEF OpToRel
<1> QED
  BY <1>1, <1>3

\* Two rows of a table are the same in both databases.
Alike(d, e, t, j, k) == d[t][j] = e[t][j] /\ d[t][k] = e[t][k]

\* A mixture with one entry more, whose two rows are the entry's own and another:
\* either the order had them so when the entry's turn came, or it has them so at
\* its end.
LEMMA PairSeen ==
    ASSUME NEW l, NEW was, NEW is, Differences(l, was, is),
           NEW D \in SUBSET Executable(l), NEW P \in SUBSET (1..Len(l)),
           NEW i \in Executable(l), i \in P, P \cap Executable(l) \subseteq D \cup {i},
           NEW k \in Keys
    PROVE  \/ Alike(Mixed(l, D \cup {i}, was, is), Mixed(l, P, was, is),
                    l[i].table, l[i].pk, k)
           \/ Alike(Mixed(l, D \cup {i}, was, is), Mixed(l, 1..Len(l), was, is),
                    l[i].table, l[i].pk, k)
<1> DEFINE t == l[i].table
           j == l[i].pk
           m == Mixed(l, D \cup {i}, was, is)
           then == Mixed(l, P, was, is)
           last == Mixed(l, 1..Len(l), was, is)
<1>1. i \in 1..Len(l) /\ t \in Tables /\ j \in Keys /\ t \notin Skipped
  BY DEF Executable, Differences, TakesEffect
<1>2. m[t][j] = is[t][j] /\ then[t][j] = is[t][j] /\ last[t][j] = is[t][j]
  <2>1. \A X : i \in X => \E x \in X : l[x].table = t /\ l[x].pk = j
    OBVIOUS
  <2>2. i \in D \cup {i} /\ i \in P /\ i \in 1..Len(l)
    BY <1>1
  <2> QED
    BY <1>1, <2>1, <2>2, MixedRow
<1>3. CASE \E x \in D \cup {i} : l[x].table = t /\ l[x].pk = k
  <2>1. \E x \in 1..Len(l) : l[x].table = t /\ l[x].pk = k
    BY <1>1, <1>3 DEF Executable
  <2>2. m[t][k] = is[t][k] /\ last[t][k] = is[t][k]
    BY <1>1, <1>3, <2>1, MixedRow
  <2> QED
    BY <1>2, <2>2 DEF Alike
<1>4. CASE ~\E x \in D \cup {i} : l[x].table = t /\ l[x].pk = k
  <2>1. ~\E x \in P : l[x].table = t /\ l[x].pk = k
    <3> SUFFICES ASSUME NEW x \in P, l[x].table = t, l[x].pk = k PROVE FALSE
      OBVIOUS
    <3>1. x \in Executable(l)
      BY <1>1 DEF Executable
    <3> QED
      BY <1>4, <3>1
  <2>2. m[t][k] = was[t][k] /\ then[t][k] = was[t][k]
    BY <1>1, <1>4, <2>1, MixedRow
  <2> QED
    BY <1>2, <2>2 DEF Alike
<1> QED
  BY <1>3, <1>4 DEF Alike

\* Wherever the rounds are, with entries left, one of these can be executed: the
\* first of them in an order that meets no constraint.
LEMMA OneCanBeExecuted ==
    ASSUME PairsDecide, NEW l, NEW was, NEW is, Differences(l, was, is), Resolvable(l, was),
           NEW D \in SUBSET Executable(l), D # Executable(l), Mixed(l, D, was, is) \in Admitted
    PROVE  \E i \in Executable(l) \ D : Mixed(l, D \cup {i}, was, is) \in Admitted
<1> DEFINE N == Len(l)
           W == Executable(l)
<1>1. N \in Nat /\ DOMAIN l = 1..N /\ W \in SUBSET (1..N) /\ was \in Database /\ is \in Database
  BY DEF Differences, Executable
<1>2. PICK p \in Bijection(DOMAIN l, DOMAIN l) :
        \A n \in DOMAIN l : Stages([m \in DOMAIN l |-> l[p[m]]], was)[n] \in Admitted
  BY DEF Resolvable
<1>3. ASSUME NEW n \in 1..N PROVE Mixed(l, FirstOf(p, n), was, is) \in Admitted
  <2>1. n \in DOMAIN l
    BY <1>1
  <2>2. Stages([m \in DOMAIN l |-> l[p[m]]], was)[n] = Mixed(l, FirstOf(p, n), was, is)
    BY <2>1, OrderMixes
  <2>3. Stages([m \in DOMAIN l |-> l[p[m]]], was)[n] \in Admitted
    BY <1>2, <2>1
  <2> QED
    BY <2>2, <2>3
<1>4. /\ \A n \in 1..N : p[n] \in 1..N
      /\ \A i \in 1..N : \E n \in 1..N : p[n] = i
  BY <1>1, <1>2, OrderOnce
<1> HIDE DEF N, W
<1> DEFINE F == {n \in 1..N : p[n] \in W \ D}
<1>5. F # {}
  <2>1. PICK i \in W : i \notin D
    BY DEF W
  <2>2. PICK n \in 1..N : p[n] = i
    BY <1>1, <1>4, <2>1
  <2> QED
    BY <2>1, <2>2
<1>6. PICK m \in F : \A n \in F : m <= n
  <2>1. F \in SUBSET (1..N)
    OBVIOUS
  <2> HIDE DEF F
  <2> QED
    BY <1>1, <1>5, <2>1, FirstPlace
<1> DEFINE i == p[m]
           P == FirstOf(p, m)
           d == Mixed(l, D \cup {i}, was, is)
<1>7. m \in 1..N /\ i \in W \ D
  BY <1>6
<1>8. P \in SUBSET (1..N) /\ i \in P /\ P \cap W \subseteq D \cup {i}
  <2>1. m \in 1..m /\ \A n \in 1..m : n \in 1..N
    BY <1>1, <1>7
  <2>2. ASSUME NEW n \in 1..m, p[n] \in W, p[n] \notin D PROVE n = m
    <3>1. n \in F
      BY <2>1, <2>2
    <3>2. m <= n
      BY <1>6, <3>1
    <3> QED
      BY <1>1, <1>7, <3>2
  <2> QED
    BY <1>4, <2>1, <2>2 DEF FirstOf
<1>9. FirstOf(p, N) = 1..N
  BY <1>4 DEF FirstOf
<1>10. Mixed(l, P, was, is) \in Admitted /\ Mixed(l, 1..N, was, is) \in Admitted
  <2>1. N \in 1..N
    BY <1>1, <1>7
  <2> QED
    BY <1>3, <1>7, <1>9, <2>1
<1>11. d \in Database
  BY <1>1, MixedTyped
<1> HIDE DEF F, P
<1>12. ASSUME NEW k \in Keys
       PROVE  \E e \in Admitted : Alike(d, e, l[i].table, l[i].pk, k)
  <2>1. /\ i \in Executable(l) /\ P \cap Executable(l) \subseteq D \cup {i}
        /\ P \in SUBSET (1..Len(l)) /\ i \in P
    BY <1>7, <1>8 DEF W, N
  <2> HIDE DEF i
  <2>2. \/ Alike(Mixed(l, D \cup {i}, was, is), Mixed(l, P, was, is), l[i].table, l[i].pk, k)
        \/ Alike(Mixed(l, D \cup {i}, was, is), Mixed(l, 1..Len(l), was, is), l[i].table, l[i].pk, k)
    BY <2>1, PairSeen
  <2> QED
    BY <1>10, <2>2 DEF N
<1>13. ASSUME NEW t \in Tables, NEW k \in Keys, ~(t = l[i].table /\ k = l[i].pk)
       PROVE  d[t][k] = Mixed(l, D, was, is)[t][k]
  <2>1. (\E x \in D \cup {i} : l[x].table = t /\ l[x].pk = k)
            <=> (\E x \in D : l[x].table = t /\ l[x].pk = k)
    BY <1>13
  <2> HIDE DEF i
  <2> QED
    BY <2>1, MixedRow
<1> HIDE DEF i, d
<1>14. ASSUME NEW t \in Tables, NEW j \in Keys, NEW k \in Keys
       PROVE  \E e \in Admitted : e[t][j] = d[t][j] /\ e[t][k] = d[t][k]
  <2>1. CASE t = l[i].table /\ j = l[i].pk
    BY <1>12, <2>1 DEF Alike
  <2>2. CASE t = l[i].table /\ k = l[i].pk
    BY <1>12, <2>2 DEF Alike
  <2>3. CASE ~(t = l[i].table /\ j = l[i].pk) /\ ~(t = l[i].table /\ k = l[i].pk)
    <3>1. d[t][j] = Mixed(l, D, was, is)[t][j] /\ d[t][k] = Mixed(l, D, was, is)[t][k]
      BY <1>13, <2>3
    <3> QED
      BY <3>1
  <2> QED
    BY <2>1, <2>2, <2>3
<1>15. d \in Admitted
  BY <1>11, <1>14 DEF PairsDecide
<1> QED
  BY <1>7, <1>15 DEF W, d

\* With every entry executed but those of system tables, the rows are the target's.
LEMMA AllMixed ==
    ASSUME NEW l, NEW was, NEW is, Differences(l, was, is)
    PROVE  Mixed(l, Executable(l), was, is)
                = [t \in Tables |-> IF t \in Skipped THEN was[t] ELSE is[t]]
<1> DEFINE m == Mixed(l, Executable(l), was, is)
           d == [t \in Tables |-> IF t \in Skipped THEN was[t] ELSE is[t]]
<1>1. was \in Database /\ is \in Database
  BY DEF Differences
<1>2. m \in Database /\ d \in Database
  BY <1>1, MixedTyped DEF Database
<1>3. ASSUME NEW t \in Tables, NEW k \in Keys PROVE m[t][k] = d[t][k]
  <2>1. d[t] = IF t \in Skipped THEN was[t] ELSE is[t]
    OBVIOUS
  <2> HIDE DEF d
  <2>2. (\E i \in Executable(l) : l[i].table = t /\ l[i].pk = k)
            <=> t \notin Skipped /\ \E i \in 1..Len(l) : l[i].table = t /\ l[i].pk = k
    BY DEF Executable
  <2>3. (\E i \in 1..Len(l) : l[i].table = t /\ l[i].pk = k) <=> was[t][k] # is[t][k]
    BY DEF Differences
  <2>4. m[t][k] = IF \E i \in Executable(l) : l[i].table = t /\ l[i].pk = k
                  THEN is[t][k] ELSE was[t][k]
    BY MixedRow
  <2> QED
    BY <2>1, <2>2, <2>3, <2>4
<1> HIDE DEF m, d
<1> QED
  BY <1>2, <1>3, DatabasesAreFunctions DEF m, d

-----------------------------------------------------------------------------
(* The rounds execute every entry that any order could *)

\* The rows once the entries in D, and no others, have been executed.
With(D) == Mixed(log, D, before, call.to)

Done == Wanted \ Left

\* Every entry executed so far left a legal database, and a round that has put off
\* all it tried has found each of them illegal in the transaction as it still is.
Progress ==
    /\ phase \in {"main", "retry", "restore", "release"} =>
        unrecoverable = 0 /\ work.rows = With(Done) /\ With(Done) \in Admitted
    /\ phase = "retry" =>
        /\ conflicting # <<>> /\ Len(newConflicting) <= turn
        /\ Len(newConflicting) = turn =>
            \A n \in 1..Len(newConflicting) : With(Done \cup {newConflicting[n]}) \notin Admitted
    /\ code \notin {"conflicts", "error"}

LEMMA ReadyFacts ==
    ASSUME TypeOK, Ready
    PROVE  /\ Differences(log, before, call.to) /\ Wanted = Executable(log)
           /\ Wanted \in SUBSET (1..Len(log)) /\ Left \in SUBSET Wanted /\ Done \in SUBSET Wanted
           /\ before \in Admitted /\ With({}) = before
           /\ With(Wanted) \in Referential
<1>1. call.from \in Database /\ call.to \in Database /\ call.from = before
  BY DEF TypeOK, Call, Ready
<1>2. Differences(log, before, call.to)
  BY <1>1, CreatedDifferences DEF Ready, Legal, log
<1>3. Wanted = Executable(log)
  BY WantedFinite DEF Executable
<1>4. With({}) = before
  BY <1>1, NothingMixed DEF With
<1>5. With(Wanted) \in Referential
  BY <1>1, <1>2, <1>3, AllMixed DEF With, Ready, Legal
<1> QED
  BY <1>1, <1>2, <1>3, <1>4, <1>5 DEF Ready, Legal, Executable, Left, Done

\* An entry still to be executed takes effect, and does so unless that is illegal.
LEMMA PendingOutcome ==
    ASSUME TypeOK, Ready, NEW i \in Left, work.rows = With(Done)
    PROVE  /\ Put(log[i]) = With(Done \cup {i})
           /\ Put(log[i]) \in Admitted => Outcome(log[i]) = "applied"
           /\ Put(log[i]) \notin Admitted => Outcome(log[i]) = "conflict"
<1> DEFINE e == log[i]
<1>1. i \in 1..Len(log) /\ e.table \notin Skipped /\ i \notin Done
  BY WantedFinite DEF Left, Done
<1>2. Done \in SUBSET (1..Len(log)) /\ Differences(log, before, call.to)
  BY ReadyFacts
<1>3. TakesEffect(e, work.rows) /\ DatabaseAfter(e, work.rows) = With(Done \cup {i})
  BY <1>1, <1>2, OneMoreMixed DEF With
<1>4. work.rows # Absent
  BY AbsentAssumption DEF TypeOK
<1>5. Put(e) = With(Done \cup {i})
  BY <1>3, <1>4 DEF DatabaseAfter, TakesEffect, Put
<1>6. Effective(e, work.rows[e.table][e.pk])
  BY <1>3 DEF TakesEffect
<1> HIDE DEF e
<1>7. Put(e) \in Admitted => Outcome(e) = "applied"
  BY <1>1, <1>6, Zenon DEF Outcome
<1>8. Put(e) \notin Admitted => Outcome(e) = "conflict"
  BY <1>1, <1>6, Zenon DEF Outcome
<1> QED
  BY <1>5, <1>7, <1>8 DEF e

\* One entry tried, in either loop.
LEMMA TriedProgress ==
    ASSUME IInv, Ready, NEW i \in Pending, unrecoverable = 0, work.triggers = {},
           work.rows = With(Done), With(Done) \in Admitted,
           Execute(log[i]), Count(log[i]), UNCHANGED <<call, before>>,
           Left' = IF Outcome(log[i]) = "conflict" THEN Left ELSE Left \ {i}
    PROVE  /\ unrecoverable' = 0 /\ work'.rows = With(Done)' /\ With(Done)' \in Admitted
           /\ Outcome(log[i]) = "conflict" =>
                Left' = Left /\ With(Done)' = With(Done) /\ With(Done \cup {i}) \notin Admitted
<1>1. TypeOK /\ log' = log /\ Wanted' = Wanted /\ before' = before /\ call' = call
  BY DEF IInv, log, Wanted
<1>2. With(Done)' = With(Done')
  BY <1>1 DEF With
<1>3. Done' = Wanted \ Left'
  BY <1>1 DEF Done
<1>4. CASE i \notin Left
  <2>1. Outcome(log[i]) = "skipped"
    <3>1. i \in 1..Len(log) /\ i \notin Wanted
      BY <1>4 DEF Left, Pending
    <3> QED
      BY <1>1, <3>1, WantedFinite, OutcomeKinds
  <2>2. Left' = Left
    BY <1>4, <2>1
  <2>3. Done' = Done
    BY <1>3, <2>2 DEF Done
  <2>4. work'.rows = work.rows
    BY <1>1, <2>1, ExecuteRows
  <2>5. unrecoverable' = 0
    BY <2>1 DEF Count
  <2> QED
    BY <1>2, <2>1, <2>3, <2>4, <2>5
<1>5. CASE i \in Left
  <2>1. /\ Put(log[i]) = With(Done \cup {i})
        /\ Put(log[i]) \in Admitted => Outcome(log[i]) = "applied"
        /\ Put(log[i]) \notin Admitted => Outcome(log[i]) = "conflict"
    BY <1>1, <1>5, PendingOutcome
  <2>2. unrecoverable' = 0
    BY <2>1 DEF Count
  <2>3. CASE Put(log[i]) \in Admitted
    <3>1. Outcome(log[i]) = "applied" /\ Left' = Left \ {i}
      BY <2>1, <2>3
    <3>2. Done' = Done \cup {i}
      BY <1>3, <1>5, <3>1 DEF Done, Left
    <3>3. work'.rows = Put(log[i])
      BY <1>1, <3>1, ExecuteRows
    <3> QED
      BY <1>2, <2>1, <2>2, <2>3, <3>1, <3>2, <3>3
  <2>4. CASE Put(log[i]) \notin Admitted
    <3>1. Outcome(log[i]) = "conflict" /\ Left' = Left
      BY <2>1, <2>4
    <3>2. Done' = Done
      BY <1>3, <3>1 DEF Done
    <3>3. work'.rows = work.rows
      BY <1>1, <3>1, ExecuteRows
    <3> QED
      BY <1>2, <2>1, <2>2, <2>4, <3>1, <3>2, <3>3
  <2> QED
    BY <2>3, <2>4
<1> QED
  BY <1>4, <1>5

LEMMA ApplyEntryProgress ==
    ASSUME IInv, PutOffOnce, Ready, Progress, ApplyEntry
    PROVE  Progress'
<1>1. /\ phase = "main" /\ phase' = "main" /\ UNCHANGED <<call, before, code>>
      /\ Execute(log[pos + 1]) /\ Count(log[pos + 1])
  BY DEF ApplyEntry
<1>2. work.triggers = {}
  BY <1>1 DEF PutOffOnce
<1>3. unrecoverable = 0 /\ work.rows = With(Done) /\ With(Done) \in Admitted
  BY <1>1 DEF Progress
<1>4. unrecoverable' = 0 /\ work'.rows = With(Done)' /\ With(Done)' \in Admitted
  BY <1>1, <1>2, <1>3, ApplyEntryTurn, TriedProgress
<1> QED
  BY <1>1, <1>4 DEF Progress

LEMMA RetryEntryProgress ==
    ASSUME IInv, PutOffOnce, Ready, Progress, RetryEntry
    PROVE  Progress'
<1> DEFINE i == conflicting[turn + 1]
<1>1. /\ phase = "retry" /\ phase' = "retry" /\ UNCHANGED <<call, before, conflicting, code>>
      /\ turn < Len(conflicting) /\ turn' = turn + 1
      /\ Execute(log[i]) /\ Count(log[i])
      /\ newConflicting' = IF Outcome(log[i]) = "conflict" THEN Append(newConflicting, i)
                           ELSE newConflicting
  BY DEF RetryEntry
<1>2. work.triggers = {}
  BY <1>1 DEF PutOffOnce
<1>3. /\ unrecoverable = 0 /\ work.rows = With(Done) /\ With(Done) \in Admitted
      /\ conflicting # <<>> /\ Len(newConflicting) <= turn
      /\ Len(newConflicting) = turn =>
            \A n \in 1..Len(newConflicting) : With(Done \cup {newConflicting[n]}) \notin Admitted
  BY <1>1 DEF Progress
<1>4. /\ i \in Pending
      /\ Left' = IF Outcome(log[i]) = "conflict" THEN Left ELSE Left \ {i}
  BY RetryEntryTurn
<1>5. /\ newConflicting \in Seq(1..Len(log)) /\ Len(newConflicting) \in Nat
      /\ turn \in Nat /\ i \in 1..Len(log)
  <2>1. TypeOK
    BY DEF IInv
  <2>2. newConflicting \in Seq(1..Len(log)) /\ Len(newConflicting) \in Nat /\ turn \in Nat
    BY <2>1, LogTyped DEF TypeOK
  <2> QED
    BY <1>4, <2>2 DEF Pending
<1> HIDE DEF i
<1>6. /\ unrecoverable' = 0 /\ work'.rows = With(Done)' /\ With(Done)' \in Admitted
      /\ Outcome(log[i]) = "conflict" =>
            Left' = Left /\ With(Done)' = With(Done) /\ With(Done \cup {i}) \notin Admitted
  BY <1>1, <1>2, <1>3, <1>4, TriedProgress
<1>7. /\ Len(newConflicting') <= turn'
      /\ Len(newConflicting') = turn' =>
            \A n \in 1..Len(newConflicting') :
                With(Done \cup {newConflicting[n]})' \notin Admitted
  <2>1. CASE Outcome(log[i]) = "conflict"
    <3>1. /\ Len(newConflicting') = Len(newConflicting) + 1
          /\ newConflicting'[Len(newConflicting) + 1] = i
          /\ \A n \in 1..Len(newConflicting) : newConflicting'[n] = newConflicting[n]
      BY <1>1, <1>5, <2>1
    <3>2. \A D : With(D)' = With(D')
      BY <1>1 DEF With, log
    <3>3. Done' = Done
      BY <1>1, <1>6, <2>1 DEF Done, Wanted, log
    <3>4. \A n \in 1..Len(newConflicting') :
            n \in 1..Len(newConflicting) \/ n = Len(newConflicting) + 1
      BY <1>5, <3>1
    <3>5. ASSUME Len(newConflicting') = turn', NEW n \in 1..Len(newConflicting')
          PROVE  With(Done \cup {newConflicting'[n]}) \notin Admitted
      <4>1. Len(newConflicting) = turn
        BY <1>1, <1>5, <3>1, <3>5
      <4> QED
        BY <1>3, <1>6, <2>1, <3>1, <3>4, <4>1
    <3>6. ASSUME NEW n \in 1..Len(newConflicting')
          PROVE  With(Done \cup {newConflicting[n]})' = With(Done \cup {newConflicting'[n]})
      BY <1>1, <3>3 DEF With, log
    <3>7. Len(newConflicting') <= turn'
      BY <1>1, <1>3, <1>5, <3>1
    <3>8. ASSUME Len(newConflicting') = turn', NEW n \in 1..Len(newConflicting')
          PROVE  With(Done \cup {newConflicting[n]})' \notin Admitted
      BY <3>5, <3>6, <3>8
    <3> QED
      BY <3>7, <3>8
  <2>2. CASE Outcome(log[i]) # "conflict"
    BY <1>1, <1>3, <1>5, <2>2
  <2> QED
    BY <2>1, <2>2
<1> QED
  BY <1>1, <1>3, <1>6, <1>7 DEF Progress

LEMMA NextRoundProgress ==
    ASSUME IInv, PutOffOnce, Ready, Progress, NextRound
    PROVE  Progress'
<1>1. /\ phase = "retry" /\ turn' = 0 /\ newConflicting' = <<>>
      /\ conflicting' = newConflicting
      /\ phase' = IF newConflicting = <<>> THEN "restore" ELSE "retry"
      /\ UNCHANGED <<call, before, work, unrecoverable, code>>
  BY DEF NextRound
<1>2. Left' = Left /\ log' = log /\ Wanted' = Wanted
  BY <1>1, NextRoundTurn DEF log, Wanted
<1>3. With(Done)' = With(Done)
  BY <1>1, <1>2 DEF With, Done
<1>4. Len(newConflicting') = 0 /\ 1..Len(newConflicting') = {}
  BY <1>1
<1> QED
  BY <1>1, <1>3, <1>4 DEF Progress

\* A round that resolved nothing would have put off an entry that is legal: there
\* is no giving up.
LEMMA NoGivingUp ==
    ASSUME PairsDecide, IInv, PutOffOnce, Ready, Progress
    PROVE  ~GiveUp
<1> SUFFICES ASSUME GiveUp PROVE FALSE
  OBVIOUS
<1>1. /\ phase = "retry" /\ turn = Len(conflicting)
      /\ Len(newConflicting) = Len(conflicting)
  BY DEF GiveUp
<1>2. TypeOK /\ pos = Len(log)
  BY <1>1 DEF IInv, Transaction
<1>3. /\ conflicting \in Seq(1..Len(log)) /\ Len(conflicting) \in Nat /\ Len(log) \in Nat
      /\ newConflicting \in Seq(1..Len(log))
  BY <1>2, LogTyped DEF TypeOK
<1>4. /\ With(Done) \in Admitted /\ conflicting # <<>>
      /\ \A n \in 1..Len(newConflicting) : With(Done \cup {newConflicting[n]}) \notin Admitted
  BY <1>1 DEF Progress
<1>5. /\ Differences(log, before, call.to) /\ Wanted = Executable(log)
      /\ Left \in SUBSET Wanted /\ Done \in SUBSET Wanted
  BY <1>2, ReadyFacts
<1>6. \A i \in Left : \E n \in 1..Len(newConflicting) : i = newConflicting[n]
  <2>1. (turn + 1)..Len(conflicting) = {} /\ \A i \in 1..Len(log) : ~(i > pos)
    BY <1>1, <1>2, <1>3
  <2> QED
    BY <2>1 DEF Left, Pending
<1>7. Left # {}
  <2>1. 1 \in 1..Len(newConflicting)
    BY <1>1, <1>3, <1>4
  <2>2. newConflicting[1] \in Wanted /\ newConflicting[1] \in 1..Len(log)
    BY <1>3, <2>1 DEF PutOffOnce
  <2>3. newConflicting[1] \in Pending
    BY <2>1, <2>2 DEF Pending
  <2> QED
    BY <2>2, <2>3 DEF Left
<1>8. Done # Wanted /\ Wanted \ Done = Left
  BY <1>5, <1>7 DEF Done
<1>9. \E i \in Wanted \ Done : With(Done \cup {i}) \in Admitted
  <2>1. Resolvable(log, before)
    BY DEF Ready
  <2>2. \E i \in Executable(log) \ Done :
            Mixed(log, Done \cup {i}, before, call.to) \in Admitted
    BY <1>4, <1>5, <1>8, <2>1, OneCanBeExecuted DEF With
  <2> QED
    BY <1>5, <2>2 DEF With
<1> QED
  BY <1>4, <1>6, <1>8, <1>9

\* The steps that leave the loops alone.
LEMMA OtherProgress ==
    ASSUME Ready, Progress, UNCHANGED <<call, before, loop>>,
           phase' = "main" => FALSE,
           phase' \in {"retry", "restore"} => phase = "main" /\ work' = work,
           phase' = "retry" => conflicting # <<>> /\ turn = 0 /\ newConflicting = <<>>,
           phase' = "release" => phase = "restore" /\ work'.rows = work.rows,
           code' \notin {"conflicts", "error"}
    PROVE  Progress'
<1>1. /\ log' = log /\ Wanted' = Wanted /\ Left' = Left
      /\ conflicting' = conflicting /\ turn' = turn
      /\ newConflicting' = newConflicting /\ unrecoverable' = unrecoverable
  BY DEF loop, log, Wanted, Left, Pending
<1>2. With(Done)' = With(Done)
  BY <1>1 DEF With, Done
<1>3. newConflicting = <<>> => Len(newConflicting) = 0 /\ 1..Len(newConflicting) = {}
  OBVIOUS
<1> QED
  BY <1>1, <1>2, <1>3 DEF Progress

LEMMA DropTriggersProgress ==
    ASSUME IInv, PutOffOnce, Ready, Progress, DropTriggers
    PROVE  Progress'
<1>1. phase = "drop" /\ phase' = "main" /\ UNCHANGED <<call, before, unrecoverable, code>>
  BY DEF DropTriggers, loop
<1>2. Left' = Wanted /\ work'.rows = before
  BY DropTriggersTurn
<1>3. With({}) = before /\ before \in Admitted
  BY ReadyFacts DEF IInv
<1>4. With(Done)' = With({})
  <2>1. Done' = {}
    BY <1>1, <1>2 DEF Done, Wanted, log
  <2> QED
    BY <1>1, <2>1 DEF With, log
<1>5. unrecoverable' = 0
  BY <1>1 DEF IInv, Counts
<1> QED
  BY <1>1, <1>2, <1>3, <1>4, <1>5 DEF Progress

\* With all executed no reference dangles.
LEMMA ReleaseProgress ==
    ASSUME IInv, PutOffOnce, Ready, Progress, Release
    PROVE  Progress'
<1>1. phase = "release"
  BY DEF Release
<1>2. TypeOK /\ Left = {}
  BY <1>1, NothingLeft DEF IInv
<1>3. work.rows \in Referential
  <2>1. Done = Wanted
    BY <1>2 DEF Done
  <2> QED
    BY <1>1, <1>2, <2>1, ReadyFacts DEF Progress
<1>4. phase' = "idle" /\ code' = "ok" /\ UNCHANGED <<call, before, loop>>
  BY <1>3 DEF Release
<1> QED
  BY <1>4, OtherProgress

LEMMA NextProgress ==
    PairsDecide /\ IInv /\ PutOffOnce /\ (Ready => Progress) /\ [Next]_vars => (Ready => Progress)'
<1> SUFFICES ASSUME PairsDecide, IInv, PutOffOnce, Ready => Progress, [Next]_vars, Ready'
             PROVE  Progress'
  OBVIOUS
<1>1. CASE CallApply
  <2>1. phase' \in {"idle", "begin"} /\ code' \in {"ok", "none"}
    BY <1>1 DEF CallApply
  <2> QED
    BY <2>1 DEF Progress
<1>2. CASE ~CallApply
  <2>1. UNCHANGED <<call, before>>
    BY <1>2 DEF Next, Step, Savepoint, DropTriggers, ApplyEntry, EndMain, RetryEntry, NextRound,
                GiveUp, RestoreTriggers, Release, Rollback, Fail, Crash, vars
  <2>2. Ready
    BY <2>1 DEF Ready, log
  <2>3. Progress
    BY <2>2
  <2>4. phase = "main" => turn = 0 /\ newConflicting = <<>>
    BY DEF IInv, Counts
  <2>5. code \notin {"conflicts", "error"}
    BY <2>3 DEF Progress
  <2>6. CASE DropTriggers
    BY <2>2, <2>3, <2>6, DropTriggersProgress
  <2>7. CASE ApplyEntry
    BY <2>2, <2>3, <2>7, ApplyEntryProgress
  <2>8. CASE RetryEntry
    BY <2>2, <2>3, <2>8, RetryEntryProgress
  <2>9. CASE NextRound
    BY <2>2, <2>3, <2>9, NextRoundProgress
  <2>10. CASE GiveUp
    BY <2>2, <2>3, <2>10, NoGivingUp
  <2>11. CASE Release
    BY <2>2, <2>3, <2>11, ReleaseProgress
  <2>12. CASE Savepoint \/ EndMain
    <3>1. /\ UNCHANGED <<call, before, work, loop, code>>
          /\ \/ phase' = "drop"
             \/ phase = "main" /\ phase' = "restore"
             \/ phase = "main" /\ phase' = "retry" /\ conflicting # <<>>
      BY <2>12 DEF Savepoint, EndMain
    <3> QED
      BY <2>2, <2>3, <2>4, <2>5, <3>1, OtherProgress
  <2>13. CASE RestoreTriggers
    <3>1. phase = "restore"
      BY <2>13 DEF RestoreTriggers
    <3>2. unrecoverable = 0
      BY <2>3, <3>1 DEF Progress
    <3>3. UNCHANGED <<call, before, loop, code>> /\ phase' = "release" /\ work' = Restored
      BY <2>13, <3>2 DEF RestoreTriggers
    <3>4. Restored.rows = work.rows
      BY DEF Restored, IInv, TypeOK
    <3> QED
      BY <2>2, <2>3, <2>5, <3>1, <3>3, <3>4, OtherProgress
  <2>14. CASE Rollback \/ Fail \/ Crash
    <3>1. /\ UNCHANGED <<call, before, loop>> /\ phase' \in {"idle", "rollback"}
          /\ code' \in {code, "failed", "crash"}
      BY <2>14 DEF Rollback, Fail, Crash, FailWith
    <3> QED
      BY <2>2, <2>3, <2>5, <3>1, OtherProgress
  <2>15. CASE UNCHANGED vars
    <3>1. /\ UNCHANGED <<phase, call, before, work, code, conflicting, turn, newConflicting,
                         unrecoverable, pos>>
      BY <2>15 DEF vars, loop
    <3>2. log' = log /\ Wanted' = Wanted /\ Left' = Left
      BY <3>1 DEF log, Wanted, Left, Pending
    <3>3. With(Done)' = With(Done)
      BY <3>1, <3>2 DEF With, Done
    <3>4. \A n : With(Done \cup {newConflicting[n]})' = With(Done \cup {newConflicting[n]})
      BY <3>1, <3>2 DEF With, Done
    <3> QED
      BY <2>3, <3>1, <3>3, <3>4 DEF Progress
  <2> QED
    BY <1>2, <2>6, <2>7, <2>8, <2>9, <2>10, <2>11, <2>12, <2>13, <2>14, <2>15 DEF Next, Step
<1> QED
  BY <1>1, <1>2

\* A changeset applied to the database it was made from gives the database it was
\* made for, whenever some order of its entries breaks no constraint on the way: the
\* rounds never give up, no entry misses its row and no reference dangles at the end.
THEOREM RetriesReachTarget == PairsDecide /\ Spec => []ReachesTarget
<1>1. Init => (Ready => Progress)
  BY DEF Init, Progress
<1>2. PairsDecide /\ [Next]_vars => PairsDecide'
  OBVIOUS
<1>3. PairsDecide /\ IInv /\ PutOffOnce /\ (Ready => Progress) /\ [Next]_vars
        => (Ready => Progress)'
  BY NextProgress
<1>4. (Ready => Progress) /\ TargetOnSuccess => ReachesTarget
  <2> SUFFICES ASSUME Ready, Ready => Progress, TargetOnSuccess, Ended,
                      NEW t \in Tables \ Skipped
               PROVE  disk.rows[t] = call.to[t]
    BY DEF ReachesTarget
  <2>1. code = "ok"
    BY DEF Progress, Ended
  <2> QED
    BY <2>1 DEF TargetOnSuccess, Ready, Legal, log
<1> QED
  BY <1>1, <1>2, <1>3, <1>4, Invariance, Traced, SuccessReachesTarget, PTL DEF Spec
=============================================================================
