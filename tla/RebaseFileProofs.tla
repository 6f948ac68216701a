--------------------------- MODULE RebaseFileProofs ---------------------------
(***************************************************************************)
(* A rebase of a database file, from the call to the answer: driver.Rebase *)
(* runs as RebaseProofs shows, on the changesets ChangesetProofs is about, *)
(* and what it writes is applied to the file in one call or in three, in   *)
(* the midst of which other programs may write to the file.                *)
(***************************************************************************)
EXTENDS RebaseFile, RebaseProofs

-----------------------------------------------------------------------------
(* What ApplyChangeset makes of a file *)

\* Executed on a row, the entry leaves a row or none.
Executable(e) == e \in Entry /\ (e.op = "insert" => e.new \in Row)

ExecutableLog(log) ==
    log \in Seq(Entry) /\ Len(log) \in Nat /\ \A i \in 1..Len(log) : Executable(log[i])

\* An entry leads from a database to a database, or has no effect.
LEMMA EntryTypedEffect ==
    ASSUME NEW e, Executable(e), NEW d \in Database \cup {Absent}
    PROVE  DatabaseAfter(e, d) \in Database \cup {Absent}
<1> SUFFICES ASSUME d # Absent, e.pk \in Keys, Effective(e, d[e.table][e.pk])
             PROVE  DatabaseAfter(e, d) \in Database
  BY DEF DatabaseAfter
<1> DEFINE r == d[e.table][e.pk]
<1>1. d \in Database /\ e.table \in Tables /\ e.op \in Operations /\ e.new \in EntryValues
  BY DEF Executable, Entry
<1>2. r \in Row \cup {Absent} /\ Effective(e, r)
  BY <1>1 DEF Database
<1> HIDE DEF r
<1>3. RowAfter(e, r) \in Row \cup {Absent}
  <2>1. CASE e.op = "insert"
    BY <2>1 DEF RowAfter, Executable
  <2>2. CASE e.op = "delete"
    BY <2>2 DEF RowAfter
  <2>3. CASE e.op = "update"
    <3>1. r \in Row
      BY <1>2, <2>3 DEF Effective, Matches
    <3>2. Overlay(e.new, r) \in Row
      BY <1>1, <3>1 DEF Overlay, Row, EntryValues
    <3> QED
      BY <2>3, <3>2 DEF RowAfter
  <2> QED
    BY <1>1, <2>1, <2>2, <2>3 DEF Operations
<1>4. TakesEffect(e, d)
  BY <1>1, <1>2, <1>3 DEF TakesEffect, r
<1> QED
  BY <1>1, <1>4, DatabaseAfterRow

\* So does a log.
LEMMA ReplayTyped ==
    ASSUME NEW log, ExecutableLog(log), NEW d \in Database
    PROVE  Replay(log, d) \in Database \cup {Absent}
<1> DEFINE stage == Stages(log, d)
           N == Len(log)
           T == {n \in 0..N : stage[n] \in Database \cup {Absent}}
<1>1. N \in Nat
  BY DEF ExecutableLog
<1>2. 0 \in T
  <2>1. stage[0] = d
    BY <1>1, StageEquations
  <2> QED
    BY <1>1, <2>1
<1>3. ASSUME NEW n \in 0..(N - 1), n \in T PROVE n + 1 \in T
  <2>1. n + 1 \in 1..N /\ n + 1 \in 0..N /\ (n + 1) - 1 = n
    BY <1>1
  <2>2. stage[n + 1] = DatabaseAfter(log[n + 1], stage[n])
    BY <1>1, <2>1, StageEquations
  <2>3. Executable(log[n + 1]) /\ stage[n] \in Database \cup {Absent}
    BY <1>3, <2>1 DEF ExecutableLog
  <2> HIDE DEF stage, N
  <2>4. DatabaseAfter(log[n + 1], stage[n]) \in Database \cup {Absent}
    BY <2>3, EntryTypedEffect
  <2> QED
    BY <2>1, <2>2, <2>4
<1> HIDE DEF T
<1>4. 0..N \subseteq T
  BY <1>1, <1>2, <1>3, UpTo
<1>5. N \in T
  BY <1>1, <1>4
<1> QED
  BY <1>5 DEF T, Replay

-----------------------------------------------------------------------------
(* The same entries in any order: the recursion of AtomicApply's Turns *)

\* One more entry executed, any of those left that takes effect.
OneMore(l, states) ==
    {s \in UNION {{[left |-> r.left \ {i}, rows |-> Atomic!DatabaseAfter(l[i], r.rows)] :
                        i \in r.left} : r \in states} : s.rows # Absent}

TurnsUpTo(l, d, N, after) ==
    after = [n \in 0..N |-> IF n = 0 THEN {[left |-> Atomic!Wanted(l), rows |-> d]}
                           ELSE OneMore(l, after[n - 1])]

LEMMA TurnsExist ==
    ASSUME NEW l, NEW d, NEW N \in Nat
    PROVE  \E after : TurnsUpTo(l, d, N, after)
<1> DEFINE start == {[left |-> Atomic!Wanted(l), rows |-> d]}
           T == {n \in Nat : \E after : TurnsUpTo(l, d, n, after)}
<1>1. 0 \in T
  <2> DEFINE first == [i \in 0..0 |-> start]
  <2>1. TurnsUpTo(l, d, 0, first)
    BY DEF TurnsUpTo
  <2> QED
    BY <2>1
<1>2. ASSUME NEW n \in Nat, n \in T PROVE n + 1 \in T
  <2>1. PICK f : TurnsUpTo(l, d, n, f)
    BY <1>2
  <2> DEFINE g == [i \in 0..(n + 1) |-> IF i = n + 1 THEN OneMore(l, f[n]) ELSE f[i]]
  <2>2. g[n + 1] = OneMore(l, f[n]) /\ \A i \in 0..n : g[i] = f[i]
    OBVIOUS
  <2>3. f = [i \in 0..n |-> IF i = 0 THEN start ELSE OneMore(l, f[i - 1])]
    BY <2>1 DEF TurnsUpTo
  <2>4. ASSUME NEW i \in 0..(n + 1)
        PROVE  g[i] = IF i = 0 THEN start ELSE OneMore(l, g[i - 1])
    <3>1. CASE i = n + 1
      BY <2>2, <3>1
    <3>2. CASE i = 0
      BY <2>2, <2>3, <3>2
    <3>3. CASE i \in 1..n
      <4>1. i - 1 \in 0..n /\ i \in 0..n /\ i # 0
        BY <3>3
      <4>2. f[i] = OneMore(l, f[i - 1])
        BY <2>3, <4>1
      <4> QED
        BY <2>2, <4>1, <4>2
    <3> QED
      BY <3>1, <3>2, <3>3
  <2>5. TurnsUpTo(l, d, n + 1, g)
    <3>1. g = [i \in 0..(n + 1) |-> g[i]]
      OBVIOUS
    <3> HIDE DEF g
    <3> QED
      BY <2>4, <3>1 DEF TurnsUpTo
  <2> QED
    BY <2>5
<1> HIDE DEF T
<1>3. Nat \subseteq T
  BY <1>1, <1>2, AllNaturals
<1> QED
  BY <1>3 DEF T

\* The abstract specification executes an entry as Changeset does.
LEMMA SameExecution ==
    ASSUME NEW e, NEW d
    PROVE  Atomic!DatabaseAfter(e, d) = DatabaseAfter(e, d)
  BY DEF Atomic!DatabaseAfter, Atomic!Effective, Atomic!RowAfter, Atomic!Overlay,
         Atomic!Matches, Atomic!Blank, DatabaseAfter, Effective, RowAfter, Overlay,
         Matches, Blank

LEMMA SameCardinality ==
    ASSUME NEW S
    PROVE  Atomic!Cardinality(S) = Cardinality(S)
  BY DEF Atomic!Cardinality, Cardinality

LEMMA TurnEquations ==
    ASSUME NEW l, NEW d, Cardinality(Atomic!Wanted(l)) \in Nat
    PROVE  /\ Atomic!Turns(l, d)[0] = {[left |-> Atomic!Wanted(l), rows |-> d]}
           /\ \A n \in 1..Cardinality(Atomic!Wanted(l)) :
                Atomic!Turns(l, d)[n] = OneMore(l, Atomic!Turns(l, d)[n - 1])
<1> DEFINE N == Cardinality(Atomic!Wanted(l))
           t == Atomic!Turns(l, d)
<1>1. t = CHOOSE after : TurnsUpTo(l, d, N, after)
  <2>1. t = CHOOSE after : TurnsUpTo(l, d, Atomic!Cardinality(Atomic!Wanted(l)), after)
    BY DEF Atomic!Turns, TurnsUpTo, OneMore
  <2> QED
    BY <2>1, SameCardinality
<1>2. TurnsUpTo(l, d, N, t)
  BY <1>1, TurnsExist
<1>3. t = [n \in 0..N |-> IF n = 0 THEN {[left |-> Atomic!Wanted(l), rows |-> d]}
                          ELSE OneMore(l, t[n - 1])]
  BY <1>2 DEF TurnsUpTo
<1> HIDE DEF t, N
<1>4. N \in Nat
  BY DEF N
<1>5. t[0] = {[left |-> Atomic!Wanted(l), rows |-> d]}
  BY <1>3, <1>4
<1>6. ASSUME NEW n \in 1..N PROVE t[n] = OneMore(l, t[n - 1])
  <2>1. n \in 0..N /\ n # 0
    BY <1>4
  <2> QED
    BY <1>3, <2>1
<1> QED
  BY <1>5, <1>6 DEF t, N

\* An entry executed in its turn leads to a database.
LEMMA TurnsTyped ==
    ASSUME NEW log, ExecutableLog(log), NEW d \in Database
    PROVE  Atomic!Effects(log, d) \subseteq Database
<1> DEFINE W == Atomic!Wanted(log)
           N == Cardinality(W)
           t == Atomic!Turns(log, d)
           Typed(S) == \A s \in S : s.left \subseteq 1..Len(log) /\ s.rows \in Database
           T == {n \in 0..N : Typed(t[n])}
<1>1. W \subseteq 1..Len(log) /\ N \in Nat
  <2>1. DOMAIN log = 1..Len(log)
    BY DEF ExecutableLog
  <2>2. W \subseteq 1..Len(log)
    BY <2>1 DEF Atomic!Wanted
  <2>3. IsFiniteSet(1..Len(log))
    BY FS_Interval DEF ExecutableLog
  <2> HIDE DEF W
  <2>4. IsFiniteSet(W)
    BY <2>2, <2>3, FS_Subset
  <2> QED
    BY <2>2, <2>4, FS_CardinalityType
<1>2. /\ t[0] = {[left |-> W, rows |-> d]}
      /\ \A n \in 1..N : t[n] = OneMore(log, t[n - 1])
  BY <1>1, TurnEquations
<1> HIDE DEF W, N, t
<1>3. 0 \in T
  BY <1>1, <1>2
<1>4. ASSUME NEW n \in 0..(N - 1), n \in T PROVE n + 1 \in T
  <2>1. n + 1 \in 1..N /\ n + 1 \in 0..N /\ (n + 1) - 1 = n
    BY <1>1
  <2>2. t[n + 1] = OneMore(log, t[n]) /\ Typed(t[n])
    BY <1>2, <1>4, <2>1
  <2>3. ASSUME NEW s \in OneMore(log, t[n]) PROVE s.left \subseteq 1..Len(log) /\ s.rows \in Database
    <3>1. /\ s.rows # Absent
          /\ s \in UNION {{[left |-> r.left \ {i}, rows |-> Atomic!DatabaseAfter(log[i], r.rows)] :
                            i \in r.left} : r \in t[n]}
      BY DEF OneMore
    <3>2. PICK r \in t[n] :
            s \in {[left |-> r.left \ {i}, rows |-> Atomic!DatabaseAfter(log[i], r.rows)] : i \in r.left}
      BY <3>1
    <3>3. PICK i \in r.left :
            s = [left |-> r.left \ {i}, rows |-> Atomic!DatabaseAfter(log[i], r.rows)]
      BY <3>2
    <3>4. r.left \subseteq 1..Len(log) /\ r.rows \in Database
      BY <2>2
    <3>5. Executable(log[i])
      BY <3>4 DEF ExecutableLog
    <3>6. DatabaseAfter(log[i], r.rows) \in Database \cup {Absent}
      BY <3>4, <3>5, EntryTypedEffect
    <3>7. s.rows = DatabaseAfter(log[i], r.rows) /\ s.left \subseteq r.left
      BY <3>3, SameExecution
    <3> QED
      BY <3>1, <3>4, <3>6, <3>7
  <2> QED
    BY <2>1, <2>2, <2>3
<1> HIDE DEF T
<1>5. 0..N \subseteq T
  BY <1>1, <1>3, <1>4, UpTo
<1>6. N \in T
  BY <1>1, <1>5
<1>7. Atomic!Effects(log, d) = {s.rows : s \in t[N]}
  BY SameCardinality DEF Atomic!Effects, t, N, W
<1> QED
  BY <1>6, <1>7 DEF T

\* A log that replays is applied in its order; another one in some order, or not
\* at all.
LEMMA AppliedTyped ==
    ASSUME NEW log, ExecutableLog(log), NEW d \in Database
    PROVE  /\ Applied(log, d) \subseteq Database
           /\ Replay(log, d) # Absent => Applied(log, d) = {Replay(log, d)}
BY ReplayTyped, TurnsTyped DEF Applied

-----------------------------------------------------------------------------
(* The logs the procedures apply *)

LEMMA ReplayNothing == ASSUME NEW d PROVE Replay(<<>>, d) = d
<1>1. Len(<<>>) = 0
  OBVIOUS
<1> QED
  BY <1>1, StageEquations DEF Replay

\* A changeset between two versions leads there, its inverse back; it is empty
\* only if they are the same.
LEMMA CreatedLog ==
    ASSUME NEW was \in Database, NEW is \in Database, NEW log, log = CreateChangeset(was, is)
    PROVE  /\ ExecutableLog(log) /\ ExecutableLog(InvertChangeset(log))
           /\ Replay(log, was) = is /\ Replay(InvertChangeset(log), is) = was
           /\ log = <<>> => was = is
<1>1. /\ log \in Seq(Entry) /\ \A i \in 1..Len(log) : WellFormed(log[i])
      /\ Replay(log, was) = is /\ Replay(InvertChangeset(log), is) = was
  BY ChangesetReplays
<1>2. Len(log) \in Nat /\ DOMAIN log = 1..Len(log) /\ \A i \in 1..Len(log) : log[i] \in Entry
  BY <1>1
<1>3. ExecutableLog(log)
  BY <1>1, <1>2 DEF ExecutableLog, Executable, WellFormed
<1> DEFINE inv == InvertChangeset(log)
<1>4. ASSUME NEW e \in Entry, WellFormed(e) PROVE Executable(InvertEntry(e))
  BY <1>4, InverseFields DEF Executable, WellFormed, Entry, Operations
<1>5. inv = [i \in 1..Len(log) |-> InvertEntry(log[i])]
  BY <1>2 DEF InvertChangeset
<1>6. \A i \in 1..Len(log) : Executable(InvertEntry(log[i]))
  BY <1>1, <1>2, <1>4
<1> HIDE DEF inv
<1>7. inv \in Seq(Entry) /\ Len(inv) = Len(log)
  BY <1>2, <1>5, <1>6 DEF Executable
<1>8. ExecutableLog(inv)
  BY <1>2, <1>5, <1>6, <1>7 DEF ExecutableLog
<1>9. log = <<>> => was = is
  BY <1>1, ReplayNothing
<1> QED
  BY <1>1, <1>3, <1>8, <1>9 DEF inv

LEMMA NothingCreated ==
    ASSUME NEW was \in Database, NEW is \in Database, CreateChangeset(was, is) = <<>>
    PROVE  was = is
BY CreatedLog

LEMMA JoinedExecutable ==
    ASSUME NEW a, NEW b, ExecutableLog(a), ExecutableLog(b)
    PROVE  ExecutableLog(ConcatChanges(a, b))
<1> DEFINE s == a \o b
<1>1. a \in Seq(Entry) /\ b \in Seq(Entry)
  BY DEF ExecutableLog
<1>2. s \in Seq(Entry)
  BY <1>1
<1>3. /\ Len(s) = Len(a) + Len(b) /\ Len(a) \in Nat /\ Len(b) \in Nat
      /\ \A l \in 1..Len(a) : s[l] = a[l]
      /\ \A l \in 1..Len(b) : s[Len(a) + l] = b[l]
      /\ \A l \in 1..Len(s) : l \in 1..Len(a) \/ l - Len(a) \in 1..Len(b)
  BY <1>1, Joined
<1>4. s = ConcatChanges(a, b)
  BY DEF ConcatChanges
<1> HIDE DEF s
<1>5. ASSUME NEW l \in 1..Len(s) PROVE Executable(s[l])
  <2>1. CASE l \in 1..Len(a)
    BY <1>3, <2>1 DEF ExecutableLog
  <2>2. CASE l - Len(a) \in 1..Len(b)
    <3>1. Len(a) + (l - Len(a)) = l
      BY <1>3
    <3>2. s[l] = b[l - Len(a)]
      BY <1>3, <2>2, <3>1
    <3> QED
      BY <2>2, <3>2 DEF ExecutableLog
  <2> QED
    BY <1>3, <2>1, <2>2
<1> QED
  BY <1>2, <1>3, <1>4, <1>5 DEF ExecutableLog

\* What the driver writes can be executed.
LEMMA OutputExecutable == ASSUME Over PROVE ExecutableLog(output)
<1>1. /\ output \in Seq(Entry) /\ Len(output) \in Nat
      /\ IInv /\ OneEntryPerRow(ours) /\ OursMapped /\ OursScanned = Len(ours)
  BY AtTheEnd DEF TypeOK, Over
<1>2. ASSUME NEW l \in 1..Len(output) PROVE Executable(output[l])
  <2>1. PICK i \in 1..Len(ours) : output[l] = Rebased(ours[i])
    BY OutputOfOurs
  <2>2. /\ Rebased(ours[i]) \in Entry /\ Rebased(ours[i]).op = ours[i].op
        /\ ours[i].op = "insert" => Rebased(ours[i]).new = ours[i].new
    BY <1>1, RebasedFields
  <2>3. ours[i].op = "insert" => ours[i].new \in Row
    BY OursEntry DEF WellFormed
  <2> QED
    BY <2>1, <2>2, <2>3 DEF Executable
<1> QED
  BY <1>1, <1>2 DEF ExecutableLog
-----------------------------------------------------------------------------
(* The inductive invariant *)

Direct == procedure = "RebaseDirect"

\* What the changeset files hold once they are made.
ChangesetsMade ==
    /\ \/ step \in {"applyTheirs", "rebase", "applyFinal", "report"}
       \/ step = "createOurs" /\ ~Direct
       => baseTheirs = CreateChangeset(base, modifiedTheir)
    /\ \/ step \in {"undo", "applyTheirs", "rebase", "applyFinal", "report"}
       \/ step = "createTheirs" /\ Direct
       => baseOurs = CreateChangeset(base, before)

\* The steps that are left out when a changeset is empty.
SituationsKnown ==
    /\ step = "undo" => Direct
    /\ step \in {"createOurs", "rebase", "applyFinal"} /\ ~Direct => baseTheirs # <<>>
    /\ step = "applyTheirs" => baseTheirs # <<>> /\ (Direct \/ baseOurs = <<>>)
    /\ step = "rebase" /\ ~Direct => baseOurs # <<>>

\* Our changes are copied when theirs are empty.
OursCopied == theirs = <<>> => phase = "open" \/ (phase = "done" /\ output = ours)

\* Between its call and its return the driver works on the two changesets.
DriverCalled ==
    /\ step \in {"createTheirs", "createOurs", "undo", "applyTheirs"} => input = NoInput
    /\ input = NoInput => phase = "open"
    /\ input # NoInput =>
        /\ baseOurs # <<>>
        /\ input = [base |-> base, theirs |-> baseTheirs, ours |-> baseOurs]
    /\ step = "applyFinal" =>
        /\ input # NoInput /\ phase = "done"
        /\ modifiedFinal = IF Direct THEN output ELSE Combined

\* Our inserts matter where both sides have changes.
HasRoom == baseTheirs = <<>> \/ baseOurs = <<>> \/ InsertsHaveRoom

HoldsMerge == HasRoom => file = Merged

\* Where the file is, step by step, while no other program writes.
FileInPlace ==
    /\ step \in {"createOurs", "undo"} => file = before
    /\ step \in {"createTheirs", "applyTheirs"} => file = IF Direct THEN base ELSE before
    /\ step \in {"rebase", "applyFinal"} => file = IF Direct THEN modifiedTheir ELSE before
    /\ step = "report" => HoldsMerge

\* Where a call left it.
FileLeft ==
    step = "idle" =>
        /\ returned = "none" => file = before
        /\ returned = "ok" => HoldsMerge
        /\ returned = "error" => \/ file = before
                                 \/ Direct /\ (file \in {base, modifiedTheir} \/ HoldsMerge)
        /\ returned = "crash" => \/ file = before \/ HoldsMerge
                                 \/ Direct /\ file \in {base, modifiedTheir}

FileInv ==
    /\ FileTypeOK
    /\ step # "idle" => returned = "none"
    /\ ChangesetsMade /\ SituationsKnown /\ OursCopied /\ DriverCalled
    /\ foreign.since = {} => FileInPlace /\ FileLeft

Inv == FileInv /\ IInv /\ MergeInv

\* At the end of driver.Rebase its output leads from THEIRS to the merge.
LEMMA DriverDone ==
    ASSUME Inv, step \in {"rebase", "applyFinal"}, input # NoInput, phase = "done"
    PROVE  /\ ExecutableLog(output)
           /\ HasRoom => Merged \in Database /\ Replay(output, modifiedTheir) = Merged
<1>1. /\ base \in Database /\ modifiedTheir \in Database /\ before \in Database
      /\ baseTheirs = CreateChangeset(base, modifiedTheir)
      /\ baseOurs = CreateChangeset(base, before)
      /\ theirs = baseTheirs /\ ours = baseOurs /\ input.base = base /\ baseOurs # <<>>
      /\ IInv /\ MergeInv
      /\ theirs = <<>> => output = ours
  BY DEF Inv, FileInv, FileTypeOK, ChangesetsMade, DriverCalled, OursCopied, theirs, ours
<1>2. CASE baseTheirs = <<>>
  <2>1. base = modifiedTheir
    BY <1>1, <1>2, CreatedLog
  <2>2. ExecutableLog(baseOurs) /\ Replay(baseOurs, base) = before
    BY <1>1, CreatedLog
  <2>3. output = baseOurs /\ Merged = before
    BY <1>1, <1>2 DEF Merged
  <2> QED
    BY <1>1, <2>1, <2>2, <2>3
<1>3. CASE baseTheirs # <<>>
  <2>1. OneEntryPerRow(theirs) /\ OneEntryPerRow(ours)
    BY <1>1, CreatedMeetsContract
  <2>2. Over
    BY <1>1, <1>3, <2>1 DEF Over, RowsCall
  <2>3. TheirsDb = modifiedTheir
    BY <1>1, CreatedLog DEF TheirsDb
  <2>4. Merged = ThreeWayMerge
    BY <1>1, <1>3 DEF Merged
  <2> QED
    BY <1>1, <1>3, <2>2, <2>3, <2>4, OutputExecutable, OutputReplays DEF HasRoom
<1> QED
  BY <1>2, <1>3

-----------------------------------------------------------------------------
(* The driver's own invariants *)

\* Every step of the driver preserves them, and every step of anybody else.
LEMMA DriverKept ==
    ASSUME Inv, [Next]_vars
    PROVE  IInv' /\ MergeInv' /\ OursCopied'
<1>1. IInv' /\ MergeInv'
  BY NextIInv, NextMerge DEF Inv
<1>2. OursCopied'
  <2>1. input' = input
    BY DEF Next, CopyOurs, CopyTheirs, StartParse, ParseEntry, StartScan, ScanEntry, StartFinalize,
           FinalizeKey, StartPrepare, PrepareEntry, StartWrite, WriteTable, CloseOutput, vars
  <2>2. theirs' = theirs /\ ours' = ours
    BY <2>1 DEF theirs, ours
  <2>3. CASE theirs # <<>>
    BY <2>2, <2>3 DEF OursCopied
  <2>4. CASE theirs = <<>> /\ UNCHANGED vars
    BY <2>2, <2>4 DEF OursCopied, vars, Inv, FileInv, result
  <2>5. CASE theirs = <<>> /\ Next
    <3>1. phase = "open" \/ phase = "done"
      BY <2>5 DEF OursCopied, Inv, FileInv
    <3>2. CopyOurs
      BY <2>5, <3>1 DEF Next, CopyOurs, CopyTheirs, StartParse, ParseEntry, StartScan, ScanEntry,
           StartFinalize, FinalizeKey, StartPrepare, PrepareEntry, StartWrite, WriteTable, CloseOutput
    <3> QED
      BY <2>2, <3>2 DEF CopyOurs, OursCopied
  <2> QED
    BY <2>3, <2>4, <2>5
<1> QED
  BY <1>1, <1>2

LEMMA FreshNext == Fresh' /\ (input \in Input)' /\ ContractKept' => IInv' /\ MergeInv'
<1>1. Fresh /\ input \in Input /\ ContractKept => IInv /\ MergeInv
  BY FreshIInv, FreshMerge
<1> QED
  BY <1>1, PTL

\* A call of driver.Rebase establishes them.
LEMMA Entered ==
    ASSUME NEW in \in Input, MadeFrom(in.base, in.theirs), MadeFrom(in.base, in.ours), Enter(in)
    PROVE  IInv' /\ MergeInv' /\ OursCopied'
<1>1. Fresh'
  BY DEF Enter, Fresh
<1>2. input' = in
  BY DEF Enter
<1>3. ContractKept'
  BY <1>2 DEF ContractKept, theirs, ours
<1>4. (input \in Input)'
  BY <1>2
<1>5. OursCopied'
  BY <1>1 DEF Fresh, OursCopied
<1> QED
  BY <1>1, <1>3, <1>4, <1>5, FreshNext

\* Before the driver is called it holds two empty changesets.
LEMMA NothingMade ==
    ASSUME NEW d \in Database
    PROVE  LET in == [base |-> d, theirs |-> <<>>, ours |-> <<>>] IN
           in \in Input /\ MadeFrom(in.base, in.theirs) /\ MadeFrom(in.base, in.ours)
<1>1. MadeFrom(d, <<>>)
  <2>1. Replay(<<>>, d) # Absent
    BY ReplayNothing, AbsentAssumption
  <2>2. DOMAIN <<>> = {}
    OBVIOUS
  <2> QED
    BY <2>1, <2>2 DEF MadeFrom
<1>2. [base |-> d, theirs |-> <<>>, ours |-> <<>>] \in Input
  BY DEF Input
<1> QED
  BY <1>1, <1>2

\* The merge is what it was as long as the driver and the changesets are.
LEMMA SameMerge ==
    ASSUME UNCHANGED <<driver, baseTheirs, baseOurs, before, modifiedTheir>>
    PROVE  /\ HasRoom' = HasRoom
           /\ Merged' = Merged
<1>1. UNCHANGED <<input, mapIds, changes>>
  BY DEF driver, vars, mapping, result
<1>2. /\ TheirsDb' = TheirsDb /\ OursDb' = OursDb
      /\ \A t : InsertsIn(t)' = InsertsIn(t)
      /\ \A t, k : KeyInMerge(t, k)' = KeyInMerge(t, k)
  BY <1>1 DEF TheirsDb, OursDb, theirs, ours, InsertsIn, KeyInMerge
<1>3. \A t : OurInserts(t)' = OurInserts(t)
  BY <1>1, <1>2 DEF OurInserts
<1>4. InsertsHaveRoom' = InsertsHaveRoom
  BY <1>1, <1>2 DEF InsertsHaveRoom
<1>5. ThreeWayMerge' = ThreeWayMerge
  BY <1>1, <1>2, <1>3 DEF ThreeWayMerge
<1>6. Merged' = Merged
  BY <1>5 DEF Merged
<1> QED
  BY <1>4, <1>6 DEF HasRoom

-----------------------------------------------------------------------------
(* Every action preserves the invariant *)

\* Steps of the procedures leave the driver alone.
LEMMA DriverLeft ==
    ASSUME Inv, UNCHANGED driver
    PROVE  IInv' /\ MergeInv' /\ OursCopied' /\ UNCHANGED <<input, phase, output, conflicts>>
<1>1. UNCHANGED vars
  BY DEF driver
<1> QED
  BY <1>1, DriverKept DEF vars, result

LEMMA CallStep == ASSUME Inv, CallRebase PROVE Inv'
<1>1. FileTypeOK /\ step = "idle" /\ calls < MaxCalls /\ Enter(NoInput)
  BY DEF Inv, FileInv, CallRebase
<1>2. IInv' /\ MergeInv' /\ OursCopied'
  <2>1. base \in Database
    BY <1>1 DEF FileTypeOK
  <2> QED
    BY <1>1, <2>1, NothingMade, Entered DEF NoInput
<1>3. /\ input' = NoInput /\ NoInput' = NoInput /\ phase' = "open"
  BY <1>1 DEF Enter, CallRebase, NoInput, files
<1>4. /\ procedure \in Procedures /\ procedure' = procedure
      /\ step' = IF procedure = "Rebase" THEN "createTheirs" ELSE "createOurs"
      /\ returned' = "none" /\ file' = file /\ before' = file
  BY <1>1 DEF CallRebase, files, FileTypeOK
<1>5. FileTypeOK'
  BY <1>1, BoundsAssumption DEF FileTypeOK, CallRebase, Steps, files
<1>6. ChangesetsMade' /\ SituationsKnown' /\ DriverCalled'
  BY <1>3, <1>4 DEF ChangesetsMade, SituationsKnown, DriverCalled, Direct, Procedures
<1>7. FileInPlace' /\ FileLeft'
  BY <1>4 DEF FileInPlace, FileLeft, Direct, Procedures
<1> QED
  BY <1>2, <1>4, <1>5, <1>6, <1>7 DEF Inv, FileInv

LEMMA CreateTheirsStep == ASSUME Inv, CreateTheirs PROVE Inv'
<1>1. /\ FileTypeOK /\ step = "createTheirs" /\ returned = "none"
      /\ ChangesetsMade /\ SituationsKnown /\ DriverCalled
      /\ foreign.since = {} => FileInPlace
      /\ UNCHANGED driver
  BY DEF Inv, FileInv, CreateTheirs
<1>2. /\ IInv' /\ MergeInv' /\ OursCopied' /\ UNCHANGED <<input, phase, output>>
  BY <1>1, DriverLeft
<1>3. /\ base \in Database /\ modifiedTheir \in Database /\ before \in Database
      /\ baseTheirs' = CreateChangeset(base, modifiedTheir)
      /\ UNCHANGED <<procedure, base, modifiedTheir, file, baseOurs, modifiedFinal, calls,
                     before, foreign, merged, again>>
      /\ procedure \in Procedures
  BY <1>1 DEF CreateTheirs, files, ghost, FileTypeOK
<1>4. /\ ExecutableLog(baseTheirs') /\ (baseTheirs' = <<>> => base = modifiedTheir)
  BY <1>3, CreatedLog
<1>5. \/ procedure = "Rebase" /\ baseTheirs' = <<>> /\ step' = "idle" /\ returned' = "ok"
      \/ procedure = "Rebase" /\ baseTheirs' # <<>> /\ step' = "createOurs" /\ returned' = "none"
      \/ /\ procedure = "RebaseDirect" /\ returned' = "none"
         /\ step' = IF baseTheirs' = <<>> THEN "rebase" ELSE "applyTheirs"
  BY <1>1 DEF CreateTheirs, Return, Continue
<1>6. FileTypeOK'
  BY <1>1, <1>3, <1>4, <1>5 DEF FileTypeOK, Steps, ExecutableLog
<1>7. NoInput' = NoInput /\ Direct' = Direct /\ input = NoInput
  BY <1>1, <1>3 DEF NoInput, Direct, DriverCalled
<1>8. ChangesetsMade'
  BY <1>1, <1>3, <1>5, <1>7 DEF ChangesetsMade, Direct
<1>9. SituationsKnown' /\ DriverCalled'
  BY <1>1, <1>2, <1>5, <1>7 DEF SituationsKnown, DriverCalled, Direct
<1>10. ASSUME foreign.since = {} PROVE FileInPlace' /\ FileLeft'
  <2>1. file = IF Direct THEN base ELSE before
    BY <1>1, <1>10 DEF FileInPlace
  <2>2. FileInPlace'
    BY <1>3, <1>4, <1>5, <1>7, <2>1 DEF FileInPlace, Direct
  <2>3. baseTheirs' = <<>> => Merged' = before
    BY <1>3 DEF Merged
  <2>4. FileLeft'
    BY <1>3, <1>5, <2>1, <2>3 DEF FileLeft, HoldsMerge, Direct
  <2> QED
    BY <2>2, <2>4
<1> QED
  BY <1>2, <1>3, <1>5, <1>6, <1>8, <1>9, <1>10 DEF Inv, FileInv

LEMMA CreateOursStep == ASSUME Inv, CreateOurs PROVE Inv'
<1>1. /\ FileTypeOK /\ step = "createOurs" /\ returned = "none"
      /\ ChangesetsMade /\ SituationsKnown /\ DriverCalled
      /\ UNCHANGED driver
  BY DEF Inv, FileInv, CreateOurs
<1>2. /\ IInv' /\ MergeInv' /\ OursCopied' /\ UNCHANGED <<input, phase, output>>
  BY <1>1, DriverLeft
<1>3. /\ base \in Database /\ modifiedTheir \in Database /\ file \in Database
      /\ baseOurs' = CreateChangeset(base, file)
      /\ before' = file /\ foreign' = [foreign EXCEPT !.since = {}]
      /\ UNCHANGED <<procedure, base, modifiedTheir, file, baseTheirs, modifiedFinal, calls,
                     merged, again>>
      /\ procedure \in Procedures
  BY <1>1 DEF CreateOurs, files, FileTypeOK
<1>4. /\ ExecutableLog(baseOurs') /\ (baseOurs' = <<>> => base = file)
  BY <1>3, CreatedLog
<1>5. /\ returned' = "none"
      /\ \/ /\ procedure = "Rebase"
            /\ step' = IF baseOurs' = <<>> THEN "applyTheirs" ELSE "rebase"
         \/ /\ procedure = "RebaseDirect"
            /\ step' = IF baseOurs' = <<>> THEN "createTheirs" ELSE "undo"
  BY <1>1 DEF CreateOurs, Continue
<1>6. FileTypeOK'
  BY <1>1, <1>3, <1>4, <1>5 DEF FileTypeOK, Steps, ExecutableLog
<1>7. NoInput' = NoInput /\ Direct' = Direct /\ input = NoInput
  BY <1>1, <1>3 DEF NoInput, Direct, DriverCalled
<1>8. ChangesetsMade'
  BY <1>1, <1>3, <1>5, <1>7 DEF ChangesetsMade, Direct
<1>9. SituationsKnown' /\ DriverCalled'
  BY <1>1, <1>2, <1>3, <1>5, <1>7 DEF SituationsKnown, DriverCalled, Direct
<1>10. FileInPlace' /\ FileLeft'
  BY <1>3, <1>4, <1>5, <1>7 DEF FileInPlace, FileLeft, Direct
<1> QED
  BY <1>2, <1>5, <1>6, <1>8, <1>9, <1>10 DEF Inv, FileInv

LEMMA EnterDriverStep == ASSUME Inv, EnterDriver PROVE Inv'
<1>1. /\ FileTypeOK /\ step = "rebase" /\ returned = "none" /\ input = NoInput
      /\ ChangesetsMade /\ SituationsKnown /\ DriverCalled
      /\ foreign.since = {} => FileInPlace
  BY DEF Inv, FileInv, EnterDriver
<1>2. /\ base \in Database /\ modifiedTheir \in Database /\ before \in Database
      /\ UNCHANGED <<procedure, base, modifiedTheir, file, baseOurs, baseTheirs, modifiedFinal, calls,
                     before, foreign, merged, again>>
      /\ procedure \in Procedures
      /\ baseTheirs = CreateChangeset(base, modifiedTheir)
      /\ baseOurs = CreateChangeset(base, before)
  BY <1>1 DEF EnterDriver, files, temporary, ghost, FileTypeOK, ChangesetsMade
<1>3. NoInput' = NoInput /\ Direct' = Direct
  BY <1>2 DEF NoInput, Direct
<1>4. CASE baseOurs = <<>>
  <2>1. step' = "idle" /\ returned' = "ok" /\ UNCHANGED driver
    BY <1>4 DEF EnterDriver, Return
  <2>2. /\ IInv' /\ MergeInv' /\ OursCopied' /\ UNCHANGED <<input, phase, output>>
    BY <2>1, DriverLeft
  <2>3. FileTypeOK'
    BY <1>1, <1>2, <2>1 DEF FileTypeOK, Steps
  <2>4. ChangesetsMade' /\ SituationsKnown' /\ DriverCalled'
    BY <1>1, <1>2, <1>3, <2>1, <2>2 DEF ChangesetsMade, SituationsKnown, DriverCalled
  <2>5. ASSUME foreign.since = {} PROVE FileInPlace' /\ FileLeft'
    <3>1. Direct /\ file = modifiedTheir
      BY <1>1, <1>4, <2>5 DEF SituationsKnown, FileInPlace
    <3>2. base = before
      <4>1. base \in Database /\ before \in Database /\ baseOurs = CreateChangeset(base, before)
        BY <1>2
      <4> QED
        BY <1>4, <4>1, CreatedLog
    <3>4. baseTheirs = <<>> => base = modifiedTheir
      BY <1>2, CreatedLog
    <3>3. Merged' = IF baseTheirs = <<>> THEN before ELSE modifiedTheir
      BY <1>2, <1>4 DEF Merged
    <3> QED
      BY <1>2, <2>1, <3>1, <3>2, <3>3, <3>4 DEF FileInPlace, FileLeft, HoldsMerge
  <2> QED
    BY <1>2, <2>1, <2>2, <2>3, <2>4, <2>5 DEF Inv, FileInv
<1>5. CASE baseOurs # <<>>
  <2> DEFINE in == [base |-> base, theirs |-> baseTheirs, ours |-> baseOurs]
  <2>1. Enter(in) /\ UNCHANGED <<step, returned>>
    BY <1>5 DEF EnterDriver
  <2>2. /\ baseTheirs \in Seq(InputEntry) /\ baseOurs \in Seq(InputEntry)
        /\ MadeFrom(base, baseTheirs) /\ MadeFrom(base, baseOurs)
    BY <1>2, CreatedMeetsContract
  <2>3. /\ in \in Input /\ in.base = base /\ in.theirs = baseTheirs /\ in.ours = baseOurs
    BY <1>2, <2>2 DEF Input
  <2>4. in # NoInput
    BY <1>5 DEF NoInput
  <2> HIDE DEF in
  <2>5. IInv' /\ MergeInv' /\ OursCopied'
    BY <2>1, <2>2, <2>3, Entered
  <2>6. input' = in
    BY <2>1 DEF Enter
  <2>7. DriverCalled'
    BY <1>1, <1>2, <1>3, <1>5, <2>1, <2>4, <2>6 DEF DriverCalled, in
  <2>8. FileTypeOK' /\ ChangesetsMade' /\ SituationsKnown'
    BY <1>1, <1>2, <1>3, <2>1 DEF FileTypeOK, ChangesetsMade, SituationsKnown
  <2>9. foreign.since = {} => FileInPlace' /\ FileLeft'
    BY <1>1, <1>2, <1>3, <2>1 DEF FileInPlace, FileLeft
  <2> QED
    BY <1>1, <1>2, <2>1, <2>5, <2>7, <2>8, <2>9 DEF Inv, FileInv
<1> QED
  BY <1>4, <1>5

LEMMA DriverStepStep == ASSUME Inv, DriverStep PROVE Inv'
<1>1. /\ FileTypeOK /\ step = "rebase" /\ returned = "none" /\ input # NoInput
      /\ ChangesetsMade /\ SituationsKnown /\ DriverCalled
      /\ foreign.since = {} => FileInPlace
      /\ Next
      /\ UNCHANGED <<procedure, step, base, modifiedTheir, file, baseOurs, baseTheirs, modifiedFinal,
                     returned, calls, before, foreign, merged, again>>
  BY DEF Inv, FileInv, DriverStep, files, temporary, ghost
<1>2. IInv' /\ MergeInv' /\ OursCopied'
  BY <1>1, DriverKept
<1>3. input' = input
  BY <1>1 DEF Next, CopyOurs, CopyTheirs, StartParse, ParseEntry, StartScan, ScanEntry, StartFinalize,
              FinalizeKey, StartPrepare, PrepareEntry, StartWrite, WriteTable, CloseOutput
<1>4. NoInput' = NoInput /\ Direct' = Direct
  BY <1>1 DEF NoInput, Direct
<1>5. FileTypeOK' /\ ChangesetsMade' /\ SituationsKnown'
  BY <1>1, <1>4 DEF FileTypeOK, ChangesetsMade, SituationsKnown
<1>6. DriverCalled'
  BY <1>1, <1>3, <1>4 DEF DriverCalled
<1>7. foreign.since = {} => FileInPlace' /\ FileLeft'
  BY <1>1, <1>4 DEF FileInPlace, FileLeft
<1> QED
  BY <1>1, <1>2, <1>5, <1>6, <1>7 DEF Inv, FileInv

LEMMA LeaveDriverStep == ASSUME Inv, LeaveDriver PROVE Inv'
<1>1. /\ FileTypeOK /\ step = "rebase" /\ returned = "none" /\ phase = "done" /\ input # NoInput
      /\ ChangesetsMade /\ SituationsKnown /\ DriverCalled
      /\ foreign.since = {} => FileInPlace
      /\ UNCHANGED driver
      /\ UNCHANGED <<procedure, base, modifiedTheir, file, baseOurs, baseTheirs, calls,
                     before, foreign, merged, again>>
      /\ procedure \in Procedures
  BY DEF Inv, FileInv, LeaveDriver, DriverCalled, files, ghost, FileTypeOK
<1>2. /\ IInv' /\ MergeInv' /\ OursCopied' /\ UNCHANGED <<input, phase, output>>
  BY <1>1, DriverLeft
<1>3. \/ /\ procedure = "Rebase" /\ modifiedFinal' = Combined
         /\ step' = "applyFinal" /\ returned' = "none"
      \/ /\ procedure = "RebaseDirect" /\ modifiedFinal' = output
         /\ step' = IF output = <<>> THEN "report" ELSE "applyFinal"
         /\ returned' = "none"
  BY <1>1 DEF LeaveDriver, Continue
<1>4. /\ ExecutableLog(output)
      /\ HasRoom => Merged \in Database /\ Replay(output, modifiedTheir) = Merged
  BY <1>1, DriverDone
<1>5. ExecutableLog(Combined)
  <2>1. ExecutableLog(InvertChangeset(baseOurs))
    BY <1>1, CreatedLog DEF ChangesetsMade, FileTypeOK
  <2>2. ExecutableLog(baseTheirs)
    BY <1>1, CreatedLog DEF ChangesetsMade, FileTypeOK
  <2> QED
    BY <1>4, <2>1, <2>2, JoinedExecutable DEF Combined
<1>6. modifiedFinal' \in Seq(Entry)
  BY <1>3, <1>4, <1>5 DEF ExecutableLog
<1>7. NoInput' = NoInput /\ Direct' = Direct /\ Combined' = Combined
  BY <1>1, <1>2 DEF NoInput, Direct, Combined
<1>8. FileTypeOK'
  BY <1>1, <1>3, <1>6 DEF FileTypeOK, Steps
<1>9. ChangesetsMade' /\ SituationsKnown'
  BY <1>1, <1>3, <1>7 DEF ChangesetsMade, SituationsKnown, Direct
<1>10. DriverCalled'
  BY <1>1, <1>2, <1>3, <1>7 DEF DriverCalled, Direct
<1>11. ASSUME foreign.since = {} PROVE FileInPlace' /\ FileLeft'
  <2>1. file = IF Direct THEN modifiedTheir ELSE before
    BY <1>1, <1>11 DEF FileInPlace
  <2>2. Direct /\ output = <<>> => HoldsMerge'
    <3>1. output = <<>> /\ HasRoom => Merged = modifiedTheir
      BY <1>4, ReplayNothing
    <3> QED
      BY <1>1, <2>1, <3>1, SameMerge DEF HoldsMerge
  <2> QED
    BY <1>1, <1>3, <1>7, <2>1, <2>2 DEF FileInPlace, FileLeft, Direct
<1> QED
  BY <1>1, <1>2, <1>3, <1>8, <1>9, <1>10, <1>11 DEF Inv, FileInv

LEMMA UndoStep == ASSUME Inv, Undo PROVE Inv'
<1>1. /\ FileTypeOK /\ step = "undo" /\ returned = "none"
      /\ ChangesetsMade /\ SituationsKnown /\ DriverCalled
      /\ foreign.since = {} => FileInPlace
      /\ UNCHANGED driver
      /\ UNCHANGED <<procedure, base, modifiedTheir, baseOurs, baseTheirs, modifiedFinal, calls,
                     before, foreign, again, returned>>
      /\ step' = "createTheirs"
      /\ file' \in Applied(InvertChangeset(baseOurs), file)
      /\ merged' \in BOOLEAN
  BY DEF Inv, FileInv, Undo, Apply, Continue, temporary
<1>2. /\ IInv' /\ MergeInv' /\ OursCopied' /\ UNCHANGED <<input, phase, output>>
  BY <1>1, DriverLeft
<1>3. /\ base \in Database /\ before \in Database /\ file \in Database /\ Direct
      /\ baseOurs = CreateChangeset(base, before)
  BY <1>1 DEF FileTypeOK, ChangesetsMade, SituationsKnown
<1>4. /\ ExecutableLog(InvertChangeset(baseOurs))
      /\ Replay(InvertChangeset(baseOurs), before) = base
  BY <1>3, CreatedLog
<1>5. /\ file' \in Database
      /\ Replay(InvertChangeset(baseOurs), file) # Absent =>
            file' = Replay(InvertChangeset(baseOurs), file)
  BY <1>1, <1>3, <1>4, AppliedTyped
<1>6. NoInput' = NoInput /\ Direct' = Direct
  BY <1>1 DEF NoInput, Direct
<1>7. FileTypeOK'
  BY <1>1, <1>5 DEF FileTypeOK, Steps
<1>8. ChangesetsMade' /\ SituationsKnown' /\ DriverCalled'
  BY <1>1, <1>2, <1>3, <1>6 DEF ChangesetsMade, SituationsKnown, DriverCalled
<1>9. ASSUME foreign.since = {} PROVE FileInPlace' /\ FileLeft'
  <2>1. file = before
    BY <1>1, <1>9 DEF FileInPlace
  <2>2. file' = base
    BY <1>3, <1>4, <1>5, <2>1, AbsentAssumption
  <2> QED
    BY <1>1, <1>3, <1>6, <2>2 DEF FileInPlace, FileLeft
<1> QED
  BY <1>1, <1>2, <1>7, <1>8, <1>9 DEF Inv, FileInv

LEMMA ApplyTheirsStep == ASSUME Inv, ApplyTheirs PROVE Inv'
<1>1. /\ FileTypeOK /\ step = "applyTheirs" /\ returned = "none"
      /\ ChangesetsMade /\ SituationsKnown /\ DriverCalled
      /\ foreign.since = {} => FileInPlace
      /\ UNCHANGED driver
      /\ UNCHANGED <<procedure, base, modifiedTheir, baseOurs, baseTheirs, modifiedFinal, calls,
                     before, foreign, again, returned>>
      /\ step' = IF procedure = "Rebase" THEN "report" ELSE "rebase"
      /\ file' \in Applied(baseTheirs, file)
      /\ merged' \in BOOLEAN
      /\ procedure \in Procedures
  BY DEF Inv, FileInv, ApplyTheirs, Apply, Continue, temporary, FileTypeOK
<1>2. /\ IInv' /\ MergeInv' /\ OursCopied' /\ UNCHANGED <<input, phase, output>>
  BY <1>1, DriverLeft
<1>3. /\ base \in Database /\ modifiedTheir \in Database /\ before \in Database /\ file \in Database
      /\ baseTheirs = CreateChangeset(base, modifiedTheir)
      /\ baseOurs = CreateChangeset(base, before)
      /\ baseTheirs # <<>> /\ (Direct \/ baseOurs = <<>>)
  BY <1>1 DEF FileTypeOK, ChangesetsMade, SituationsKnown
<1>4. ExecutableLog(baseTheirs) /\ Replay(baseTheirs, base) = modifiedTheir
  BY <1>3, CreatedLog
<1>5. Direct \/ before = base
  BY <1>3, CreatedLog
<1>6. /\ file' \in Database
      /\ Replay(baseTheirs, file) # Absent => file' = Replay(baseTheirs, file)
  BY <1>1, <1>3, <1>4, AppliedTyped
<1>7. NoInput' = NoInput /\ Direct' = Direct /\ (~Direct => procedure = "Rebase")
  BY <1>1 DEF NoInput, Direct, Procedures
<1>8. FileTypeOK'
  BY <1>1, <1>6 DEF FileTypeOK, Steps
<1>9. ChangesetsMade' /\ SituationsKnown' /\ DriverCalled'
  <2>1. step' \in {"report", "rebase"} /\ (step' = "rebase" => Direct)
    BY <1>1, <1>7 DEF Direct
  <2>2. ChangesetsMade'
    BY <1>1, <1>3, <2>1 DEF ChangesetsMade
  <2>3. SituationsKnown'
    BY <1>7, <2>1 DEF SituationsKnown
  <2>4. DriverCalled'
    BY <1>1, <1>2, <1>7, <2>1 DEF DriverCalled
  <2> QED
    BY <2>2, <2>3, <2>4
<1>10. ASSUME foreign.since = {} PROVE FileInPlace' /\ FileLeft'
  <2>1. file = IF Direct THEN base ELSE before
    BY <1>1, <1>10 DEF FileInPlace
  <2>2. file' = modifiedTheir
    BY <1>3, <1>4, <1>5, <1>6, <2>1, AbsentAssumption
  <2>3. ~Direct => Merged' = modifiedTheir
    BY <1>1, <1>3 DEF Merged
  <2> QED
    BY <1>1, <1>7, <2>2, <2>3 DEF FileInPlace, FileLeft, HoldsMerge, Direct
<1> QED
  BY <1>1, <1>2, <1>8, <1>9, <1>10 DEF Inv, FileInv

LEMMA ApplyFinalStep == ASSUME Inv, ApplyFinal PROVE Inv'
<1>1. /\ FileTypeOK /\ step = "applyFinal" /\ returned = "none"
      /\ ChangesetsMade /\ SituationsKnown /\ DriverCalled
      /\ foreign.since = {} => FileInPlace
      /\ UNCHANGED driver
      /\ UNCHANGED <<procedure, base, modifiedTheir, baseOurs, baseTheirs, modifiedFinal, calls,
                     before, foreign, again, returned>>
      /\ step' = "report"
      /\ file' \in Applied(modifiedFinal, file)
      /\ merged' \in BOOLEAN
  BY DEF Inv, FileInv, ApplyFinal, Apply, Continue, temporary
<1>2. /\ IInv' /\ MergeInv' /\ OursCopied' /\ UNCHANGED <<input, phase, output>>
  BY <1>1, DriverLeft
<1>3. /\ base \in Database /\ modifiedTheir \in Database /\ before \in Database /\ file \in Database
      /\ baseTheirs = CreateChangeset(base, modifiedTheir)
      /\ baseOurs = CreateChangeset(base, before)
      /\ input # NoInput /\ phase = "done"
      /\ modifiedFinal = IF Direct THEN output ELSE Combined
  BY <1>1 DEF FileTypeOK, ChangesetsMade, DriverCalled
<1>4. /\ ExecutableLog(output)
      /\ HasRoom => Merged \in Database /\ Replay(output, modifiedTheir) = Merged
  BY <1>1, <1>3, DriverDone
<1> DEFINE undone == InvertChangeset(baseOurs)
<1>5. ExecutableLog(undone) /\ Replay(undone, before) = base
  BY <1>3, CreatedLog
<1>6. ExecutableLog(baseTheirs) /\ Replay(baseTheirs, base) = modifiedTheir
  BY <1>3, CreatedLog
<1>7. /\ Combined = ConcatChanges(ConcatChanges(undone, baseTheirs), output)
  BY DEF Combined
<1> HIDE DEF undone
<1>8. ExecutableLog(ConcatChanges(undone, baseTheirs)) /\ ExecutableLog(Combined)
  BY <1>4, <1>5, <1>6, <1>7, JoinedExecutable
<1>9. Replay(Combined, before) = Replay(output, modifiedTheir)
  <2>1. Replay(ConcatChanges(undone, baseTheirs), before) = modifiedTheir
    BY <1>5, <1>6, ReplayOfConcatenation DEF ExecutableLog
  <2>2. Replay(Combined, before) = Replay(output, Replay(ConcatChanges(undone, baseTheirs), before))
    BY <1>4, <1>7, <1>8, ReplayOfConcatenation DEF ExecutableLog
  <2> QED
    BY <2>1, <2>2
<1>10. ExecutableLog(modifiedFinal)
  BY <1>3, <1>4, <1>8
<1>11. /\ file' \in Database
       /\ Replay(modifiedFinal, file) # Absent => file' = Replay(modifiedFinal, file)
  BY <1>1, <1>3, <1>10, AppliedTyped
<1>12. NoInput' = NoInput /\ Direct' = Direct
  BY <1>1 DEF NoInput, Direct
<1>13. FileTypeOK'
  BY <1>1, <1>11 DEF FileTypeOK, Steps
<1>14. ChangesetsMade' /\ SituationsKnown' /\ DriverCalled'
  BY <1>1, <1>2, <1>3, <1>12 DEF ChangesetsMade, SituationsKnown, DriverCalled
<1>15. ASSUME foreign.since = {} PROVE FileInPlace' /\ FileLeft'
  <2>1. file = IF Direct THEN modifiedTheir ELSE before
    BY <1>1, <1>15 DEF FileInPlace
  <2>2. Replay(modifiedFinal, file) = Replay(output, modifiedTheir)
    BY <1>3, <1>9, <2>1
  <2>3. HasRoom => file' = Merged
    BY <1>4, <1>11, <2>2, AbsentAssumption
  <2>4. HoldsMerge'
    BY <1>1, <2>3, SameMerge DEF HoldsMerge
  <2> QED
    BY <1>1, <2>4 DEF FileInPlace, FileLeft
<1> QED
  BY <1>1, <1>2, <1>13, <1>14, <1>15 DEF Inv, FileInv

\* A call returns, fails or dies: the file stays where the step had it.
LEMMA ReturnStep == ASSUME Inv, Report \/ Fail \/ Crash PROVE Inv'
<1>1. /\ FileTypeOK /\ step # "idle"
      /\ ChangesetsMade /\ SituationsKnown /\ DriverCalled
      /\ foreign.since = {} => FileInPlace
      /\ UNCHANGED driver
      /\ UNCHANGED <<procedure, base, modifiedTheir, file, baseOurs, baseTheirs, modifiedFinal, calls,
                     before, foreign, merged, again>>
      /\ step' = "idle"
      /\ \/ step = "report" /\ returned' = "ok"
         \/ step = "report" /\ Direct /\ returned' = "error"
         \/ step # "report" /\ returned' = "error"
         \/ returned' = "crash"
  BY DEF Inv, FileInv, Report, Fail, Crash, Return, files, temporary, ghost, Direct
<1>2. /\ IInv' /\ MergeInv' /\ OursCopied' /\ UNCHANGED <<input, phase, output>>
  BY <1>1, DriverLeft
<1>3. NoInput' = NoInput /\ Direct' = Direct
  BY <1>1 DEF NoInput, Direct
<1>4. FileTypeOK'
  BY <1>1 DEF FileTypeOK, Steps
<1>5. ChangesetsMade' /\ SituationsKnown' /\ DriverCalled'
  BY <1>1, <1>2, <1>3 DEF ChangesetsMade, SituationsKnown, DriverCalled
<1>6. HoldsMerge' = HoldsMerge
  BY <1>1, SameMerge DEF HoldsMerge
<1>7. ASSUME foreign.since = {} PROVE FileInPlace' /\ FileLeft'
  <2>1. \/ step = "report" /\ HoldsMerge
        \/ step # "report" /\ (file = before \/ (Direct /\ file \in {base, modifiedTheir}))
    BY <1>1, <1>7 DEF FileInPlace, FileTypeOK, Steps
  <2> QED
    BY <1>1, <1>3, <1>6, <2>1 DEF FileInPlace, FileLeft
<1> QED
  BY <1>1, <1>2, <1>4, <1>5, <1>7 DEF Inv, FileInv

\* Another program may put the file anywhere; nothing is claimed of it then.
LEMMA OtherEditStep == ASSUME Inv, OtherEdit PROVE Inv'
<1>1. /\ FileTypeOK /\ (step # "idle" => returned = "none")
      /\ ChangesetsMade /\ SituationsKnown /\ DriverCalled
      /\ UNCHANGED driver
      /\ UNCHANGED <<procedure, step, base, modifiedTheir, baseOurs, baseTheirs, modifiedFinal, calls,
                     before, returned>>
      /\ merged' = FALSE /\ again' = FALSE
      /\ foreign.made < MaxForeign
  BY DEF Inv, FileInv, OtherEdit, temporary
<1>2. /\ IInv' /\ MergeInv' /\ OursCopied' /\ UNCHANGED <<input, phase, output>>
  BY <1>1, DriverLeft
<1>3. PICK f \in Foreign :
        /\ file' = [file EXCEPT ![f[1]][f[2]] = f[3]]
        /\ foreign' = [made |-> foreign.made + 1,
                       since |-> foreign.since \cup
                           {[table |-> f[1], pk |-> f[2], was |-> file[f[1]][f[2]], is |-> f[3]]}]
  BY DEF OtherEdit
<1>4. f[1] \in Tables /\ f[2] \in Keys /\ f[3] \in Row \cup {Absent}
  BY ForeignAssumption
<1>5. file \in Database /\ file[f[1]][f[2]] \in Row \cup {Absent}
  BY <1>1, <1>4 DEF FileTypeOK, Database
<1>6. file' \in Database
  BY <1>3, <1>4, <1>5 DEF Database
<1>7. foreign' \in [made : 0..MaxForeign,
                    since : SUBSET [table : Tables, pk : Keys,
                                    was : Row \cup {Absent}, is : Row \cup {Absent}]]
  BY <1>1, <1>3, <1>4, <1>5, BoundsAssumption DEF FileTypeOK
<1>8. foreign'.since # {}
  BY <1>3
<1>9. NoInput' = NoInput /\ Direct' = Direct /\ Combined' = Combined
  BY <1>1, <1>2 DEF NoInput, Direct, Combined
<1>10. FileTypeOK'
  BY <1>1, <1>6, <1>7 DEF FileTypeOK
<1>11. ChangesetsMade' /\ SituationsKnown' /\ DriverCalled'
  BY <1>1, <1>2, <1>9 DEF ChangesetsMade, SituationsKnown, DriverCalled
<1> QED
  BY <1>1, <1>2, <1>8, <1>10, <1>11 DEF Inv, FileInv

LEMMA StutterStep == ASSUME Inv, UNCHANGED fileVars PROVE Inv'
<1>1. /\ UNCHANGED driver
      /\ UNCHANGED <<procedure, step, base, modifiedTheir, file, baseOurs, baseTheirs, modifiedFinal,
                     calls, before, returned, foreign, merged, again>>
  BY DEF fileVars, files, temporary, ghost
<1>2. /\ IInv' /\ MergeInv' /\ OursCopied' /\ UNCHANGED <<input, phase, output>>
  BY <1>1, DriverLeft
<1>3. NoInput' = NoInput /\ Direct' = Direct /\ Combined' = Combined
  BY <1>1, <1>2 DEF NoInput, Direct, Combined
<1>4. HoldsMerge' = HoldsMerge
  BY <1>1, SameMerge DEF HoldsMerge
<1>5. FileTypeOK' /\ (step' # "idle" => returned' = "none")
  BY <1>1 DEF Inv, FileInv, FileTypeOK
<1>6. ChangesetsMade' /\ SituationsKnown' /\ DriverCalled'
  BY <1>1, <1>2, <1>3 DEF Inv, FileInv, ChangesetsMade, SituationsKnown, DriverCalled
<1>7. foreign.since = {} => FileInPlace' /\ FileLeft'
  BY <1>1, <1>3, <1>4 DEF Inv, FileInv, FileInPlace, FileLeft
<1> QED
  BY <1>1, <1>2, <1>5, <1>6, <1>7 DEF Inv, FileInv

LEMMA FileInitInv == FileInit => Inv
<1> SUFFICES ASSUME FileInit PROVE Inv
  OBVIOUS
<1>1. /\ base \in Database /\ modifiedTheir \in Database /\ file \in Database
      /\ Fresh /\ input = NoInput /\ phase = "open"
      /\ procedure \in Procedures /\ step = "idle" /\ returned = "none" /\ calls = 0
      /\ baseOurs = <<>> /\ baseTheirs = <<>> /\ modifiedFinal = <<>>
      /\ before = file /\ foreign = NoForeign /\ merged = FALSE /\ again = FALSE
  BY VersionsAssumption DEF FileInit, Fresh
<1>2. IInv /\ MergeInv
  <2>1. input \in Input /\ ContractKept
    BY <1>1, NothingMade DEF NoInput, ContractKept, theirs, ours
  <2> QED
    BY <1>1, <2>1, FreshIInv, FreshMerge
<1>3. FileTypeOK
  <2>1. /\ <<>> \in Seq(Entry)
        /\ 0 \in 0..MaxForeign /\ 0 \in 0..MaxCalls
    BY BoundsAssumption
  <2>2. foreign \in [made : 0..MaxForeign,
                     since : SUBSET [table : Tables, pk : Keys,
                                     was : Row \cup {Absent}, is : Row \cup {Absent}]]
    BY <1>1, <2>1 DEF NoForeign
  <2> QED
    BY <1>1, <2>1, <2>2 DEF FileTypeOK, Steps
<1>4. ChangesetsMade /\ SituationsKnown /\ OursCopied /\ DriverCalled
  BY <1>1 DEF ChangesetsMade, SituationsKnown, OursCopied, DriverCalled
<1>5. FileInPlace /\ FileLeft
  BY <1>1 DEF FileInPlace, FileLeft
<1> QED
  BY <1>1, <1>2, <1>3, <1>4, <1>5 DEF Inv, FileInv

-----------------------------------------------------------------------------
(* A call that repeats one which had committed *)

\* Theirs inserted nothing: BASE b has all the rows THEIRS th has.
NothingNew(b, th) ==
    \A t \in Tables, k \in Keys : b[t][k] = Absent => th[t][k] = Absent

\* Merging THEIRS with database d once more changes none of the rows BASE has.
Settled(b, th, d) ==
    \A t \in Tables, k \in Keys :
        b[t][k] # Absent => MergedRow(b[t][k], th[t][k], d[t][k]) = d[t][k]

\* The merge is in the file, and the call returned or about to.
Answered == step = "report" \/ (step = "idle" /\ returned = "ok")

InsertsNothing(log) == \A i \in DOMAIN log : log[i].op # "insert"

\* What a call that committed leaves is settled, so a call that finds it there
\* arrives where it started.
RepeatInv ==
    /\ again => foreign.since = {}
    /\ NothingNew(base, modifiedTheir) =>
        /\ merged => Settled(base, modifiedTheir, file)
        /\ again => Settled(base, modifiedTheir, before)
    /\ again /\ Answered /\ InsertsNothing(baseTheirs) => file = before

\* A changeset has an insert for each row that is new, and no other.
LEMMA InsertsAreNew ==
    ASSUME NEW b \in Database, NEW d \in Database
    PROVE  InsertsNothing(CreateChangeset(b, d)) <=> NothingNew(b, d)
<1> DEFINE log == CreateChangeset(b, d)
<1>1. /\ log \in Seq(InputEntry) /\ MadeFrom(b, log) /\ OneEntryPerRow(log)
  BY CreatedMeetsContract
<1>2. Replay(log, b) = d
  BY CreatedLog
<1>3. \A i \in 1..Len(log) : \A t \in Tables, k \in Keys :
        AtRow(log[i], t, k) =>
            /\ log[i] \in InputEntry /\ WellFormed(log[i])
            /\ Effective(log[i], b[t][k]) /\ d[t][k] = RowAfter(log[i], b[t][k])
  BY <1>1, <1>2, MadeRows
<1>4. \A t \in Tables, k \in Keys :
        (\A i \in 1..Len(log) : ~AtRow(log[i], t, k)) => d[t][k] = b[t][k]
  BY <1>1, <1>2, MadeRows
<1> HIDE DEF log
<1>5. DOMAIN log = 1..Len(log) /\ \A i \in 1..Len(log) : log[i] \in InputEntry
  BY <1>1
<1>6. ASSUME InsertsNothing(log), NEW t \in Tables, NEW k \in Keys, b[t][k] = Absent
      PROVE  d[t][k] = Absent
  <2>1. ASSUME NEW i \in 1..Len(log), AtRow(log[i], t, k) PROVE FALSE
    <3>1. Effective(log[i], Absent) /\ log[i] \in InputEntry
      BY <1>3, <1>6, <2>1
    <3>2. log[i].op \in {"update", "delete"}
      BY <1>5, <1>6, <3>1 DEF InsertsNothing, InputEntry, Operations
    <3> QED
      BY <3>1, <3>2 DEF Effective, Matches
  <2> QED
    BY <1>4, <1>6, <2>1
<1>7. ASSUME NothingNew(b, d), NEW i \in 1..Len(log), log[i].op = "insert" PROVE FALSE
  <2> DEFINE t == log[i].table
             k == log[i].pk
  <2>1. t \in Tables /\ k \in Keys
    BY <1>5 DEF InputEntry
  <2>2. AtRow(log[i], t, k)
    BY DEF AtRow
  <2>3. /\ WellFormed(log[i]) /\ Effective(log[i], b[t][k])
        /\ d[t][k] = RowAfter(log[i], b[t][k])
    BY <1>3, <2>1, <2>2
  <2> HIDE DEF t, k
  <2>4. b[t][k] = Absent /\ d[t][k] = log[i].new /\ log[i].new \in Row
    BY <1>7, <2>3 DEF Effective, RowAfter, WellFormed
  <2> QED
    BY <1>7, <2>1, <2>4, AbsentAssumption DEF NothingNew
<1>8. InsertsNothing(log) => NothingNew(b, d)
  BY <1>6 DEF NothingNew
<1>9. NothingNew(b, d) => InsertsNothing(log)
  BY <1>5, <1>7 DEF InsertsNothing
<1> QED
  BY <1>8, <1>9 DEF log

\* Merging a row with what a merge made of it makes nothing new of it, nor does
\* merging when one side has left the row alone.
LEMMA MergedAgain ==
    ASSUME NEW b \in Row, NEW th \in Row \cup {Absent}, NEW o \in Row \cup {Absent}
    PROVE  /\ MergedRow(b, th, MergedRow(b, th, o)) = MergedRow(b, th, o)
           /\ MergedRow(b, b, o) = o
           /\ MergedRow(b, th, b) = th
           /\ MergedRow(b, th, th) = th
<1>1. b # Absent
  BY AbsentAssumption
<1>2. CASE th = Absent \/ o = Absent
  <2>1. \A x : MergedRow(b, Absent, x) = Absent /\ MergedRow(b, x, Absent) = Absent
    BY DEF MergedRow
  <2>2. th # Absent => MergedRow(b, th, b) = th /\ MergedRow(b, th, th) = th
    BY <1>1 DEF MergedRow, Row
  <2>3. o # Absent => MergedRow(b, b, o) = o
    BY <1>1 DEF MergedRow, Row
  <2> QED
    BY <1>2, <2>1, <2>2, <2>3
<1>3. CASE th # Absent /\ o # Absent
  <2> DEFINE m == [c \in Cols |-> IF th[c] = b[c] THEN o[c] ELSE th[c]]
  <2>1. MergedRow(b, th, o) = m /\ m \in Row
    BY <1>3 DEF MergedRow, Row
  <2>2. m # Absent
    BY <2>1, AbsentAssumption
  <2>3. MergedRow(b, th, m) = [c \in Cols |-> IF th[c] = b[c] THEN m[c] ELSE th[c]]
    BY <1>3, <2>2 DEF MergedRow
  <2>4. MergedRow(b, th, m) = m
    BY <2>3
  <2>5. MergedRow(b, b, o) = o /\ MergedRow(b, th, b) = th /\ MergedRow(b, th, th) = th
    BY <1>1, <1>3 DEF MergedRow, Row
  <2> QED
    BY <2>1, <2>4, <2>5
<1> QED
  BY <1>2, <1>3

\* The driver's merge, when theirs insert nothing: row by row of BASE, and our own
\* inserts under their keys.
LEMMA MergeRowByRow ==
    ASSUME Over, TheirsInsertNothing, NEW t \in Tables, NEW k \in Keys
    PROVE  ThreeWayMerge[t][k] =
             IF input.base[t][k] = Absent THEN OursDb[t][k]
             ELSE MergedRow(input.base[t][k], TheirsDb[t][k], OursDb[t][k])
<1>1. ThreeWayMerge[t][k] = RowInMerge(t, k)
  BY DEF ThreeWayMerge, RowInMerge
<1>2. \A j \in OurInserts(t) : KeyInMerge(t, j) = j
  <2> SUFFICES ASSUME NEW j \in OurInserts(t) PROVE KeyInMerge(t, j) = j
    OBVIOUS
  <2>1. j \in Keys
    BY DEF OurInserts
  <2>2. PICK i \in 1..Len(ours) : ours[i].op = "insert" /\ AtRow(ours[i], t, j)
    BY <2>1, InsertsOfOurs
  <2> QED
    BY <2>2, InsertsKeepKeys DEF AtRow
<1>3. CASE k \in OurInserts(t)
  <2>1. \E j \in OurInserts(t) : KeyInMerge(t, j) = k
    BY <1>2, <1>3
  <2>2. (CHOOSE j \in OurInserts(t) : KeyInMerge(t, j) = k) = k
    BY <1>2, <2>1
  <2>3. input.base[t][k] = Absent
    BY <1>3 DEF OurInserts
  <2> QED
    BY <1>1, <2>1, <2>2, <2>3 DEF RowInMerge
<1>4. CASE k \notin OurInserts(t)
  <2>1. ~\E j \in OurInserts(t) : KeyInMerge(t, j) = k
    BY <1>2, <1>4
  <2>2. input.base[t][k] = Absent => TheirsDb[t][k] = Absent /\ OursDb[t][k] = Absent
    BY <1>4, NothingNewInTheirs DEF OurInserts
  <2> QED
    BY <1>1, <2>1, <2>2 DEF RowInMerge
<1> QED
  BY <1>3, <1>4

LEMMA SameRows ==
    ASSUME NEW d \in Database, NEW e \in Database,
           \A t \in Tables, k \in Keys : d[t][k] = e[t][k]
    PROVE  d = e
<1>1. /\ d = [t \in Tables |-> d[t]] /\ \A t \in Tables : d[t] = [k \in Keys |-> d[t][k]]
      /\ e = [t \in Tables |-> e[t]] /\ \A t \in Tables : e[t] = [k \in Keys |-> e[t][k]]
  BY DEF Database
<1>2. \A t \in Tables : d[t] = e[t]
  BY <1>1
<1> QED
  BY <1>1, <1>2

\* When theirs insert nothing there is room for the merge, the merge is settled, and
\* it changes nothing of a file that was.
LEMMA SettledMerge ==
    ASSUME Inv, NothingNew(base, modifiedTheir),
           baseTheirs = CreateChangeset(base, modifiedTheir),
           baseOurs = CreateChangeset(base, before),
           baseTheirs # <<>> /\ baseOurs # <<>> => input # NoInput /\ phase = "done"
    PROVE  /\ HasRoom /\ Settled(base, modifiedTheir, Merged)
           /\ Settled(base, modifiedTheir, before) => Merged = before
<1>1. /\ base \in Database /\ modifiedTheir \in Database /\ before \in Database
      /\ IInv /\ MergeInv /\ DriverCalled
  BY DEF Inv, FileInv, FileTypeOK
<1>2. ASSUME NEW t \in Tables, NEW k \in Keys
      PROVE  /\ base[t][k] \in Row \cup {Absent}
             /\ modifiedTheir[t][k] \in Row \cup {Absent} /\ before[t][k] \in Row \cup {Absent}
  BY <1>1 DEF Database
<1>3. CASE baseTheirs = <<>>
  <2>1. Merged = before /\ modifiedTheir = base /\ HasRoom
    BY <1>1, <1>3, CreatedLog DEF Merged, HasRoom
  <2>2. ASSUME NEW t \in Tables, NEW k \in Keys, base[t][k] # Absent
        PROVE  MergedRow(base[t][k], base[t][k], before[t][k]) = before[t][k]
    BY <1>2, <2>2, MergedAgain
  <2> QED
    BY <2>1, <2>2 DEF Settled
<1>4. CASE baseTheirs # <<>> /\ baseOurs = <<>>
  <2>1. Merged = modifiedTheir /\ before = base /\ HasRoom
    BY <1>1, <1>4, CreatedLog DEF Merged, HasRoom
  <2>2. ASSUME NEW t \in Tables, NEW k \in Keys, base[t][k] # Absent
        PROVE  /\ MergedRow(base[t][k], modifiedTheir[t][k], modifiedTheir[t][k]) = modifiedTheir[t][k]
               /\ MergedRow(base[t][k], modifiedTheir[t][k], base[t][k]) = modifiedTheir[t][k]
    BY <1>2, <2>2, MergedAgain
  <2>3. Settled(base, modifiedTheir, Merged)
    BY <2>1, <2>2 DEF Settled
  <2>4. ASSUME Settled(base, modifiedTheir, before) PROVE Merged = before
    <3>1. \A t \in Tables, k \in Keys : modifiedTheir[t][k] = base[t][k]
      BY <2>1, <2>2, <2>4 DEF Settled, NothingNew
    <3> QED
      BY <1>1, <2>1, <3>1, SameRows
  <2> QED
    BY <2>1, <2>3, <2>4
<1>5. CASE baseTheirs # <<>> /\ baseOurs # <<>>
  <2>1. /\ theirs = baseTheirs /\ ours = baseOurs /\ input.base = base /\ phase = "done"
    BY <1>1, <1>5 DEF DriverCalled, theirs, ours
  <2>2. OneEntryPerRow(theirs) /\ OneEntryPerRow(ours)
    BY <1>1, <2>1, CreatedMeetsContract
  <2>3. Over
    BY <1>1, <1>5, <2>1, <2>2 DEF Over, RowsCall
  <2>4. TheirsDb = modifiedTheir
    BY <1>1, <2>1, CreatedLog DEF TheirsDb
  <2>5. OursDb = before
    BY <1>1, <2>1, CreatedLog DEF OursDb
  <2>6. TheirsInsertNothing
    <3>1. InsertsNothing(baseTheirs)
      BY <1>1, InsertsAreNew
    <3>2. DOMAIN theirs = 1..Len(theirs)
      BY <1>1, InputType DEF IInv
    <3> QED
      BY <2>1, <3>1, <3>2 DEF TheirsInsertNothing, InsertsNothing
  <2>7. InsertsHaveRoom
    BY <2>3, <2>6, RoomWithoutInserts
  <2>8. Merged = ThreeWayMerge /\ ThreeWayMerge \in Database
    BY <1>5, <2>3, <2>7, OutputReplays DEF Merged
  <2>9. ASSUME NEW t \in Tables, NEW k \in Keys
        PROVE  Merged[t][k] =
                 IF base[t][k] = Absent THEN before[t][k]
                 ELSE MergedRow(base[t][k], modifiedTheir[t][k], before[t][k])
    BY <2>1, <2>3, <2>4, <2>5, <2>6, <2>8, MergeRowByRow
  <2>10. ASSUME NEW t \in Tables, NEW k \in Keys, base[t][k] # Absent
         PROVE  MergedRow(base[t][k], modifiedTheir[t][k], Merged[t][k]) = Merged[t][k]
    <3>1. base[t][k] \in Row
      BY <1>2, <2>10
    <3>2. Merged[t][k] = MergedRow(base[t][k], modifiedTheir[t][k], before[t][k])
      BY <2>9, <2>10
    <3> QED
      BY <1>2, <3>1, <3>2, MergedAgain
  <2>11. ASSUME Settled(base, modifiedTheir, before) PROVE Merged = before
    <3>1. \A t \in Tables, k \in Keys : Merged[t][k] = before[t][k]
      BY <2>9, <2>11 DEF Settled
    <3> QED
      BY <1>1, <2>8, <3>1, SameRows
  <2> QED
    BY <2>7, <2>10, <2>11 DEF Settled, HasRoom
<1> QED
  BY <1>3, <1>4, <1>5

\* A step that leaves the file, and what is known of it, alone.
LEMMA RepeatKept ==
    ASSUME RepeatInv, UNCHANGED <<base, modifiedTheir, file, before, foreign, merged, again>>,
           Answered' => Answered /\ baseTheirs' = baseTheirs
    PROVE  RepeatInv'
BY DEF RepeatInv, InsertsNothing

\* The step with which the merge is in the file.
LEMMA RepeatReported ==
    ASSUME Inv, Inv', RepeatInv, step' = "report",
           UNCHANGED <<driver, base, modifiedTheir, baseTheirs, baseOurs, before, foreign, again>>,
           baseTheirs = CreateChangeset(base, modifiedTheir),
           baseOurs = CreateChangeset(base, before),
           baseTheirs # <<>> /\ baseOurs # <<>> => input # NoInput /\ phase = "done",
           merged' => foreign.since = {} \/ (merged /\ file' = file)
    PROVE  RepeatInv'
<1>1. HasRoom' = HasRoom /\ Merged' = Merged
  BY SameMerge
<1>2. base \in Database /\ modifiedTheir \in Database
  BY DEF Inv, FileInv, FileTypeOK
<1>3. ASSUME foreign.since = {}, NothingNew(base, modifiedTheir)
      PROVE  /\ Settled(base, modifiedTheir, file')
             /\ Settled(base, modifiedTheir, before) => file' = before
  <2>1. HasRoom' => file' = Merged'
    BY <1>3 DEF Inv, FileInv, FileInPlace, HoldsMerge
  <2>2. /\ HasRoom /\ Settled(base, modifiedTheir, Merged)
        /\ Settled(base, modifiedTheir, before) => Merged = before
    BY <1>3, SettledMerge
  <2> QED
    BY <1>1, <2>1, <2>2
<1>4. InsertsNothing(baseTheirs') => NothingNew(base, modifiedTheir)
  BY <1>2, InsertsAreNew
<1>5. again' => again /\ foreign.since = {} /\ foreign'.since = {}
  BY DEF RepeatInv
<1>6. ASSUME NothingNew(base, modifiedTheir)
      PROVE  /\ merged' => Settled(base, modifiedTheir, file')
             /\ again' => Settled(base, modifiedTheir, before)
  BY <1>3, <1>6 DEF RepeatInv
<1>7. ASSUME again', InsertsNothing(baseTheirs') PROVE file' = before
  BY <1>3, <1>4, <1>5, <1>6, <1>7
<1> QED
  BY <1>5, <1>6, <1>7 DEF RepeatInv

LEMMA RepeatApplied == ASSUME Inv, Inv', RepeatInv, Undo \/ ApplyTheirs \/ ApplyFinal PROVE RepeatInv'
<1>1. /\ UNCHANGED driver
      /\ UNCHANGED <<base, modifiedTheir, baseTheirs, baseOurs, before, foreign, again>>
      /\ merged' = (step' = "report" /\ foreign.since = {})
      /\ step' \in {"createTheirs", "rebase", "report"}
      /\ step' = "report" => step \in {"applyTheirs", "applyFinal"}
      /\ step' = "report" /\ step = "applyTheirs" => procedure = "Rebase"
  BY DEF Undo, ApplyTheirs, ApplyFinal, Apply, Continue, temporary
<1>2. /\ ChangesetsMade /\ SituationsKnown /\ DriverCalled
  BY DEF Inv, FileInv
<1>3. CASE step' # "report"
  BY <1>1, <1>3 DEF RepeatInv, Answered
<1>4. CASE step' = "report"
  <2>1. /\ baseTheirs = CreateChangeset(base, modifiedTheir)
        /\ baseOurs = CreateChangeset(base, before)
    BY <1>1, <1>2, <1>4 DEF ChangesetsMade
  <2>2. baseTheirs # <<>> /\ baseOurs # <<>> => input # NoInput /\ phase = "done"
    BY <1>1, <1>2, <1>4 DEF SituationsKnown, DriverCalled, Direct
  <2> QED
    BY <1>1, <1>4, <2>1, <2>2, RepeatReported
<1> QED
  BY <1>3, <1>4

LEMMA RepeatNext == ASSUME Inv, Inv', RepeatInv, [FileNext]_fileVars PROVE RepeatInv'
<1>1. /\ again => foreign.since = {}
      /\ foreign.since = {} => FileInPlace
      /\ ChangesetsMade /\ SituationsKnown /\ DriverCalled
      /\ procedure \in Procedures
  BY DEF RepeatInv, Inv, FileInv, FileTypeOK
<1>2. CASE CallRebase
  <2>1. /\ step' # "idle" /\ step' # "report"
        /\ before' = file /\ file' = file /\ again' = merged /\ merged' = merged
        /\ base' = base /\ modifiedTheir' = modifiedTheir /\ foreign'.since = {}
    BY <1>2 DEF CallRebase, files, Inv, FileInv, FileTypeOK
  <2> QED
    BY <2>1 DEF RepeatInv, Answered
<1>3. CASE CreateTheirs
  <2>1. /\ UNCHANGED <<base, modifiedTheir, file, before, foreign, merged, again>>
        /\ step = "createTheirs"
        /\ \/ procedure = "Rebase"
           \/ step' \in {"createOurs", "rebase", "applyTheirs"}
    BY <1>3 DEF CreateTheirs, files, ghost, Continue
  <2>2. again /\ Answered' => file = before
    BY <1>1, <2>1 DEF FileInPlace, Direct, Answered
  <2> QED
    BY <2>1, <2>2 DEF RepeatInv
<1>4. CASE CreateOurs
  <2>1. /\ UNCHANGED <<base, modifiedTheir, file, merged, again>>
        /\ step = "createOurs" /\ before' = file /\ foreign'.since = {}
        /\ step' \notin {"idle", "report"}
    BY <1>4 DEF CreateOurs, files, Continue, Inv, FileInv, FileTypeOK
  <2>2. again => file = before
    BY <1>1, <2>1 DEF FileInPlace
  <2> QED
    BY <2>1, <2>2 DEF RepeatInv, Answered
<1>5. CASE EnterDriver
  <2>1. /\ UNCHANGED <<base, modifiedTheir, file, before, foreign, merged, again, baseTheirs>>
        /\ step = "rebase"
        /\ baseOurs = <<>> \/ step' = "rebase"
    BY <1>5 DEF EnterDriver, files, ghost, temporary
  <2>2. CASE step' = "rebase"
    BY <2>1, <2>2, RepeatKept DEF Answered
  <2>3. CASE baseOurs = <<>>
    <3>1. /\ baseTheirs = CreateChangeset(base, modifiedTheir)
          /\ baseOurs = CreateChangeset(base, before) /\ Direct
          /\ base \in Database /\ modifiedTheir \in Database /\ before \in Database
      BY <1>1, <2>1, <2>3 DEF ChangesetsMade, SituationsKnown, Inv, FileInv, FileTypeOK
    <3>2. ASSUME again, InsertsNothing(baseTheirs) PROVE file = before
      <4>1. NothingNew(base, modifiedTheir)
        BY <3>1, <3>2, InsertsAreNew
      <4>2. Settled(base, modifiedTheir, before)
        BY <3>2, <4>1 DEF RepeatInv
      <4>3. Merged = before
        BY <2>3, <3>1, <4>1, <4>2, SettledMerge
      <4>4. modifiedTheir = Merged
        <5>1. CASE baseTheirs = <<>>
          <6>1. base = modifiedTheir
            BY <3>1, <5>1, NothingCreated
          <6>2. base = before
            BY <2>3, <3>1, NothingCreated
          <6> QED
            BY <5>1, <6>1, <6>2 DEF Merged
        <5>2. CASE baseTheirs # <<>>
          BY <2>3, <5>2 DEF Merged
        <5> QED
          BY <5>1, <5>2
      <4>5. file = modifiedTheir
        BY <1>1, <2>1, <3>1, <3>2 DEF FileInPlace
      <4> QED
        BY <4>3, <4>4, <4>5
    <3> QED
      BY <2>1, <3>2 DEF RepeatInv
  <2> QED
    BY <2>1, <2>2, <2>3
<1>6. CASE DriverStep
  <2>1. /\ UNCHANGED <<base, modifiedTheir, file, before, foreign, merged, again>>
        /\ step' = "rebase"
    BY <1>6 DEF DriverStep, files, ghost
  <2> QED
    BY <2>1, RepeatKept DEF Answered
<1>7. CASE LeaveDriver
  <2>1. /\ UNCHANGED <<base, modifiedTheir, file, baseTheirs, baseOurs, before, foreign, merged, again>>
        /\ UNCHANGED driver
        /\ step = "rebase" /\ phase = "done"
        /\ step' \in {"report", "applyFinal"}
    BY <1>7 DEF LeaveDriver, files, ghost, Continue
  <2>2. CASE step' = "applyFinal"
    BY <2>1, <2>2, RepeatKept DEF Answered
  <2>3. CASE step' = "report"
    <3>1. /\ baseTheirs = CreateChangeset(base, modifiedTheir)
          /\ baseOurs = CreateChangeset(base, before)
          /\ input # NoInput
      BY <1>1, <2>1 DEF ChangesetsMade, DriverCalled
    <3> QED
      BY <2>1, <2>3, <3>1, RepeatReported
  <2> QED
    BY <2>1, <2>2, <2>3
<1>8. CASE Undo \/ ApplyTheirs \/ ApplyFinal
  BY <1>8, RepeatApplied
<1>9. CASE Report \/ Fail \/ Crash
  <2>1. /\ UNCHANGED <<base, modifiedTheir, file, before, foreign, merged, again, baseTheirs>>
        /\ step' = "idle" /\ (returned' = "ok" => step = "report")
    BY <1>9 DEF Report, Fail, Crash, files, ghost, temporary, Return
  <2> QED
    BY <2>1, RepeatKept DEF Answered
<1>10. CASE OtherEdit
  <2>1. merged' = FALSE /\ again' = FALSE
    BY <1>10 DEF OtherEdit
  <2> QED
    BY <2>1 DEF RepeatInv
<1>11. CASE UNCHANGED fileVars
  <2>1. UNCHANGED <<base, modifiedTheir, file, before, foreign, merged, again, baseTheirs, step, returned>>
    BY <1>11 DEF fileVars, files, ghost, temporary
  <2> QED
    BY <2>1, RepeatKept DEF Answered
<1> QED
  BY <1>2, <1>3, <1>4, <1>5, <1>6, <1>7, <1>8, <1>9, <1>10, <1>11 DEF FileNext, Progress

-----------------------------------------------------------------------------
(* Edits of other programs: the file is where the plan of the call has it, *)
(* but for what was edited since the plan was made                         *)

\* A log the library wrote, and where it leads: executed in some order, each of
\* its entries once.
InvertibleLog(log) ==
    /\ log \in Seq(Entry) /\ Len(log) \in Nat /\ DOMAIN log = 1..Len(log)
    /\ \A i \in 1..Len(log) : Invertible(log[i])

\* Turns lead from the start to where they end by all entries.
LEMMA TurnsLead ==
    ASSUME NEW l, InvertibleLog(l), NEW d \in Database, NEW e \in Atomic!Effects(l, d)
    PROVE  LeadTo(l, 1..Len(l), d, e)
<1> DEFINE W == Atomic!Wanted(l)
           N == Cardinality(W)
           turns == Atomic!Turns(l, d)
           Leads(n) == \A s \in turns[n] :
                          /\ s.left \in SUBSET W /\ Cardinality(s.left) = N - n
                          /\ LeadTo(l, W \ s.left, d, s.rows)
           T == {n \in 0..N : Leads(n)}
<1>1. /\ Len(l) \in Nat /\ DOMAIN l = 1..Len(l)
      /\ W = 1..Len(l) /\ IsFiniteSet(W) /\ N \in Nat
  <2>1. Len(l) \in Nat /\ DOMAIN l = 1..Len(l)
    BY DEF InvertibleLog
  <2>2. W = 1..Len(l)
    BY <2>1 DEF Atomic!Wanted
  <2>3. IsFiniteSet(W)
    BY <2>1, <2>2, FS_Interval
  <2> HIDE DEF W
  <2> QED
    BY <2>1, <2>2, <2>3, FS_CardinalityType
<1>2. /\ turns[0] = {[left |-> W, rows |-> d]}
      /\ \A n \in 1..N : turns[n] = OneMore(l, turns[n - 1])
  BY <1>1, TurnEquations
<1>3. e \in {s.rows : s \in turns[N]}
  BY SameCardinality DEF Atomic!Effects
<1> HIDE DEF W, N, turns
<1>4. 0 \in T
  <2>1. W \ W = {} /\ N - 0 = Cardinality(W)
    BY <1>1 DEF N
  <2>2. LeadTo(l, {}, d, d)
    BY NothingLeads
  <2> QED
    BY <1>1, <1>2, <2>1, <2>2
<1>5. ASSUME NEW n \in 0..(N - 1), n \in T PROVE n + 1 \in T
  <2>1. n + 1 \in 1..N /\ n + 1 \in 0..N /\ (n + 1) - 1 = n
    BY <1>1
  <2>2. turns[n + 1] = OneMore(l, turns[n])
    BY <1>2, <2>1
  <2> SUFFICES ASSUME NEW s \in OneMore(l, turns[n])
               PROVE  /\ s.left \in SUBSET W /\ Cardinality(s.left) = N - (n + 1)
                      /\ LeadTo(l, W \ s.left, d, s.rows)
    BY <2>1, <2>2
  <2>3. PICK r \in turns[n] :
            /\ s \in {[left |-> r.left \ {i}, rows |-> Atomic!DatabaseAfter(l[i], r.rows)] :
                          i \in r.left}
            /\ s.rows # Absent
    BY DEF OneMore
  <2>4. PICK i \in r.left :
            /\ s = [left |-> r.left \ {i}, rows |-> Atomic!DatabaseAfter(l[i], r.rows)]
            /\ s.rows # Absent
    BY <2>3
  <2>5. /\ r.left \in SUBSET W /\ Cardinality(r.left) = N - n
        /\ LeadTo(l, W \ r.left, d, r.rows)
    BY <1>5
  <2>6. s.left = r.left \ {i} /\ s.rows = DatabaseAfter(l[i], r.rows)
    BY <2>4, SameExecution
  <2>7. IsFiniteSet(r.left)
    BY <1>1, <2>5, FS_Subset
  <2>8. Cardinality(s.left) = N - (n + 1)
    <3>1. Cardinality(r.left \ {i}) = Cardinality(r.left) - 1
      BY <2>7, FS_RemoveElement
    <3> QED
      BY <1>1, <2>1, <2>5, <2>6, <3>1
  <2>9. W \ s.left = (W \ r.left) \cup {i} /\ i \notin W \ r.left /\ i \in W
    BY <2>5, <2>6
  <2>10. LeadTo(l, (W \ r.left) \cup {i}, d, DatabaseAfter(l[i], r.rows))
    BY <1>1, <2>4, <2>5, <2>6, <2>9, OneMoreLeads DEF InvertibleLog
  <2> QED
    BY <2>5, <2>6, <2>8, <2>9, <2>10
<1> HIDE DEF T
<1>6. N \in T
  <2>1. 0..N \subseteq T
    BY <1>1, <1>4, <1>5, UpTo
  <2> QED
    BY <1>1, <2>1
<1>7. PICK s \in turns[N] : e = s.rows
  BY <1>3
<1>8. s.left \in SUBSET W /\ Cardinality(s.left) = 0 /\ LeadTo(l, W \ s.left, d, s.rows)
  <2>1. Leads(N)
    BY <1>6 DEF T
  <2>2. N - N = 0
    BY <1>1
  <2> QED
    BY <2>1, <2>2
<1>9. W \ s.left = W
  <2>1. s.left = {}
    BY <1>1, <1>8, FS_Subset, FS_EmptySet
  <2> QED
    BY <2>1
<1> QED
  BY <1>1, <1>7, <1>8, <1>9

LEMMA AppliedLeads ==
    ASSUME NEW log, InvertibleLog(log), NEW d \in Database, NEW e \in Applied(log, d)
    PROVE  LeadTo(log, 1..Len(log), d, e)
<1>1. CASE Replay(log, d) # Absent
  BY <1>1, ReplayLeads DEF Applied, InvertibleLog
<1>2. CASE Replay(log, d) = Absent
  BY <1>2, TurnsLead DEF Applied
<1> QED
  BY <1>1, <1>2

LEMMA CreatedInvertible ==
    ASSUME NEW was \in Database, NEW is \in Database, NEW log, log = CreateChangeset(was, is)
    PROVE  InvertibleLog(log) /\ InvertibleLog(InvertChangeset(log))
<1>1. log \in Seq(Entry) /\ \A i \in 1..Len(log) : WellFormed(log[i])
  BY ChangesetReplays
<1>2. Len(log) \in Nat /\ DOMAIN log = 1..Len(log) /\ \A i \in 1..Len(log) : log[i] \in Entry
  BY <1>1
<1>3. InvertibleLog(log)
  BY <1>1, <1>2, WellFormedInvertible DEF InvertibleLog
<1> DEFINE inv == InvertChangeset(log)
<1>4. inv = [i \in 1..Len(log) |-> InvertEntry(log[i])]
  BY <1>2 DEF InvertChangeset
<1>5. \A i \in 1..Len(log) : Invertible(InvertEntry(log[i]))
  BY <1>3, InverseInvertible DEF InvertibleLog
<1> HIDE DEF inv
<1>6. \A i \in 1..Len(log) : inv[i] \in Entry
  BY <1>4, <1>5 DEF Invertible
<1>7. inv \in Seq(Entry) /\ Len(inv) = Len(log) /\ DOMAIN inv = 1..Len(log)
  BY <1>2, <1>4, <1>6
<1>8. InvertibleLog(inv)
  BY <1>2, <1>4, <1>5, <1>7 DEF InvertibleLog
<1> QED
  BY <1>3, <1>8 DEF inv

LEMMA JoinedInvertible ==
    ASSUME NEW a, NEW b, InvertibleLog(a), InvertibleLog(b)
    PROVE  InvertibleLog(ConcatChanges(a, b))
<1> DEFINE s == a \o b
<1>1. a \in Seq(Entry) /\ b \in Seq(Entry)
  BY DEF InvertibleLog
<1>2. s \in Seq(Entry)
  BY <1>1
<1>3. /\ Len(s) = Len(a) + Len(b) /\ Len(a) \in Nat /\ Len(b) \in Nat
      /\ \A l \in 1..Len(a) : s[l] = a[l]
      /\ \A l \in 1..Len(b) : s[Len(a) + l] = b[l]
      /\ \A l \in 1..Len(s) : l \in 1..Len(a) \/ l - Len(a) \in 1..Len(b)
  BY <1>1, Joined
<1>4. s = ConcatChanges(a, b)
  BY DEF ConcatChanges
<1> HIDE DEF s
<1>5. ASSUME NEW l \in 1..Len(s) PROVE Invertible(s[l])
  <2>1. CASE l \in 1..Len(a)
    BY <1>3, <2>1 DEF InvertibleLog
  <2>2. CASE l - Len(a) \in 1..Len(b)
    <3>1. Len(a) + (l - Len(a)) = l
      BY <1>3
    <3>2. s[l] = b[l - Len(a)]
      BY <1>3, <2>2, <3>1
    <3> QED
      BY <2>2, <3>2 DEF InvertibleLog
  <2> QED
    BY <1>3, <2>1, <2>2
<1>6. Len(s) \in Nat /\ DOMAIN s = 1..Len(s)
  BY <1>2
<1> QED
  BY <1>2, <1>4, <1>5, <1>6 DEF InvertibleLog

\* What the driver keeps of an entry of ours still says what was there and what is.
LEMMA KeptInvertible ==
    ASSUME Over, NEW i \in 1..Len(ours), ~Dropped(ours[i])
    PROVE  Invertible(Rebased(ours[i]))
<1> DEFINE e == ours[i]
           x == Rebased(e)
           u == Patched(e)
<1>1. e \in InputEntry /\ WellFormed(e)
  BY OursEntry
<1>2. /\ x \in Entry /\ x.op = e.op
      /\ e.op = "insert" => x.new = e.new
      /\ e.op # "insert" => NewPK(e) = e.pk
  BY AtTheEnd, RebasedFields DEF Over
<1>3. e.op \in {"insert", "update", "delete"} /\ e.new \in EntryValues /\ e.old \in EntryValues
  BY <1>1 DEF InputEntry, Operations
<1>5. ASSUME e.op # "insert" PROVE u \in EntryValues
  <2>1. NewPK(e) # InvalidFID
    <3>1. e.pk \in Keys
      BY <1>1 DEF InputEntry
    <3> QED
      BY <1>2, <1>5, <3>1, KeysAssumption DEF InvalidFID
  <2> QED
    BY <1>5, <2>1, PatchedRow
<1>6. ~Dropped(e)
  OBVIOUS
<1>7. e.table \notin touched => x = e
  BY DEF Rebased
<1> HIDE DEF e, u
<1> SUFFICES Invertible(x)
  BY DEF e
<1>4. CASE e.op = "insert"
  <2> HIDE DEF x
  <2> QED
    BY <1>1, <1>2, <1>4 DEF Invertible, WellFormed
<1>8. CASE e.op = "update"
  <2>1. CASE e.table \notin touched
    <3>1. x = e /\ x \in Entry
      BY <1>2, <1>7, <2>1
    <3> QED
      BY <1>1, <3>1, WellFormedInvertible
  <2>2. CASE e.table \in touched
    <3>1. x = RebasedUpdate(e)
      BY <1>8, <2>2 DEF Rebased
    <3>2. /\ x.old = [c \in Cols |-> IF u[c] = Undefined THEN e.old[c] ELSE Undefined]
          /\ x.new = [c \in Cols |-> IF u[c] = Undefined THEN e.new[c] ELSE Undefined]
      BY <1>1, <3>1 DEF RebasedUpdate, InputEntry, u
    <3>3. x.new # Blank
      BY <1>6, <1>8, <2>2, <3>1 DEF Dropped
    <3>4. \A c \in Cols : (e.old[c] = Undefined) = (e.new[c] = Undefined)
      BY <1>1, <1>8 DEF WellFormed
    <3> HIDE DEF x
    <3>5. \A c \in Cols : (x.old[c] = Undefined) = (x.new[c] = Undefined)
      BY <3>2, <3>4
    <3> QED
      BY <1>2, <1>8, <3>3, <3>5 DEF Invertible, x
  <2> QED
    BY <2>1, <2>2
<1>9. CASE e.op = "delete"
  <2>1. x.old \in Row
    <3>1. e.old \in Row
      BY <1>1, <1>9 DEF WellFormed
    <3>2. CASE e.table \in touched
      <4>1. x = RebasedDelete(e)
        BY <1>9, <3>2 DEF Rebased
      <4>2. x.old = Overlay(u, e.old)
        BY <1>1, <4>1 DEF RebasedDelete, InputEntry, u
      <4> QED
        BY <1>5, <1>9, <3>1, <4>2 DEF Overlay, Row, EntryValues
    <3>3. CASE e.table \notin touched
      BY <1>7, <3>1, <3>3
    <3> QED
      BY <3>2, <3>3
  <2> HIDE DEF x
  <2> QED
    BY <1>2, <1>9, <2>1 DEF Invertible, x
<1> QED
  BY <1>3, <1>4, <1>8, <1>9

LEMMA OutputInvertible == ASSUME Over PROVE InvertibleLog(output)
<1>1. output \in Seq(Entry)
  BY AtTheEnd DEF TypeOK
<1>2. Len(output) \in Nat /\ DOMAIN output = 1..Len(output)
  BY <1>1
<1>3. ASSUME NEW l \in 1..Len(output) PROVE Invertible(output[l])
  BY OutputOfOurs, KeptInvertible
<1> QED
  BY <1>1, <1>2, <1>3 DEF InvertibleLog

OfRow(since, t, k) == {f \in since : f.table = t /\ f.pk = k}

\* Where a plan has plan, the rows are what the edits made of it: the same where
\* nobody edited, and where one edit was made, that edit between the two.
Edited(since, plan, rows) ==
    /\ \A f \in since : f.was # f.is
    /\ \A t \in Tables, k \in Keys :
        /\ OfRow(since, t, k) = {} => rows[t][k] = plan[t][k]
        /\ \A f : OfRow(since, t, k) = {f} => RowCarried(f.was, f.is, plan[t][k], rows[t][k])

LEMMA NothingEdited == ASSUME NEW d PROVE Edited({}, d, d)
  BY DEF Edited, OfRow

LEMMA CarriedOn ==
    ASSUME NEW was, NEW is, NEW plan, NEW row, NEW plan2, NEW row2,
           RowCarried(was, is, plan, row), RowCarried(plan, row, plan2, row2)
    PROVE  RowCarried(was, is, plan2, row2)
<1>1. ASSUME NEW a, NEW b, NEW p, NEW q, NEW p2, NEW q2, Carried(a, b, p, q), Carried(p, q, p2, q2)
      PROVE  Carried(a, b, p2, q2)
  <2>1. CASE a = b
    BY <1>1, <2>1 DEF Carried
  <2>2. CASE a # b
    BY <1>1, <2>2 DEF Carried
  <2> QED
    BY <2>1, <2>2
<1>2. Carried(was # Absent, is # Absent, plan2 # Absent, row2 # Absent)
  <2>1. /\ Carried(was # Absent, is # Absent, plan # Absent, row # Absent)
        /\ Carried(plan # Absent, row # Absent, plan2 # Absent, row2 # Absent)
    BY DEF RowCarried
  <2> QED
    BY <2>1 DEF Carried
<1>3. ASSUME NEW c \in Cols
      PROVE  Carried(Seen(was, c), Seen(is, c), Seen(plan2, c), Seen(row2, c))
  <2>1. /\ Carried(Seen(was, c), Seen(is, c), Seen(plan, c), Seen(row, c))
        /\ Carried(Seen(plan, c), Seen(row, c), Seen(plan2, c), Seen(row2, c))
    BY DEF RowCarried
  <2> QED
    BY <1>1, <2>1
<1> QED
  BY <1>2, <1>3 DEF RowCarried

\* The plan and the row go on by the same entries.
LEMMA EditsStay ==
    ASSUME NEW since, NEW plan, NEW rows, Edited(since, plan, rows),
           NEW log, InvertibleLog(log), NEW plan2, NEW rows2,
           LeadTo(log, 1..Len(log), plan, plan2), LeadTo(log, 1..Len(log), rows, rows2)
    PROVE  Edited(since, plan2, rows2)
<1>1. ASSUME NEW t \in Tables, NEW k \in Keys
      PROVE  RowCarried(plan[t][k], rows[t][k], plan2[t][k], rows2[t][k])
  <2>1. Len(log) \in Nat /\ 1..Len(log) \in SUBSET (1..Len(log))
    BY DEF InvertibleLog
  <2> QED
    BY <2>1, EditsAreCarried
<1>2. ASSUME NEW t \in Tables, NEW k \in Keys, rows[t][k] = plan[t][k]
      PROVE  rows2[t][k] = plan2[t][k]
  <2>1. RowCarried(plan[t][k], plan[t][k], plan2[t][k], rows2[t][k])
    BY <1>1, <1>2
  <2>2. plan2[t][k] \in Row \cup {Absent} /\ rows2[t][k] \in Row \cup {Absent}
    BY DEF LeadTo, Database
  <2>3. /\ (rows2[t][k] # Absent) = (plan2[t][k] # Absent)
        /\ \A c \in Cols : Seen(rows2[t][k], c) = Seen(plan2[t][k], c)
    BY <2>1 DEF RowCarried, Carried
  <2> QED
    BY <2>2, <2>3, SeenAlike
<1>3. ASSUME NEW t \in Tables, NEW k \in Keys, NEW f, OfRow(since, t, k) = {f}
      PROVE  RowCarried(f.was, f.is, plan2[t][k], rows2[t][k])
  <2>1. RowCarried(f.was, f.is, plan[t][k], rows[t][k])
    BY <1>3 DEF Edited
  <2> QED
    BY <1>1, <2>1, CarriedOn
<1>4. ASSUME NEW t \in Tables, NEW k \in Keys, OfRow(since, t, k) = {}
      PROVE  rows2[t][k] = plan2[t][k]
  BY <1>2, <1>4 DEF Edited
<1>5. \A f \in since : f.was # f.is
  BY DEF Edited
<1> QED
  BY <1>3, <1>4, <1>5 DEF Edited

\* Where an edit is between plan and row, it is not as the edit found it.
LEMMA EditShows ==
    ASSUME NEW was \in Row \cup {Absent}, NEW is \in Row \cup {Absent}, was # is,
           NEW plan, NEW row, RowCarried(was, is, plan, row)
    PROVE  row # was
<1> SUFFICES ASSUME row = was PROVE FALSE
  OBVIOUS
<1>1. (was # Absent) = (is # Absent)
  <2>1. Carried(was # Absent, is # Absent, plan # Absent, was # Absent)
    BY DEF RowCarried
  <2> QED
    BY <2>1 DEF Carried
<1>2. ASSUME NEW c \in Cols PROVE Seen(was, c) = Seen(is, c)
  <2>1. Carried(Seen(was, c), Seen(is, c), Seen(plan, c), Seen(was, c))
    BY DEF RowCarried
  <2> QED
    BY <2>1 DEF Carried
<1> QED
  BY <1>1, <1>2, SeenAlike

\* Another program edits a row.
LEMMA EditAdded ==
    ASSUME NEW since \in SUBSET [table : Tables, pk : Keys,
                                 was : Row \cup {Absent}, is : Row \cup {Absent}],
           NEW plan, NEW rows \in Database, Edited(since, plan, rows),
           NEW f \in [table : Tables, pk : Keys, was : Row \cup {Absent}, is : Row \cup {Absent}],
           f.was = rows[f.table][f.pk], f.was # f.is, NEW rows2,
           rows2 = [rows EXCEPT ![f.table][f.pk] = f.is]
    PROVE  Edited(since \cup {f}, plan, rows2)
<1>1. /\ f.table \in Tables /\ f.pk \in Keys
      /\ f.was \in Row \cup {Absent} /\ f.is \in Row \cup {Absent}
  OBVIOUS
<1>2. \A t \in Tables, k \in Keys :
        rows2[t][k] = IF t = f.table /\ k = f.pk THEN f.is ELSE rows[t][k]
  BY <1>1 DEF Database
<1>3. ASSUME NEW t \in Tables, NEW k \in Keys, ~(t = f.table /\ k = f.pk)
      PROVE  /\ OfRow(since \cup {f}, t, k) = {} => rows2[t][k] = plan[t][k]
             /\ \A g : OfRow(since \cup {f}, t, k) = {g} =>
                    RowCarried(g.was, g.is, plan[t][k], rows2[t][k])
  <2>1. OfRow(since \cup {f}, t, k) = OfRow(since, t, k)
    BY <1>3 DEF OfRow
  <2>2. rows2[t][k] = rows[t][k]
    BY <1>2, <1>3
  <2> QED
    BY <2>1, <2>2 DEF Edited
<1>4. ASSUME NEW t \in Tables, NEW k \in Keys, t = f.table, k = f.pk
      PROVE  /\ OfRow(since \cup {f}, t, k) # {}
             /\ \A g : OfRow(since \cup {f}, t, k) = {g} =>
                    RowCarried(g.was, g.is, plan[t][k], rows2[t][k])
  <2>1. f \in OfRow(since \cup {f}, t, k)
    BY <1>4 DEF OfRow
  <2>2. ASSUME NEW g, OfRow(since \cup {f}, t, k) = {g}
        PROVE  RowCarried(g.was, g.is, plan[t][k], rows2[t][k])
    <3>1. g = f /\ OfRow(since, t, k) \subseteq {f}
      BY <2>1, <2>2 DEF OfRow
    <3>2. OfRow(since, t, k) # {f}
      <4> SUFFICES ASSUME OfRow(since, t, k) = {f} PROVE FALSE
        OBVIOUS
      <4>1. RowCarried(f.was, f.is, plan[t][k], rows[t][k])
        BY DEF Edited
      <4>2. rows[t][k] # f.was
        BY <1>1, <4>1, EditShows
      <4> QED
        BY <1>4, <4>2
    <3>3. OfRow(since, t, k) = {}
      BY <3>1, <3>2
    <3>4. rows[t][k] = plan[t][k]
      BY <3>3 DEF Edited
    <3>5. plan[t][k] = f.was /\ rows2[t][k] = f.is
      BY <1>2, <1>4, <3>4
    <3>6. RowCarried(f.was, f.is, f.was, f.is)
      BY DEF RowCarried, Carried
    <3> QED
      BY <3>1, <3>5, <3>6
  <2> QED
    BY <2>1, <2>2
<1>5. \A g \in since \cup {f} : g.was # g.is
  BY DEF Edited
<1> QED
  BY <1>3, <1>4, <1>5 DEF Edited

\* The plan of a call, step by step, as FileInPlace has the file when nobody edits.
EditsInv ==
    /\ step \in {"createOurs", "undo"} => Edited(foreign.since, before, file)
    /\ step \in {"createTheirs", "applyTheirs"} =>
            Edited(foreign.since, IF Direct THEN base ELSE before, file)
    /\ step \in {"rebase", "applyFinal"} =>
            Edited(foreign.since, IF Direct THEN modifiedTheir ELSE before, file)
    /\ Answered /\ HasRoom => Edited(foreign.since, Merged, file)
    /\ step = "idle" /\ returned = "none" => Edited(foreign.since, before, file)

\* The step with which the call is where the plan was all along.
LEMMA EditsReported ==
    ASSUME NEW plan, Edited(foreign.since, plan, file), foreign' = foreign, file' = file,
           step' \in {"idle", "report"}, HasRoom' => Merged' = plan,
           step' = "idle" => returned' # "none"
    PROVE  EditsInv'
  BY DEF EditsInv, Answered

LEMMA EditsCallStep == ASSUME Inv, Inv', CallRebase PROVE EditsInv'
<1>1. /\ step' = IF procedure = "Rebase" THEN "createTheirs" ELSE "createOurs"
      /\ before' = file /\ file' = file /\ foreign'.since = {} /\ procedure' = procedure
  BY DEF CallRebase, files, Inv, FileInv, FileTypeOK
<1>2. Edited(foreign'.since, before', file')
  BY <1>1, NothingEdited
<1> QED
  BY <1>1, <1>2 DEF EditsInv, Answered, Direct

LEMMA EditsCreateOursStep == ASSUME Inv, Inv', CreateOurs PROVE EditsInv'
<1>1. /\ before' = file /\ file' = file /\ foreign'.since = {}
      /\ procedure' = procedure /\ base' = base
      /\ base \in Database /\ file \in Database
      /\ baseOurs' = CreateChangeset(base, file)
      /\ \/ procedure = "Rebase" /\ step' \in {"applyTheirs", "rebase"}
         \/ /\ procedure = "RebaseDirect"
            /\ step' = IF baseOurs' = <<>> THEN "createTheirs" ELSE "undo"
  BY DEF CreateOurs, Continue, files, Inv, FileInv, FileTypeOK
<1>2. Edited(foreign'.since, before', file')
  BY <1>1, NothingEdited
<1>3. baseOurs' = <<>> => base' = before'
  BY <1>1, NothingCreated
<1> QED
  BY <1>1, <1>2, <1>3 DEF EditsInv, Answered, Direct

LEMMA EditsCreateTheirsStep == ASSUME Inv, Inv', EditsInv, CreateTheirs PROVE EditsInv'
<1>1. /\ step = "createTheirs" /\ returned = "none"
      /\ UNCHANGED <<procedure, base, modifiedTheir, file, before, foreign>>
      /\ base \in Database /\ modifiedTheir \in Database
      /\ baseTheirs' = CreateChangeset(base, modifiedTheir)
      /\ \/ procedure = "Rebase" /\ baseTheirs' = <<>> /\ step' = "idle" /\ returned' = "ok"
         \/ procedure = "Rebase" /\ step' = "createOurs"
         \/ /\ procedure = "RebaseDirect"
            /\ step' = IF baseTheirs' = <<>> THEN "rebase" ELSE "applyTheirs"
  BY DEF CreateTheirs, Return, Continue, files, ghost, Inv, FileInv, FileTypeOK
<1>2. Edited(foreign.since, IF Direct THEN base ELSE before, file)
  BY <1>1 DEF EditsInv
<1>3. baseTheirs' = <<>> => base = modifiedTheir
  BY <1>1, NothingCreated
<1>4. CASE step' = "idle"
  <2>1. Merged' = before /\ ~Direct
    BY <1>1, <1>4 DEF Merged, Direct
  <2> QED
    BY <1>1, <1>2, <1>4, <2>1, EditsReported
<1>5. CASE step' # "idle"
  BY <1>1, <1>2, <1>3, <1>5 DEF EditsInv, Answered, Direct
<1> QED
  BY <1>4, <1>5

LEMMA EditsEnterDriverStep == ASSUME Inv, Inv', EditsInv, EnterDriver PROVE EditsInv'
<1>1. /\ step = "rebase" /\ returned = "none"
      /\ UNCHANGED <<procedure, base, modifiedTheir, file, before, foreign, baseTheirs, baseOurs>>
      /\ base \in Database /\ modifiedTheir \in Database /\ before \in Database
      /\ baseTheirs = CreateChangeset(base, modifiedTheir)
      /\ baseOurs = CreateChangeset(base, before)
      /\ \/ baseOurs = <<>> /\ step' = "idle" /\ returned' = "ok" /\ Direct
         \/ step' = step /\ returned' = returned
  BY DEF EnterDriver, Return, files, ghost, temporary, Inv, FileInv, FileTypeOK, ChangesetsMade,
         SituationsKnown
<1>2. Edited(foreign.since, IF Direct THEN modifiedTheir ELSE before, file)
  BY <1>1 DEF EditsInv
<1>3. CASE step' = "idle"
  <2>1. base = before
    BY <1>1, <1>3, NothingCreated
  <2>2. baseTheirs = <<>> => base = modifiedTheir
    BY <1>1, NothingCreated
  <2>3. Merged' = modifiedTheir /\ Direct
    BY <1>1, <1>3, <2>1, <2>2 DEF Merged
  <2> QED
    BY <1>1, <1>2, <1>3, <2>3, EditsReported
<1>4. CASE step' # "idle"
  BY <1>1, <1>2, <1>4 DEF EditsInv, Answered, Direct
<1> QED
  BY <1>3, <1>4

LEMMA EditsLeaveDriverStep == ASSUME Inv, Inv', EditsInv, LeaveDriver PROVE EditsInv'
<1>1. /\ step = "rebase" /\ input # NoInput /\ phase = "done"
      /\ UNCHANGED driver
      /\ UNCHANGED <<procedure, base, modifiedTheir, file, before, foreign, baseTheirs, baseOurs>>
      /\ \/ step' = "applyFinal"
         \/ procedure = "RebaseDirect" /\ output = <<>> /\ step' = "report"
  BY DEF LeaveDriver, Continue, files, ghost, DriverCalled, Inv, FileInv
<1>2. Edited(foreign.since, IF Direct THEN modifiedTheir ELSE before, file)
  BY <1>1 DEF EditsInv
<1>3. CASE step' = "report"
  <2>1. HasRoom => Replay(output, modifiedTheir) = Merged
    BY <1>1, DriverDone
  <2>2. HasRoom' => Merged' = modifiedTheir
    BY <1>1, <1>3, <2>1, ReplayNothing, SameMerge
  <2> QED
    BY <1>1, <1>2, <1>3, <2>2, EditsReported DEF Direct
<1>4. CASE step' # "report"
  BY <1>1, <1>2, <1>4 DEF EditsInv, Answered, Direct
<1> QED
  BY <1>3, <1>4

LEMMA EditsUndoStep == ASSUME Inv, Inv', EditsInv, Undo PROVE EditsInv'
<1>1. /\ step = "undo" /\ step' = "createTheirs" /\ Direct
      /\ UNCHANGED <<procedure, base, foreign>>
      /\ base \in Database /\ before \in Database /\ file \in Database
      /\ baseOurs = CreateChangeset(base, before)
      /\ file' \in Applied(InvertChangeset(baseOurs), file)
  BY DEF Undo, Apply, Continue, Inv, FileInv, FileTypeOK, ChangesetsMade, SituationsKnown
<1> DEFINE undone == InvertChangeset(baseOurs)
<1>2. InvertibleLog(undone) /\ Replay(undone, before) = base
  BY <1>1, CreatedInvertible, CreatedLog
<1>3. LeadTo(undone, 1..Len(undone), before, base)
  BY <1>1, <1>2, AbsentAssumption, ReplayLeads DEF InvertibleLog
<1>4. LeadTo(undone, 1..Len(undone), file, file')
  BY <1>1, <1>2, AppliedLeads
<1>5. Edited(foreign.since, before, file)
  BY <1>1 DEF EditsInv
<1> HIDE DEF undone
<1>6. Edited(foreign.since, base, file')
  BY <1>2, <1>3, <1>4, <1>5, EditsStay
<1> QED
  BY <1>1, <1>6 DEF EditsInv, Answered, Direct

LEMMA EditsApplyTheirsStep == ASSUME Inv, Inv', EditsInv, ApplyTheirs PROVE EditsInv'
<1>1. /\ step = "applyTheirs"
      /\ step' = IF procedure = "Rebase" THEN "report" ELSE "rebase"
      /\ UNCHANGED <<procedure, base, modifiedTheir, before, foreign, baseTheirs, baseOurs>>
      /\ base \in Database /\ modifiedTheir \in Database /\ before \in Database /\ file \in Database
      /\ baseTheirs = CreateChangeset(base, modifiedTheir)
      /\ baseOurs = CreateChangeset(base, before)
      /\ baseTheirs # <<>> /\ (Direct \/ baseOurs = <<>>)
      /\ file' \in Applied(baseTheirs, file)
      /\ procedure \in Procedures
  BY DEF ApplyTheirs, Apply, Continue, temporary, Inv, FileInv, FileTypeOK, ChangesetsMade, SituationsKnown
<1>2. InvertibleLog(baseTheirs) /\ Replay(baseTheirs, base) = modifiedTheir
  BY <1>1, CreatedInvertible, CreatedLog
<1>3. LeadTo(baseTheirs, 1..Len(baseTheirs), base, modifiedTheir)
  BY <1>1, <1>2, AbsentAssumption, ReplayLeads DEF InvertibleLog
<1>4. LeadTo(baseTheirs, 1..Len(baseTheirs), file, file')
  BY <1>1, <1>2, AppliedLeads
<1>5. Edited(foreign.since, base, file)
  <2>1. Direct \/ base = before
    BY <1>1, NothingCreated
  <2> QED
    BY <1>1, <2>1 DEF EditsInv
<1>6. Edited(foreign.since, modifiedTheir, file')
  BY <1>2, <1>3, <1>4, <1>5, EditsStay
<1>7. Direct \/ Merged' = modifiedTheir
  BY <1>1 DEF Merged
<1> QED
  BY <1>1, <1>6, <1>7 DEF EditsInv, Answered, Direct, Procedures

LEMMA EditsApplyFinalStep == ASSUME Inv, Inv', EditsInv, ApplyFinal PROVE EditsInv'
<1>1. /\ step = "applyFinal" /\ step' = "report"
      /\ UNCHANGED driver
      /\ UNCHANGED <<procedure, base, modifiedTheir, before, foreign, baseTheirs, baseOurs>>
      /\ base \in Database /\ modifiedTheir \in Database /\ before \in Database /\ file \in Database
      /\ baseTheirs = CreateChangeset(base, modifiedTheir)
      /\ baseOurs = CreateChangeset(base, before) /\ baseOurs # <<>>
      /\ input # NoInput /\ phase = "done"
      /\ ours = baseOurs /\ theirs = baseTheirs /\ IInv /\ MergeInv
      /\ theirs = <<>> => output = ours
      /\ modifiedFinal = IF Direct THEN output ELSE Combined
      /\ file' \in Applied(modifiedFinal, file)
  BY DEF ApplyFinal, Apply, Continue, temporary, Inv, FileInv, FileTypeOK, ChangesetsMade,
         DriverCalled, OursCopied, theirs, ours
<1> SUFFICES ASSUME HasRoom PROVE Edited(foreign.since, Merged, file')
  <2>1. HasRoom' = HasRoom /\ Merged' = Merged
    BY <1>1, SameMerge
  <2> QED
    BY <1>1, <2>1 DEF EditsInv, Answered
<1>2. Merged \in Database /\ Replay(output, modifiedTheir) = Merged
  BY <1>1, DriverDone
<1> DEFINE undone == InvertChangeset(baseOurs)
<1>3. /\ InvertibleLog(undone) /\ InvertibleLog(baseTheirs) /\ InvertibleLog(baseOurs)
      /\ Replay(undone, before) = base /\ Replay(baseTheirs, base) = modifiedTheir
  BY <1>1, CreatedInvertible, CreatedLog
<1>4. InvertibleLog(output)
  <2>1. CASE theirs = <<>>
    BY <1>1, <1>3, <2>1
  <2>2. CASE theirs # <<>>
    <3>1. OneEntryPerRow(theirs) /\ OneEntryPerRow(ours)
      BY <1>1, CreatedMeetsContract
    <3>2. Over
      BY <1>1, <2>2, <3>1 DEF Over, RowsCall
    <3> QED
      BY <3>2, OutputInvertible
  <2> QED
    BY <2>1, <2>2
<1> DEFINE plan == IF Direct THEN modifiedTheir ELSE before
<1>5. Combined = ConcatChanges(ConcatChanges(undone, baseTheirs), output)
  BY DEF Combined
<1> HIDE DEF undone
<1>6. InvertibleLog(ConcatChanges(undone, baseTheirs)) /\ InvertibleLog(Combined)
  BY <1>3, <1>4, <1>5, JoinedInvertible
<1>7. Replay(Combined, before) = Merged
  <2>1. Replay(ConcatChanges(undone, baseTheirs), before) = modifiedTheir
    BY <1>3, ReplayOfConcatenation DEF InvertibleLog
  <2>2. Replay(Combined, before) = Replay(output, Replay(ConcatChanges(undone, baseTheirs), before))
    BY <1>4, <1>5, <1>6, ReplayOfConcatenation DEF InvertibleLog
  <2> QED
    BY <1>2, <2>1, <2>2
<1>8. InvertibleLog(modifiedFinal) /\ Replay(modifiedFinal, plan) = Merged /\ plan \in Database
  BY <1>1, <1>2, <1>4, <1>6, <1>7
<1>9. Edited(foreign.since, plan, file)
  BY <1>1 DEF EditsInv
<1> HIDE DEF plan
<1>10. LeadTo(modifiedFinal, 1..Len(modifiedFinal), plan, Merged)
  BY <1>2, <1>8, AbsentAssumption, ReplayLeads DEF InvertibleLog
<1>11. LeadTo(modifiedFinal, 1..Len(modifiedFinal), file, file')
  BY <1>1, <1>8, AppliedLeads
<1> QED
  BY <1>8, <1>9, <1>10, <1>11, EditsStay

LEMMA EditsOtherEditStep == ASSUME Inv, Inv', EditsInv, OtherEdit PROVE EditsInv'
<1>1. PICK f \in Foreign :
        /\ file[f[1]][f[2]] # f[3]
        /\ file' = [file EXCEPT ![f[1]][f[2]] = f[3]]
        /\ foreign' = [made |-> foreign.made + 1,
                       since |-> foreign.since \cup
                           {[table |-> f[1], pk |-> f[2], was |-> file[f[1]][f[2]], is |-> f[3]]}]
  BY DEF OtherEdit
<1> DEFINE g == [table |-> f[1], pk |-> f[2], was |-> file[f[1]][f[2]], is |-> f[3]]
<1>2. /\ file \in Database
      /\ foreign.since \in SUBSET [table : Tables, pk : Keys,
                                   was : Row \cup {Absent}, is : Row \cup {Absent}]
  BY DEF Inv, FileInv, FileTypeOK
<1>3. g \in [table : Tables, pk : Keys, was : Row \cup {Absent}, is : Row \cup {Absent}]
  <2>1. f[1] \in Tables /\ f[2] \in Keys /\ f[3] \in Row \cup {Absent}
    BY ForeignAssumption
  <2> QED
    BY <1>2, <2>1 DEF Database
<1>4. /\ foreign'.since = foreign.since \cup {g}
      /\ g.was = file[g.table][g.pk] /\ g.was # g.is
      /\ file' = [file EXCEPT ![g.table][g.pk] = g.is]
  BY <1>1
<1> HIDE DEF g
<1>5. ASSUME NEW plan, Edited(foreign.since, plan, file)
      PROVE  Edited(foreign'.since, plan, file')
  <2> DEFINE since == foreign.since
             edited == [file EXCEPT ![g.table][g.pk] = g.is]
  <2>1. since \in SUBSET [table : Tables, pk : Keys, was : Row \cup {Absent}, is : Row \cup {Absent}]
    BY <1>2
  <2>2. Edited(since, plan, file)
    BY <1>5
  <2> HIDE DEF since
  <2>3. Edited(since \cup {g}, plan, edited)
    BY <1>2, <1>3, <1>4, <2>1, <2>2, EditAdded
  <2> QED
    BY <1>4, <2>3 DEF since
<1>6. /\ UNCHANGED driver
      /\ UNCHANGED <<procedure, step, base, modifiedTheir, baseTheirs, baseOurs, before, returned>>
  BY DEF OtherEdit, temporary
<1>7. HasRoom' = HasRoom /\ Merged' = Merged /\ Direct' = Direct /\ Answered' = Answered
  BY <1>6, SameMerge DEF Direct, Answered
<1> QED
  BY <1>5, <1>6, <1>7 DEF EditsInv

LEMMA EditsNext == ASSUME Inv, Inv', EditsInv, [FileNext]_fileVars PROVE EditsInv'
<1>1. CASE DriverStep
  <2>1. /\ step = "rebase" /\ step' = step
        /\ UNCHANGED <<procedure, base, modifiedTheir, file, before, foreign>>
    BY <1>1 DEF DriverStep, files, ghost
  <2> QED
    BY <2>1 DEF EditsInv, Answered, Direct
<1>2. CASE Report
  <2>1. /\ step = "report" /\ step' = "idle" /\ returned' \in {"ok", "error"}
        /\ UNCHANGED driver
        /\ UNCHANGED <<file, foreign, baseTheirs, baseOurs, before, modifiedTheir>>
    BY <1>2 DEF Report, Return, files, ghost, temporary
  <2> QED
    BY <2>1, SameMerge DEF EditsInv, Answered
<1>3. CASE Fail \/ Crash
  <2>1. step' = "idle" /\ returned' \in {"error", "crash"}
    BY <1>3 DEF Fail, Crash, Return
  <2> QED
    BY <2>1 DEF EditsInv, Answered
<1>4. CASE UNCHANGED fileVars
  <2>1. /\ UNCHANGED driver
        /\ UNCHANGED <<procedure, step, returned, base, modifiedTheir, file, before, foreign,
                       baseTheirs, baseOurs>>
    BY <1>4 DEF fileVars, files, ghost, temporary
  <2>2. HasRoom' = HasRoom /\ Merged' = Merged /\ Direct' = Direct /\ Answered' = Answered
    BY <2>1, SameMerge DEF Direct, Answered
  <2> QED
    BY <2>1, <2>2 DEF EditsInv
<1> QED
  BY <1>1, <1>2, <1>3, <1>4, EditsCallStep, EditsCreateOursStep, EditsCreateTheirsStep,
     EditsEnterDriverStep, EditsLeaveDriverStep, EditsUndoStep, EditsApplyTheirsStep,
     EditsApplyFinalStep, EditsOtherEditStep DEF FileNext, Progress

-----------------------------------------------------------------------------
(* The theorems *)

\* Inv is inductive, hence an invariant of both procedures: it holds through
\* failures, crashes and repeated calls, and says where the file is at each step.
THEOREM FileInvariance == FileSpec => []Inv
<1>1. Inv /\ [FileNext]_fileVars => Inv'
  <2> SUFFICES ASSUME Inv, [FileNext]_fileVars PROVE Inv'
    OBVIOUS
  <2>1. CASE CallRebase
    BY <2>1, CallStep
  <2>2. CASE CreateTheirs
    BY <2>2, CreateTheirsStep
  <2>3. CASE CreateOurs
    BY <2>3, CreateOursStep
  <2>4. CASE EnterDriver
    BY <2>4, EnterDriverStep
  <2>5. CASE DriverStep
    BY <2>5, DriverStepStep
  <2>6. CASE LeaveDriver
    BY <2>6, LeaveDriverStep
  <2>7. CASE Undo
    BY <2>7, UndoStep
  <2>8. CASE ApplyTheirs
    BY <2>8, ApplyTheirsStep
  <2>9. CASE ApplyFinal
    BY <2>9, ApplyFinalStep
  <2>10. CASE Report \/ Fail \/ Crash
    BY <2>10, ReturnStep
  <2>11. CASE OtherEdit
    BY <2>11, OtherEditStep
  <2>12. CASE UNCHANGED fileVars
    BY <2>12, StutterStep
  <2> QED
    BY <2>1, <2>2, <2>3, <2>4, <2>5, <2>6, <2>7, <2>8, <2>9, <2>10, <2>11, <2>12 DEF FileNext, Progress
<1> QED
  BY <1>1, FileInitInv, PTL DEF FileSpec

\* The variables of Rebase and RebaseDirect keep their types.
THEOREM FileTypeCorrect == FileSpec => []FileTypeOK
<1>1. Inv => FileTypeOK
  BY DEF Inv, FileInv
<1> QED
  BY <1>1, FileInvariance, PTL

\* A call of Rebase or RebaseDirect that returns without an error has left the
\* three-way merge in the file, after any history of failed, crashed and repeated
\* calls, provided no other program wrote since our changes were read.
THEOREM SuccessLeavesMerge == FileSpec => []SuccessIsMerge
<1>1. Inv => SuccessIsMerge
  BY DEF Inv, FileInv, FileLeft, HoldsMerge, HasRoom, SuccessIsMerge
<1> QED
  BY <1>1, FileInvariance, PTL

\* geodiff.Rebase changes the file once: until its one ApplyChangeset commits, and
\* whenever it fails, the file is as it was.
THEOREM RebaseChangesOnce == FileSpec => []RebaseAllOrNothing
<1>1. Inv => RebaseAllOrNothing
  <2> SUFFICES ASSUME Inv, procedure = "Rebase", foreign.since = {}
               PROVE  \/ file = before
                      \/ /\ step = "report" \/ returned \in {"ok", "crash"}
                         /\ InsertsHaveRoom => file = Merged
    BY DEF RebaseAllOrNothing
  <2> ~Direct
    BY DEF Direct
  <2>1. FileTypeOK /\ FileInPlace /\ FileLeft
    BY DEF Inv, FileInv
  <2> QED
    BY <2>1 DEF FileTypeOK, Steps, FileInPlace, FileLeft, HoldsMerge, HasRoom
<1> QED
  BY <1>1, FileInvariance, PTL

\* driver.RebaseDirect commits in stages, and whatever happens to it the file is
\* OURS, BASE, THEIRS or the merge, never a mixture.
THEOREM DirectRestsAtAVersion == FileSpec => []DirectInStages
<1>1. Inv => DirectInStages
  <2> SUFFICES ASSUME Inv, procedure = "RebaseDirect", foreign.since = {}
               PROVE  \/ file \in {before, base, modifiedTheir}
                      \/ /\ step = "report" \/ returned \in {"ok", "error", "crash"}
                         /\ InsertsHaveRoom => file = Merged
    BY DEF DirectInStages
  <2> Direct
    BY DEF Direct
  <2>1. FileTypeOK /\ FileInPlace /\ FileLeft
    BY DEF Inv, FileInv
  <2> QED
    BY <2>1 DEF FileTypeOK, Steps, FileInPlace, FileLeft, HoldsMerge, HasRoom
<1> QED
  BY <1>1, FileInvariance, PTL

\* A caller that lost the answer and calls again changes nothing, if theirs inserted
\* nothing, whichever of the two procedures it calls: merging with THEIRS a second
\* time makes nothing new of a file that has their changes.
THEOREM RepeatedCallIsHarmless == FileSpec => []RepeatedCallChangesNothing
<1>1. FileInit => RepeatInv
  BY DEF FileInit, RepeatInv
<1>2. Inv /\ Inv' /\ RepeatInv /\ [FileNext]_fileVars => RepeatInv'
  BY RepeatNext
<1>3. Inv /\ RepeatInv => RepeatedCallChangesNothing
  <2>1. Inv /\ returned = "ok" => step = "idle"
    BY DEF Inv, FileInv
  <2> QED
    BY <2>1 DEF RepeatInv, RepeatedCallChangesNothing, Answered, InsertsNothing
<1> QED
  BY <1>1, <1>2, <1>3, FileInvariance, PTL DEF FileSpec

\* What another program wrote into a row is there when a call succeeds, if it wrote
\* the row once: the entries of each changeset, in whatever order they are executed,
\* move the file as they move the plan, and so carry the edit along.
THEOREM ForeignEditsSurvive == FileSpec => []ForeignEditsKept
<1>1. FileInit => EditsInv
  <2> SUFFICES ASSUME FileInit PROVE EditsInv
    OBVIOUS
  <2>1. step = "idle" /\ returned = "none" /\ before = file /\ foreign.since = {}
    BY DEF FileInit, NoForeign
  <2>2. Edited({}, file, file)
    BY NothingEdited
  <2> QED
    BY <2>1, <2>2 DEF EditsInv, Answered
<1>2. Inv /\ Inv' /\ EditsInv /\ [FileNext]_fileVars => EditsInv'
  BY EditsNext
<1>3. Inv /\ EditsInv => ForeignEditsKept
  <2> SUFFICES ASSUME Inv, EditsInv, returned = "ok", InsertsHaveRoom, NEW f \in OnlyEdits
               PROVE  LET row == file[f.table][f.pk] IN
                      IF f.was = Absent \/ f.is = Absent
                      THEN row = f.is
                      ELSE /\ row # Absent
                           /\ \A c \in Cols : f.is[c] # f.was[c] => row[c] = f.is[c]
    BY DEF ForeignEditsKept
  <2> DEFINE row == file[f.table][f.pk]
             plan == Merged[f.table][f.pk]
  <2>1. Edited(foreign.since, Merged, file)
    BY DEF EditsInv, Answered, Inv, FileInv, HasRoom
  <2>2. /\ f \in foreign.since /\ f.table \in Tables /\ f.pk \in Keys
        /\ f.was \in Row \cup {Absent} /\ f.is \in Row \cup {Absent}
        /\ file \in Database
    BY DEF OnlyEdits, Inv, FileInv, FileTypeOK
  <2>3. OfRow(foreign.since, f.table, f.pk) = {f}
    BY <2>2 DEF OnlyEdits, OfRow
  <2>4. RowCarried(f.was, f.is, plan, row) /\ f.was # f.is
    BY <2>1, <2>2, <2>3 DEF Edited
  <2>5. row \in Row \cup {Absent}
    BY <2>2 DEF Database
  <2> HIDE DEF row, plan
  <2>6. (f.was # Absent) # (f.is # Absent) => (row # Absent) = (f.is # Absent)
    BY <2>4 DEF RowCarried, Carried
  <2>7. \A c \in Cols : Seen(f.was, c) # Seen(f.is, c) => Seen(row, c) = Seen(f.is, c)
    BY <2>4 DEF RowCarried, Carried
  <2>8. \A r \in Row, c \in Cols : r # Absent /\ Seen(r, c) = r[c] /\ r[c] # Undefined
    BY AbsentAssumption, UndefinedAssumption DEF Seen, Row
  <2>9. CASE f.is = Absent
    BY <2>4, <2>6, <2>9 DEF row
  <2>10. CASE f.was = Absent /\ f.is # Absent
    <3>1. row # Absent /\ f.is \in Row
      BY <2>2, <2>6, <2>10
    <3>2. \A c \in Cols : Seen(row, c) = Seen(f.is, c)
      BY <2>7, <2>8, <2>10, <3>1 DEF Seen
    <3>3. row = f.is
      BY <2>2, <2>5, <2>10, <3>1, <3>2, SeenAlike
    <3> QED
      BY <2>10, <3>3 DEF row
  <2>11. CASE f.was # Absent /\ f.is # Absent
    <3>1. f.was \in Row /\ f.is \in Row
      BY <2>2, <2>11
    <3>2. \A c \in Cols : f.is[c] # f.was[c] => Seen(row, c) = f.is[c]
      BY <2>7, <2>8, <3>1
    <3>3. PICK c \in Cols : f.is[c] # f.was[c]
      BY <2>4, <3>1, RowsAreFunctions
    <3>4. row # Absent
      BY <2>8, <3>1, <3>2, <3>3 DEF Seen
    <3>5. \A d \in Cols : f.is[d] # f.was[d] => row[d] = f.is[d]
      BY <3>2, <3>4 DEF Seen
    <3> QED
      BY <2>11, <3>4, <3>5 DEF row
  <2> QED
    BY <2>9, <2>10, <2>11
<1> QED
  BY <1>1, <1>2, <1>3, FileInvariance, PTL DEF FileSpec
=============================================================================
