----------------------------- MODULE RebaseFile -----------------------------
(***************************************************************************)
(* The two procedures that rebase a database file in place.                *)
(*                                                                         *)
(* geodiff.Rebase writes every changeset first and changes the file in one *)
(* ApplyChangeset.  driver.RebaseDirect undoes our changes, applies theirs *)
(* and then the rebased ones, each in an ApplyChangeset of its own.        *)
(*                                                                         *)
(* Both call driver.Rebase, whose variables and steps are those of module  *)
(* Rebase.  What ApplyChangeset may do to the file is what module Apply is *)
(* shown to implement: AtomicApply, and its SuccessMeansInOrder.           *)
(*                                                                         *)
(* Inputs is not used: the driver gets what the two procedures make.       *)
(*                                                                         *)
(* Nothing locks the file between two of these steps: another program may  *)
(* edit it, and the process may die and the caller call again.             *)
(***************************************************************************)
EXTENDS Rebase

CONSTANTS
    Versions,    \* the databases BASE, THEIRS and OURS may be
    Foreign,     \* <<table, key, row>>: what another program may write
    MaxForeign,  \* bound on the edits of other programs
    MaxCalls     \* bound on the calls

ASSUME VersionsAssumption == Versions \subseteq Database
ASSUME ForeignAssumption == Foreign \subseteq Tables \X Keys \X (Row \cup {Absent})
ASSUME BoundsAssumption == MaxForeign \in Nat /\ MaxCalls \in Nat

VARIABLES
    procedure,   \* which of them is called
    step,        \* where it is, "idle" between calls
    base,        \* the file base
    modifiedTheir, \* the file of theirs
    file,        \* the file modified, or ours
    baseOurs,    \* changeset files
    baseTheirs,
    modifiedFinal,
    returned,    \* how the last call ended
    calls,       \* calls so far
    before,      \* ghost: the file when BASE->OURS was made of it
    foreign,     \* ghost: edits of other programs, and which of them were
                 \* made since
    merged,      \* ghost: a call has committed all it had to, and no other
                 \* program wrote since
    again        \* ghost: merged, when this call began

driver == vars
files == <<base, modifiedTheir, file>>
ghost == <<before, foreign, merged, again>>
temporary == <<baseOurs, baseTheirs, modifiedFinal>>
fileVars == <<driver, procedure, step, files, temporary, returned, calls, ghost>>

Procedures == {"Rebase", "RebaseDirect"}

Steps == {"idle", "createTheirs", "createOurs", "undo", "applyTheirs", "rebase",
          "applyFinal", "report"}

NoForeign == [made |-> 0, since |-> {}]

NoInput == [base |-> base, theirs |-> <<>>, ours |-> <<>>]

\* driver.Rebase is entered: its variables are Fresh.
Enter(in) ==
    /\ phase' = "open" /\ input' = in /\ pos' = 0
    /\ touched' = {}
    /\ inserted' = [t \in Tables |-> {}]
    /\ deleted' = [t \in Tables |-> {}]
    /\ updated' = [t \in Tables |-> [k \in Keys |-> Blank]]
    /\ mapIds' = [t \in Tables |-> <<>>]
    /\ unmapped' = [t \in Tables |-> {}]
    /\ freeIndex' = [t \in Tables |-> NoIndex]
    /\ changes' = [t \in Tables |-> <<>>]
    /\ tableOrder' = <<>> /\ conflicts' = {} /\ output' = <<>>

-----------------------------------------------------------------------------
FileInit ==
    /\ procedure \in Procedures
    /\ base \in Versions /\ modifiedTheir \in Versions /\ file \in Versions
    /\ step = "idle" /\ returned = "none" /\ calls = 0
    /\ baseOurs = <<>> /\ baseTheirs = <<>> /\ modifiedFinal = <<>>
    /\ before = file /\ foreign = NoForeign /\ merged = FALSE /\ again = FALSE
    /\ input = NoInput /\ Fresh

\* A caller calls, or calls again after a crash, an error or a success.
CallRebase ==
    /\ step = "idle" /\ calls < MaxCalls
    /\ step' = IF procedure = "Rebase" THEN "createTheirs" ELSE "createOurs"
    /\ returned' = "none" /\ calls' = calls + 1
    /\ baseOurs' = <<>> /\ baseTheirs' = <<>> /\ modifiedFinal' = <<>>
    /\ before' = file /\ foreign' = [foreign EXCEPT !.since = {}]
    /\ again' = merged
    /\ Enter(NoInput)
    /\ UNCHANGED <<procedure, files, merged>>

Return(r) == step' = "idle" /\ returned' = r

Continue(s) == step' = s /\ UNCHANGED returned

-----------------------------------------------------------------------------
(* The changesets are made *)

\* Rebase: Situation 1, theirs has no changes, returns at once.
CreateTheirs ==
    /\ step = "createTheirs"
    /\ baseTheirs' = CreateChangeset(base, modifiedTheir)
    /\ \/ /\ procedure = "Rebase" /\ baseTheirs' = <<>>
          /\ Return("ok")
       \/ /\ procedure = "Rebase" /\ baseTheirs' # <<>>
          /\ Continue("createOurs")
       \/ /\ procedure = "RebaseDirect"
          /\ Continue(IF baseTheirs' = <<>> THEN "rebase" ELSE "applyTheirs")
    /\ UNCHANGED <<driver, procedure, files, baseOurs, modifiedFinal, calls, ghost>>

\* Fault: Rebase undoes our changes in a call of its own.
CreateOursAndUndo ==
    /\ step = "createOurs"
    /\ baseOurs' = CreateChangeset(base, file)
    /\ before' = file /\ foreign' = [foreign EXCEPT !.since = {}]
    /\ Continue(IF baseOurs' = <<>> THEN "applyTheirs" ELSE "undo")
    /\ UNCHANGED <<driver, procedure, files, baseTheirs, modifiedFinal, calls, merged, again>>

\* Rebase: Situation 2, ours has no changes, applies theirs.
CreateOurs ==
    /\ step = "createOurs"
    /\ baseOurs' = CreateChangeset(base, file)
    /\ before' = file /\ foreign' = [foreign EXCEPT !.since = {}]
    /\ \/ procedure = "Rebase" /\ Continue(IF baseOurs' = <<>> THEN "applyTheirs" ELSE "rebase")
       \/ procedure = "RebaseDirect" /\ Continue(IF baseOurs' = <<>> THEN "createTheirs" ELSE "undo")
    /\ UNCHANGED <<driver, procedure, files, baseTheirs, modifiedFinal, calls, merged, again>>

\* driver.Rebase, from its call to its return.
EnterDriver ==
    /\ step = "rebase" /\ input = NoInput
    /\ IF baseOurs = <<>>
       THEN Return("ok") /\ UNCHANGED driver
       ELSE /\ Enter([base |-> base, theirs |-> baseTheirs, ours |-> baseOurs])
            /\ UNCHANGED <<step, returned>>
    /\ UNCHANGED <<procedure, files, temporary, calls, ghost>>

DriverStep ==
    /\ step = "rebase" /\ input # NoInput
    /\ Next
    /\ UNCHANGED <<procedure, step, files, temporary, returned, calls, ghost>>

\* Fault: the rebased changes are left out.
CombinedWithoutRebased == ConcatChanges(InvertChangeset(baseOurs), baseTheirs)

\* invertChangesetByPath and ConcatChanges
Combined ==
    ConcatChanges(ConcatChanges(InvertChangeset(baseOurs), baseTheirs), output)

\* RebaseDirect does not apply an empty changeset. An error of driver.Rebase
\* is a Fail.
LeaveDriver ==
    /\ step = "rebase" /\ phase = "done"
    /\ \/ /\ procedure = "Rebase"
          /\ modifiedFinal' = Combined
          /\ Continue("applyFinal")
       \/ /\ procedure = "RebaseDirect"
          /\ modifiedFinal' = output
          /\ Continue(IF output = <<>> THEN "report" ELSE "applyFinal")
    /\ UNCHANGED <<driver, procedure, files, baseOurs, baseTheirs, calls, ghost>>

-----------------------------------------------------------------------------
(* The file is changed: ApplyChangeset *)

Atomic == INSTANCE AtomicApply
            WITH Start <- Versions, Skipped <- {}, Referential <- Database, Triggers <- {},
                 busy <- TRUE, log <- <<>>, rows <- file, defined <- {}

\* Fault: entries executed before one that fails stay.
AppliedPartly(log, rows) ==
    {Replay(SubSeq(log, 1, n), rows) : n \in 0..Len(log)} \ {Absent}

\* What a successful ApplyChangeset makes of the rows.
Applied(log, rows) ==
    IF Replay(log, rows) # Absent THEN {Replay(log, rows)} ELSE Atomic!Effects(log, rows)

Apply(s, log, next) ==
    /\ step = s
    /\ file' \in Applied(log, file)
    /\ next
    /\ merged' = (step' = "report" /\ foreign.since = {})
    /\ UNCHANGED <<driver, procedure, base, modifiedTheir, temporary, calls, before, foreign, again>>

Undo == Apply("undo", InvertChangeset(baseOurs), Continue("createTheirs"))

ApplyTheirs ==
    Apply("applyTheirs", baseTheirs,
          Continue(IF procedure = "Rebase" THEN "report" ELSE "rebase"))

ApplyFinal == Apply("applyFinal", modifiedFinal, Continue("report"))

\* What is left when everything is committed. RebaseDirect writes the conflicts
\* to their file only now, and fails if it cannot.
Report ==
    /\ step = "report"
    /\ \/ Return("ok")
       \/ procedure = "RebaseDirect" /\ conflicts # {} /\ Return("error")
    /\ UNCHANGED <<driver, procedure, files, temporary, calls, ghost>>

\* One of the calls made on the way returns an error: the file is as it was
\* before that call.
Fail ==
    /\ step \notin {"idle", "report"}
    /\ Return("error")
    /\ UNCHANGED <<driver, procedure, files, temporary, calls, ghost>>

\* The process dies; a later call makes its changesets anew.
Crash ==
    /\ step # "idle"
    /\ Return("crash")
    /\ UNCHANGED <<driver, procedure, files, temporary, calls, ghost>>

\* Another program commits an edit of one row.
OtherEdit ==
    /\ foreign.made < MaxForeign
    /\ \E f \in Foreign :
        /\ file[f[1]][f[2]] # f[3]
        /\ file' = [file EXCEPT ![f[1]][f[2]] = f[3]]
        /\ foreign' = [made |-> foreign.made + 1,
                       since |-> foreign.since \cup
                           {[table |-> f[1], pk |-> f[2], was |-> file[f[1]][f[2]], is |-> f[3]]}]
    /\ merged' = FALSE /\ again' = FALSE
    /\ UNCHANGED <<driver, procedure, step, base, modifiedTheir, temporary, returned, calls, before>>

Progress ==
    \/ CreateTheirs \/ CreateOurs
    \/ EnterDriver \/ DriverStep \/ LeaveDriver
    \/ Undo \/ ApplyTheirs \/ ApplyFinal \/ Report

FileNext == CallRebase \/ Progress \/ Fail \/ Crash \/ OtherEdit

FileSpec == FileInit /\ [][FileNext]_fileVars

-----------------------------------------------------------------------------
(* Properties *)

Merged ==
    CASE baseTheirs = <<>> -> before
      [] baseTheirs # <<>> /\ baseOurs = <<>> -> modifiedTheir
      [] OTHER -> ThreeWayMerge

\* Every variable of the procedures holds what the Go code can hold in it.
FileTypeOK ==
    /\ procedure \in Procedures
    /\ step \in Steps
    /\ base \in Database /\ modifiedTheir \in Database /\ file \in Database
    /\ baseOurs \in Seq(Entry) /\ baseTheirs \in Seq(Entry)
    /\ modifiedFinal \in Seq(Entry)
    /\ returned \in {"none", "ok", "error", "crash"}
    /\ calls \in 0..MaxCalls
    /\ before \in Database
    /\ foreign \in [made : 0..MaxForeign,
                    since : SUBSET [table : Tables, pk : Keys,
                                    was : Row \cup {Absent}, is : Row \cup {Absent}]]
    /\ merged \in BOOLEAN /\ again \in BOOLEAN

\* A call that returns without an error has left the three-way merge of BASE,
\* THEIRS and OURS in the file, OURS being the file as the call found it:
\* whatever earlier calls did, failed or crashed at.
SuccessIsMerge ==
    returned = "ok" /\ foreign.since = {} /\ InsertsHaveRoom => file = Merged

\* Rebase changes the file once: it holds OURS until all of the merge is in it,
\* at every step, and when a call failed or died.
RebaseAllOrNothing ==
    procedure = "Rebase" /\ foreign.since = {} =>
        \/ file = before
        \/ /\ step = "report" \/ returned \in {"ok", "crash"}
           /\ InsertsHaveRoom => file = Merged

\* RebaseDirect commits up to three times, and a call that fails or dies may
\* leave the file at BASE or at THEIRS, without our changes; but at one of
\* them, and never at a mixture.
DirectInStages ==
    procedure = "RebaseDirect" /\ foreign.since = {} =>
        \/ file \in {before, base, modifiedTheir}
        \/ /\ step = "report" \/ returned \in {"ok", "error", "crash"}
           /\ InsertsHaveRoom => file = Merged

\* A caller that lost the answer of a call which had committed, and calls again
\* with the same BASE and THEIRS, changes nothing, unless theirs inserted rows:
\* those pass for rows of ours too the second time, and come twice.
RepeatedCallChangesNothing ==
    again /\ returned = "ok" /\ foreign.since = {}
        /\ (\A i \in DOMAIN baseTheirs : baseTheirs[i].op # "insert")
        => file = before

\* The edits of rows that were edited once.
OnlyEdits ==
    {f \in foreign.since :
        \A g \in foreign.since : g.table = f.table /\ g.pk = f.pk => g = f}

\* What another program wrote since our changes were read is still there when a
\* call succeeds: the old values in the entries protect it, or the call fails. (A
\* second edit of the same row may undo the first, and only the second is kept.)
ForeignEditsKept ==
    returned = "ok" /\ InsertsHaveRoom =>
        \A f \in OnlyEdits :
            LET row == file[f.table][f.pk] IN
            IF f.was = Absent \/ f.is = Absent
            THEN row = f.is
            ELSE /\ row # Absent
                 /\ \A c \in Cols : f.is[c] # f.was[c] => row[c] = f.is[c]
=============================================================================
